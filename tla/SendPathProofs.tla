---------------------------- MODULE SendPathProofs ----------------------------
(***************************************************************************)
(* Proofs about the life of a CMessage, for every number of sessions,      *)
(* messages, workers and frames, and every batch.                          *)
(***************************************************************************)
EXTENDS SendPath, FiniteSetTheorems, FunctionTheorems, SequenceTheorems, TLAPS

-----------------------------------------------------------------------------
(* The inductive invariant, part by part.                                  *)

WorkerSteps  == {"idle", "onrecv", "forget", "repost", "claim", "post", "dequeue", "subref",
                 "leave", "drain"}
SendingSteps == {"send", "enqueue", "claim", "post", "leave", "drain"}

\* What each thread has in its hands at each step.
Roles ==
    /\ \A w \in Workers :
          /\ pc[w] \in WorkerSteps
          /\ at[w] # Null <=> pc[w] # "idle"
          /\ request[w] # Null <=> pc[w] \in {"onrecv", "forget"}
          /\ parcel[w] # Null <=> pc[w] = "subref"
          /\ response[w] = Null
    /\ pc[Update] \in {"idle", "handle", "finish"} \cup SendingSteps
    /\ at[Update] # Null <=> pc[Update] \in SendingSteps \ {"send"}
    /\ request[Update] # Null <=> pc[Update] # "idle"
    /\ response[Update] # Null <=> pc[Update] \in SendingSteps
    /\ parcel[Update] = IF pc[Update] = "enqueue" THEN response[Update] ELSE Null
    /\ pc[Update] \in SendingSteps => stamp[response[Update]] > 0
    /\ to # {} => pc[Update] \in SendingSteps
    /\ pc[Update] = "enqueue" => at[Update] \notin to

\* Each frame received is on its way to m_MsgQ, in it, or taken from it.
FrameCount ==
    received = served + Len(inbox) + Cardinality({w \in Workers : pc[w] = "onrecv"})

\* No session is sent more responses than there were requests.
Owed(s) == s \in to \/ pc[Update] = "handle" \/ (pc[Update] = "enqueue" /\ at[Update] = s)
QueueLength ==
    \A s \in Sessions : Len(queue[s]) <= served /\ (Owed(s) => Len(queue[s]) < served)

\* lIOCount of a session: the operations outstanding and the threads inside it, but for the one
\* that releases it.
Inside(s)  == {t \in Threads : at[t] = s /\ pc[t] # "drain"}
Reading(s) == IF recv[s] THEN 1 ELSE 0
Writing(s) == IF flight[s] = <<>> THEN 0 ELSE 1
IoAt(s) ==
    /\ io[s] = Reading(s) + Writing(s) + Cardinality(Inside(s))
    /\ released[s] <=> io[s] = 0
IoExact == \A s \in Sessions : IoAt(s)

\* While a worker handles what a receive brought no other is outstanding.
Receives(t, s) == at[t] = s /\ pc[t] \in {"onrecv", "forget", "repost"}
OneReceiver ==
    \A s \in Sessions : \A t \in Threads : Receives(t, s) =>
        ~recv[s] /\ \A u \in Threads : Receives(u, s) => u = t

\* bIsSend of a session is held by one thread or by the WSASend outstanding; on a broken
\* connection it may stay set.
Owns(t, s) == at[t] = s /\ pc[t] \in {"post", "dequeue", "subref"}
SenderAt(s) ==
    /\ \A t \in Threads : Owns(t, s) =>
          /\ isSend[s] /\ flight[s] = <<>>
          /\ \A u \in Threads : Owns(u, s) => u = t
          /\ pc[t] = "post" => queue[s] # <<>>
    /\ flight[s] # <<>> => isSend[s]
    /\ isSend[s] => ~up[s] \/ flight[s] # <<>> \/ \E t \in Threads : Owns(t, s)
OneSender == \A s \in Sessions : SenderAt(s)

\* Only a released session is emptied.
DrainReleased == \A t \in Threads : pc[t] = "drain" => released[at[t]]

\* The messages at the front of a send queue that are sent already.
Completing(s) == \E t \in Threads : at[t] = s /\ pc[t] \in {"dequeue", "subref"}
Sent(s)       == IF Completing(s) THEN count[s] ELSE 0

\* The rest of the queue are the responses not sent yet, and the WSASend reads the first.
UnsentAt(s) == ~released[s] =>
    /\ Len(queue[s]) = Sent(s) + Len(unsent[s])
    /\ \A i \in 1 .. Len(unsent[s]) : stamp[queue[s][Sent(s) + i]] = unsent[s][i]
    /\ flight[s] # <<>> => /\ count[s] \in 1 .. Len(queue[s])
                           /\ flight[s] = SubSeq(queue[s], 1, count[s])
QueueIsUnsent == \A s \in Sessions : UnsentAt(s)

\* A queue that waits for a sender has a thread about to try; one left by a release is emptied.
AttendedAt(s) == queue[s] # <<>> =>
    \/ ~released[s] /\ (isSend[s] \/ \E t \in Threads : at[t] = s /\ pc[t] = "claim")
    \/ released[s] /\ \E t \in Threads : at[t] = s /\ pc[t] = "drain"
QueueAttended == \A s \in Sessions : AttendedAt(s)

-----------------------------------------------------------------------------
(* Counting.                                                               *)

Is(x, m) == IF x = m THEN 1 ELSE 0

LEMMA Finite == /\ IsFiniteSet(Threads) /\ IsFiniteSet(Sessions)
                /\ Update \in Threads /\ Workers \subseteq Threads
                /\ Update \notin Workers
                /\ IsFiniteSet(1 .. MaxReceives) /\ IsFiniteSet(Sessions \X (1 .. MaxReceives))
  <1>1. IsFiniteSet(Workers) /\ IsFiniteSet({Update}) /\ IsFiniteSet(Sessions)
    BY FS_Singleton, ThreadsOK
  <1>2. IsFiniteSet(Threads)
    BY <1>1, FS_Union DEF Threads
  <1>3. IsFiniteSet(1 .. MaxReceives)
    BY FS_Interval, ThreadsOK
  <1> QED
    BY <1>1, <1>2, <1>3, FS_Product, ThreadsOK DEF Threads

LEMMA HeldType ==
    ASSUME NEW f, NEW m
    PROVE  /\ IsFiniteSet({t \in Threads : f[t] = m}) /\ Held(m, f) \in Nat
           /\ Held(m, f) = 0 <=> \A t \in Threads : f[t] # m
  <1> DEFINE S == {t \in Threads : f[t] = m}
  <1>1. IsFiniteSet(S)
    BY Finite, FS_Subset
  <1> QED
    BY <1>1, FS_CardinalityType, FS_EmptySet DEF Held

\* One element more, one less, or as many.
LEMMA CountChange ==
    ASSUME NEW S, IsFiniteSet(S), NEW R, NEW e,
           \/ R = S \cup {e} /\ e \notin S
           \/ R = S \ {e} /\ e \in S
           \/ R = S
    PROVE  /\ IsFiniteSet(R) /\ Cardinality(R) \in Nat /\ Cardinality(S) \in Nat
           /\ R = S \cup {e} /\ e \notin S => Cardinality(R) = Cardinality(S) + 1
           /\ R = S \ {e} /\ e \in S => Cardinality(R) = Cardinality(S) - 1
           /\ R = S => Cardinality(R) = Cardinality(S)
  <1>1. Cardinality(S) \in Nat
    BY FS_CardinalityType
  <1>2. CASE R = S \cup {e} /\ e \notin S
    <2>1. IsFiniteSet(R) /\ Cardinality(R) = Cardinality(S) + 1
      BY <1>2, FS_AddElement
    <2>2. R # S /\ ~(R = S \ {e} /\ e \in S)
      BY <1>2
    <2> QED
      BY <1>1, <2>1, <2>2
  <1>3. CASE R = S \ {e} /\ e \in S
    <2>1. IsFiniteSet(R) /\ Cardinality(R) = Cardinality(S) - 1
      BY <1>3, FS_RemoveElement
    <2>2. R # S /\ ~(R = S \cup {e} /\ e \notin S) /\ Cardinality(R) \in Nat
      BY <1>3, <2>1, FS_CardinalityType
    <2> QED
      BY <1>1, <2>1, <2>2
  <1>4. CASE R = S
    BY <1>1, <1>4
  <1> QED
    BY <1>2, <1>3, <1>4

\* One thread puts down f[w] and takes up g[w].
LEMMA HeldNext ==
    ASSUME NEW f \in [Threads -> Messages \cup {Null}], NEW g \in [Threads -> Messages \cup {Null}],
           NEW w \in Threads, \A t \in Threads \ {w} : g[t] = f[t], NEW m
    PROVE  Held(m, g) = Held(m, f) + Is(g[w], m) - Is(f[w], m)
  <1> DEFINE S == {t \in Threads : f[t] = m}
             R == {t \in Threads : g[t] = m}
  <1>0. IsFiniteSet(S)
    <2>1. S \in SUBSET Threads
      OBVIOUS
    <2> QED
      BY <2>1, Finite, FS_Subset
  <1>1. IsFiniteSet(S) /\ Held(m, f) = Cardinality(S) /\ Held(m, g) = Cardinality(R)
    BY <1>0 DEF Held
  <1>2. CASE g[w] = m /\ f[w] # m
    <2>1. R = S \cup {w} /\ w \notin S
      BY <1>2
    <2>2. Is(g[w], m) = 1 /\ Is(f[w], m) = 0
      BY <1>2 DEF Is
    <2> HIDE DEF S, R
    <2>3. Cardinality(R) = Cardinality(S) + 1 /\ Cardinality(S) \in Nat
      BY <1>1, <2>1, CountChange
    <2> QED
      BY <1>1, <2>2, <2>3
  <1>3. CASE g[w] # m /\ f[w] = m
    <2>1. R = S \ {w} /\ w \in S
      BY <1>3
    <2>2. Is(g[w], m) = 0 /\ Is(f[w], m) = 1
      BY <1>3 DEF Is
    <2> HIDE DEF S, R
    <2>3. Cardinality(R) = Cardinality(S) - 1 /\ Cardinality(S) \in Nat
      BY <1>1, <2>1, CountChange
    <2> QED
      BY <1>1, <2>2, <2>3
  <1>4. CASE (g[w] = m) <=> (f[w] = m)
    <2>1. R = S
      BY <1>4
    <2>2. Is(g[w], m) = Is(f[w], m) /\ Is(g[w], m) \in 0 .. 1
      BY <1>4 DEF Is
    <2> HIDE DEF S, R
    <2>3. Cardinality(R) = Cardinality(S) /\ Cardinality(S) \in Nat
      BY <1>1, <2>1, CountChange
    <2> QED
      BY <1>1, <2>2, <2>3
  <1> QED
    BY <1>2, <1>3, <1>4

LEMMA OccursType ==
    ASSUME NEW q \in Seq(Messages), NEW m
    PROVE  /\ IsFiniteSet({i \in DOMAIN q : q[i] = m}) /\ Occurs(m, q) \in Nat
           /\ Occurs(m, q) = 0 <=> \A i \in 1 .. Len(q) : q[i] # m
  <1> DEFINE S == {i \in DOMAIN q : q[i] = m}
  <1>1. DOMAIN q = 1 .. Len(q) /\ Len(q) \in Nat
    OBVIOUS
  <1>2. IsFiniteSet(DOMAIN q)
    BY <1>1, FS_Interval
  <1>3. IsFiniteSet(S)
    BY <1>2, FS_Subset
  <1> QED
    BY <1>1, <1>3, FS_CardinalityType, FS_EmptySet DEF Occurs

LEMMA OccursNone ==
    ASSUME NEW m
    PROVE  Occurs(m, <<>>) = 0
  <1>1. {i \in DOMAIN <<>> : <<>>[i] = m} = {}
    OBVIOUS
  <1> QED
    BY <1>1, FS_EmptySet DEF Occurs

LEMMA OccursAppend ==
    ASSUME NEW q \in Seq(Messages), NEW x \in Messages, NEW m
    PROVE  Occurs(m, Append(q, x)) = Occurs(m, q) + Is(x, m)
  <1> DEFINE r == Append(q, x)
             S == {i \in DOMAIN q : q[i] = m}
             R == {i \in DOMAIN r : r[i] = m}
             n == Len(q)
  <1>1. /\ DOMAIN q = 1 .. n /\ n \in Nat /\ DOMAIN r = 1 .. n + 1 /\ r[n + 1] = x
        /\ \A i \in 1 .. n : r[i] = q[i]
    OBVIOUS
  <1>2. IsFiniteSet(S) /\ Occurs(m, q) = Cardinality(S) /\ Occurs(m, r) = Cardinality(R)
    BY OccursType DEF Occurs
  <1>3. CASE x = m
    <2>1. R = S \cup {n + 1} /\ n + 1 \notin S
      BY <1>1, <1>3
    <2>2. Is(x, m) = 1
      BY <1>3 DEF Is
    <2> HIDE DEF S, R, r, n
    <2>3. Cardinality(R) = Cardinality(S) + 1 /\ Cardinality(S) \in Nat
      BY <1>2, <2>1, CountChange
    <2> QED
      BY <1>2, <2>2, <2>3 DEF r
  <1>4. CASE x # m
    <2>1. R = S
      BY <1>1, <1>4
    <2>2. Is(x, m) = 0
      BY <1>4 DEF Is
    <2> HIDE DEF S, R, r, n
    <2>3. Cardinality(R) = Cardinality(S) /\ Cardinality(S) \in Nat
      BY <1>2, <2>1, CountChange
    <2> QED
      BY <1>2, <2>2, <2>3 DEF r
  <1> QED
    BY <1>3, <1>4

LEMMA SameSize ==
    ASSUME NEW S, IsFiniteSet(S), NEW R, NEW f \in [S -> R],
           \A a, b \in S : f[a] = f[b] => a = b,
           \A c \in R : \E a \in S : f[a] = c
    PROVE  IsFiniteSet(R) /\ Cardinality(R) = Cardinality(S)
  <1>1. f \in Bijection(S, R)
    BY Fun_IsBij
  <1> QED
    BY <1>1, FS_Bijection DEF ExistsBijection

LEMMA OccursTail ==
    ASSUME NEW q \in Seq(Messages), q # <<>>, NEW m
    PROVE  Occurs(m, Tail(q)) = Occurs(m, q) - Is(Head(q), m)
  <1> DEFINE r == Tail(q)
             S == {i \in DOMAIN q : q[i] = m}
             R == {i \in DOMAIN r : r[i] = m}
             n == Len(q)
             f == [i \in S \ {1} |-> i - 1]
  <1>1. /\ DOMAIN q = 1 .. n /\ n \in Nat \ {0} /\ DOMAIN r = 1 .. n - 1
        /\ \A i \in 1 .. n - 1 : r[i] = q[i + 1]
        /\ Head(q) = q[1]
    OBVIOUS
  <1>2. IsFiniteSet(S) /\ Occurs(m, q) = Cardinality(S) /\ Occurs(m, r) = Cardinality(R)
    BY OccursType DEF Occurs
  <1>3. \A i \in S \ {1} : i \in 2 .. n /\ q[i] = m
    BY <1>1
  <1>4. \A i \in S \ {1} : i - 1 \in R
    BY <1>1, <1>3
  <1>5. \A i \in R : i + 1 \in S \ {1} /\ (i + 1) - 1 = i
    BY <1>1
  <1>6. 1 \in S <=> Head(q) = m
    BY <1>1
  <1> HIDE DEF S, R, r, n
  <1>7. f \in [S \ {1} -> R]
    BY <1>4
  <1>8. \A i, j \in S \ {1} : f[i] = f[j] => i = j
    BY <1>3
  <1>9. \A c \in R : \E i \in S \ {1} : f[i] = c
    BY <1>5
  <1>10. /\ IsFiniteSet(S \ {1}) /\ Cardinality(S) \in Nat
         /\ Cardinality(S \ {1}) = IF 1 \in S THEN Cardinality(S) - 1 ELSE Cardinality(S)
    BY <1>2, FS_RemoveElement, FS_CardinalityType
  <1> HIDE DEF f
  <1>11. Cardinality(R) = Cardinality(S \ {1})
    BY <1>7, <1>8, <1>9, <1>10, SameSize
  <1>12. CASE Head(q) = m
    BY <1>2, <1>6, <1>10, <1>11, <1>12 DEF Is, r
  <1>13. CASE Head(q) # m
    BY <1>2, <1>6, <1>10, <1>11, <1>13 DEF Is, r
  <1> QED
    BY <1>12, <1>13

\* The places of m in the queues q.
Places(m, q) == {place \in Sessions \X (1 .. MaxReceives) :
                    place[2] <= Len(q[place[1]]) /\ q[place[1]][place[2]] = m}

LEMMA PlaceFacts ==
    ASSUME NEW q \in [Sessions -> Seq(Messages)], NEW m
    PROVE  /\ IsFiniteSet(Places(m, q)) /\ Queued(m, q) = Cardinality(Places(m, q))
           /\ Queued(m, q) \in Nat
           /\ \A s, i : <<s, i>> \in Places(m, q) <=>
                 s \in Sessions /\ i \in 1 .. MaxReceives /\ i <= Len(q[s]) /\ q[s][i] = m
           /\ \A p \in Places(m, q) : p = <<p[1], p[2]>>
  <1>1. IsFiniteSet(Places(m, q))
    BY Finite, FS_Subset DEF Places
  <1>2. Queued(m, q) = Cardinality(Places(m, q))
    BY DEF Queued, Places
  <1>3. Queued(m, q) \in Nat
    BY <1>1, <1>2, FS_CardinalityType
  <1>4. \A s, i : <<s, i>> \in Places(m, q) <=>
           s \in Sessions /\ i \in 1 .. MaxReceives /\ i <= Len(q[s]) /\ q[s][i] = m
    BY DEF Places
  <1>5. \A p \in Places(m, q) : p = <<p[1], p[2]>>
    BY DEF Places
  <1> QED
    BY <1>1, <1>2, <1>3, <1>4, <1>5

\* No message in no queue is counted.
LEMMA QueuedZero ==
    ASSUME NEW q \in [Sessions -> Seq(Messages)], NEW m,
           \A s \in Sessions : Len(q[s]) <= MaxReceives
    PROVE  Queued(m, q) = 0 <=> \A s \in Sessions : \A i \in 1 .. Len(q[s]) : q[s][i] # m
  <1>1. IsFiniteSet(Places(m, q)) /\ Queued(m, q) = Cardinality(Places(m, q))
    BY PlaceFacts
  <1>2. Queued(m, q) = 0 <=> Places(m, q) = {}
    BY <1>1, FS_EmptySet
  <1>3. ASSUME NEW s \in Sessions, NEW i \in 1 .. Len(q[s]), q[s][i] = m
        PROVE  Places(m, q) # {}
    <2>1. Len(q[s]) \in Nat /\ i \in 1 .. MaxReceives /\ i <= Len(q[s])
      BY <1>3, ThreadsOK
    <2>2. <<s, i>> \in Places(m, q)
      BY <1>3, <2>1, PlaceFacts
    <2> QED
      BY <2>2
  <1>4. ASSUME NEW p \in Places(m, q)
        PROVE  \E s \in Sessions : \E i \in 1 .. Len(q[s]) : q[s][i] = m
    <2>1. /\ p[1] \in Sessions /\ p[2] \in 1 .. MaxReceives /\ p[2] <= Len(q[p[1]])
          /\ q[p[1]][p[2]] = m /\ Len(q[p[1]]) \in Nat
      BY DEF Places
    <2>2. p[2] \in 1 .. Len(q[p[1]])
      BY <2>1
    <2> QED
      BY <2>1, <2>2
  <1> QED
    BY <1>2, <1>3, <1>4

LEMMA QueuedAppend ==
    ASSUME NEW q \in [Sessions -> Seq(Messages)], NEW s \in Sessions, NEW x \in Messages, NEW m,
           Len(q[s]) < MaxReceives
    PROVE  Queued(m, [q EXCEPT ![s] = Append(@, x)]) = Queued(m, q) + Is(x, m)
  <1> DEFINE r == [q EXCEPT ![s] = Append(@, x)]
             n == Len(q[s])
             S == Places(m, q)
             R == Places(m, r)
  <1>0. n \in Nat /\ n + 1 \in 1 .. MaxReceives /\ MaxReceives \in Nat
    BY ThreadsOK
  <1>1. r \in [Sessions -> Seq(Messages)]
    OBVIOUS
  <1>2. /\ r[s] = Append(q[s], x) /\ Len(r[s]) = n + 1 /\ r[s][n + 1] = x
        /\ \A i \in 1 .. n : r[s][i] = q[s][i]
        /\ \A u \in Sessions : u # s => r[u] = q[u]
    OBVIOUS
  <1> HIDE DEF r
  <1>3. IsFiniteSet(S) /\ Queued(m, q) = Cardinality(S) /\ Queued(m, r) = Cardinality(R)
    BY <1>1, PlaceFacts
  <1>4. \A u, i : (i # n + 1 \/ u # s) => (<<u, i>> \in R <=> <<u, i>> \in S)
    <2> SUFFICES ASSUME NEW u, NEW i, i # n + 1 \/ u # s
                 PROVE  <<u, i>> \in R <=> <<u, i>> \in S
      OBVIOUS
    <2>1. <<u, i>> \in S <=>
             u \in Sessions /\ i \in 1 .. MaxReceives /\ i <= Len(q[u]) /\ q[u][i] = m
      BY PlaceFacts
    <2>2. <<u, i>> \in R <=>
             u \in Sessions /\ i \in 1 .. MaxReceives /\ i <= Len(r[u]) /\ r[u][i] = m
      BY <1>1, PlaceFacts
    <2>3. CASE u # s
      BY <1>2, <2>1, <2>2, <2>3
    <2>4. CASE u = s /\ i # n + 1
      BY <1>0, <1>2, <2>1, <2>2, <2>4
    <2> QED
      BY <2>3, <2>4
  <1>5. <<s, n + 1>> \notin S
    BY <1>0, PlaceFacts
  <1>6. <<s, n + 1>> \in R <=> x = m
    <2>1. <<s, n + 1>> \in R <=>
             s \in Sessions /\ n + 1 \in 1 .. MaxReceives /\ n + 1 <= Len(r[s]) /\ r[s][n + 1] = m
      BY SMTT(30), <1>1, PlaceFacts
    <2>2. n + 1 <= Len(r[s])
      BY <1>0, <1>2
    <2> QED
      BY <1>0, <1>2, <2>1, <2>2
  <1>7. \A p \in R \cup S : p = <<p[1], p[2]>>
    BY <1>1, PlaceFacts
  <1> HIDE DEF S, R, n
  <1>8. CASE x = m
    <2>1. R = S \cup {<<s, n + 1>>}
      BY <1>4, <1>6, <1>7, <1>8
    <2>2. Is(x, m) = 1
      BY <1>8 DEF Is
    <2>3. Cardinality(R) = Cardinality(S) + 1 /\ Cardinality(S) \in Nat
      BY <1>3, <1>5, <2>1, CountChange
    <2> QED
      BY <1>3, <2>2, <2>3 DEF r
  <1>9. CASE x # m
    <2>0. \A u, i : <<u, i>> \in R <=> <<u, i>> \in S
      BY <1>4, <1>5, <1>6, <1>9
    <2>1. ASSUME NEW p \in R PROVE p \in S
      <3>1. p = <<p[1], p[2]>>
        BY <1>7
      <3> QED
        BY <2>0, <3>1
    <2>2. ASSUME NEW p \in S PROVE p \in R
      <3>1. p = <<p[1], p[2]>>
        BY <1>7
      <3> QED
        BY <2>0, <3>1
    <2>3. R = S
      BY <2>1, <2>2
    <2>4. Is(x, m) = 0
      BY <1>9 DEF Is
    <2>5. Cardinality(R) = Cardinality(S) /\ Cardinality(S) \in Nat
      BY <1>3, <2>3, CountChange
    <2> QED
      BY <1>3, <2>4, <2>5 DEF r
  <1> QED
    BY <1>8, <1>9

LEMMA QueuedTail ==
    ASSUME NEW q \in [Sessions -> Seq(Messages)], NEW s \in Sessions, NEW m,
           q[s] # <<>>, Len(q[s]) <= MaxReceives
    PROVE  Queued(m, [q EXCEPT ![s] = Tail(@)]) = Queued(m, q) - Is(Head(q[s]), m)
  <1> DEFINE r == [q EXCEPT ![s] = Tail(@)]
             n == Len(q[s])
             S == Places(m, q)
             R == Places(m, r)
             e == <<s, 1>>
             f == [p \in R |-> IF p[1] = s THEN <<s, p[2] + 1>> ELSE p]
  <1>0. n \in Nat \ {0} /\ n <= MaxReceives /\ MaxReceives \in Nat
    BY ThreadsOK
  <1>1. r \in [Sessions -> Seq(Messages)]
    OBVIOUS
  <1>2. /\ r[s] = Tail(q[s]) /\ Len(r[s]) = n - 1
        /\ \A i \in 1 .. n - 1 : r[s][i] = q[s][i + 1]
        /\ \A u \in Sessions : u # s => r[u] = q[u]
        /\ Head(q[s]) = q[s][1]
    OBVIOUS
  <1> HIDE DEF r
  <1>3. /\ IsFiniteSet(S) /\ IsFiniteSet(R)
        /\ Queued(m, q) = Cardinality(S) /\ Queued(m, r) = Cardinality(R)
    BY <1>1, PlaceFacts
  <1>4. /\ \A u, i : <<u, i>> \in S <=>
             u \in Sessions /\ i \in 1 .. MaxReceives /\ i <= Len(q[u]) /\ q[u][i] = m
        /\ \A u, i : <<u, i>> \in R <=>
             u \in Sessions /\ i \in 1 .. MaxReceives /\ i <= Len(r[u]) /\ r[u][i] = m
    BY <1>1, PlaceFacts
  <1>5. \A p \in R \cup S : p = <<p[1], p[2]>>
    BY <1>1, PlaceFacts
  <1>6. \A i : <<s, i>> \in R => i \in 1 .. n - 1 /\ <<s, i + 1>> \in S
    BY <1>0, <1>2, <1>4
  <1>7. ASSUME NEW i, <<s, i>> \in S, i # 1
        PROVE  <<s, i - 1>> \in R /\ (i - 1) + 1 = i /\ i \in 2 .. n
    <2>1. i \in 1 .. MaxReceives /\ i <= n /\ q[s][i] = m
      BY <1>4, <1>7
    <2>2. i \in 2 .. n /\ i - 1 \in 1 .. n - 1 /\ i - 1 \in 1 .. MaxReceives /\ (i - 1) + 1 = i
      BY <1>0, <1>7, <2>1
    <2>3. r[s][i - 1] = m /\ i - 1 <= Len(r[s])
      BY <1>0, <1>2, <2>1, <2>2
    <2> QED
      BY <1>4, <2>2, <2>3
  <1>8. \A u, i : u # s => (<<u, i>> \in R <=> <<u, i>> \in S)
    BY <1>2, <1>4
  <1>9. e \in S <=> Head(q[s]) = m
    BY <1>0, <1>2, <1>4
  <1> HIDE DEF S, R, n
  <1>10. ASSUME NEW p \in R PROVE f[p] \in S \ {e}
    <2>1. CASE p[1] = s
      <3>1. p = <<s, p[2]>> /\ f[p] = <<s, p[2] + 1>>
        BY <1>5, <2>1
      <3>2. p[2] \in 1 .. n - 1 /\ <<s, p[2] + 1>> \in S /\ p[2] + 1 # 1
        BY <1>0, <1>6, <3>1
      <3> QED
        BY <3>1, <3>2
    <2>2. CASE p[1] # s
      BY <1>5, <1>8, <2>2
    <2> QED
      BY <2>1, <2>2
  <1>11. ASSUME NEW a \in R, NEW b \in R, f[a] = f[b] PROVE a = b
    <2>1. a = <<a[1], a[2]>> /\ b = <<b[1], b[2]>>
      BY <1>5
    <2>2. CASE a[1] = s /\ b[1] = s
      <3>1. a[2] + 1 = b[2] + 1 /\ a[2] \in Int /\ b[2] \in Int
        BY <1>0, <1>6, <1>11, <2>1, <2>2
      <3> QED
        BY <2>1, <2>2, <3>1
    <2>3. CASE a[1] # s /\ b[1] # s
      BY <1>11, <2>3
    <2>4. CASE (a[1] = s) # (b[1] = s)
      BY <1>11, <2>1, <2>4
    <2> QED
      BY <2>2, <2>3, <2>4
  <1>12. ASSUME NEW c \in S \ {e} PROVE \E a \in R : f[a] = c
    <2>1. c = <<c[1], c[2]>>
      BY <1>5
    <2>2. CASE c[1] = s
      <3>1. <<s, c[2] - 1>> \in R /\ (c[2] - 1) + 1 = c[2]
        BY <1>7, <2>1, <2>2
      <3>2. f[<<s, c[2] - 1>>] = <<s, (c[2] - 1) + 1>>
        BY <3>1
      <3> QED
        BY <2>1, <2>2, <3>1, <3>2
    <2>3. CASE c[1] # s
      BY <1>8, <2>1, <2>3
    <2> QED
      BY <2>2, <2>3
  <1>13. f \in [R -> S \ {e}]
    BY <1>10
  <1> HIDE DEF f
  <1>14. Cardinality(S \ {e}) = Cardinality(R)
    BY SMTT(30), <1>3, <1>11, <1>12, <1>13, SameSize
  <1>15. /\ Cardinality(S) \in Nat
         /\ Cardinality(S \ {e}) = IF e \in S THEN Cardinality(S) - 1 ELSE Cardinality(S)
    BY <1>3, FS_RemoveElement, FS_CardinalityType
  <1>16. CASE Head(q[s]) = m
    BY <1>3, <1>9, <1>14, <1>15, <1>16 DEF Is, r
  <1>17. CASE Head(q[s]) # m
    BY <1>3, <1>9, <1>14, <1>15, <1>17 DEF Is, r
  <1> QED
    BY <1>16, <1>17

-----------------------------------------------------------------------------
(* What the invariant says of a state.                                     *)

Inv ==
    /\ TypeOK /\ Roles /\ FrameCount /\ QueueLength /\ IoExact /\ OneReceiver
    /\ DrainReleased /\ OneSender /\ QueueIsUnsent /\ QueueAttended /\ RefExact

\* The counts r and the messages o out of the pool are exact for the holders in a queue of
\* requests b, in send queues q, and in the hands f, g and h of the threads.
Owners(m, b, q, f, g, h) ==
    Occurs(m, b) + Queued(m, q) + Held(m, f) + Held(m, g) + Held(m, h)

LEMMA OwnersLive ==
    ASSUME NEW b \in Seq(Messages), NEW q \in [Sessions -> Seq(Messages)],
           NEW f \in [Threads -> Messages \cup {Null}],
           NEW g \in [Threads -> Messages \cup {Null}],
           NEW h \in [Threads -> Messages \cup {Null}],
           \A s \in Sessions : Len(q[s]) <= MaxReceives
    PROVE  /\ \A m \in Messages :
                 /\ Occurs(m, b) \in Nat /\ Queued(m, q) \in Nat
                 /\ Held(m, f) \in Nat /\ Held(m, g) \in Nat /\ Held(m, h) \in Nat
                 /\ Owners(m, b, q, f, g, h) \in Nat
           /\ \A t \in Threads :
                 /\ f[t] # Null => f[t] \in Messages /\ Owners(f[t], b, q, f, g, h) > 0
                 /\ g[t] # Null => g[t] \in Messages /\ Owners(g[t], b, q, f, g, h) > 0
                 /\ h[t] # Null => h[t] \in Messages /\ Owners(h[t], b, q, f, g, h) > 0
           /\ \A i \in 1 .. Len(b) : Owners(b[i], b, q, f, g, h) > 0
           /\ \A s \in Sessions : \A i \in 1 .. Len(q[s]) :
                 q[s][i] \in Messages /\ Owners(q[s][i], b, q, f, g, h) > 0
  <1>1. ASSUME NEW m \in Messages
        PROVE  /\ Occurs(m, b) \in Nat /\ Queued(m, q) \in Nat
               /\ Held(m, f) \in Nat /\ Held(m, g) \in Nat /\ Held(m, h) \in Nat
               /\ Owners(m, b, q, f, g, h) \in Nat
               /\ Occurs(m, b) > 0 => Owners(m, b, q, f, g, h) > 0
               /\ Queued(m, q) > 0 => Owners(m, b, q, f, g, h) > 0
               /\ Held(m, f) > 0 => Owners(m, b, q, f, g, h) > 0
               /\ Held(m, g) > 0 => Owners(m, b, q, f, g, h) > 0
               /\ Held(m, h) > 0 => Owners(m, b, q, f, g, h) > 0
    <2>1. Occurs(m, b) \in Nat
      BY OccursType
    <2>2. Queued(m, q) \in Nat
      BY PlaceFacts
    <2>3. Held(m, f) \in Nat /\ Held(m, g) \in Nat /\ Held(m, h) \in Nat
      BY HeldType
    <2> QED
      BY <2>1, <2>2, <2>3 DEF Owners
  <1>2. ASSUME NEW m \in Messages, NEW t \in Threads, f[t] = m \/ g[t] = m \/ h[t] = m
        PROVE  Owners(m, b, q, f, g, h) > 0
    <2>1. f[t] = m => Held(m, f) # 0
      BY HeldType
    <2>2. g[t] = m => Held(m, g) # 0
      BY HeldType
    <2>3. h[t] = m => Held(m, h) # 0
      BY HeldType
    <2> QED
      BY <1>1, <1>2, <2>1, <2>2, <2>3
  <1>3. ASSUME NEW m \in Messages, NEW i \in 1 .. Len(b), b[i] = m
        PROVE  Owners(m, b, q, f, g, h) > 0
    <2>1. Occurs(m, b) # 0
      BY <1>3, OccursType
    <2> QED
      BY <1>1, <2>1
  <1>4. ASSUME NEW m \in Messages, NEW s \in Sessions, NEW i \in 1 .. Len(q[s]), q[s][i] = m
        PROVE  Owners(m, b, q, f, g, h) > 0
    <2>1. Queued(m, q) # 0
      BY <1>4, QueuedZero
    <2> QED
      BY <1>1, <2>1
  <1>5. ASSUME NEW t \in Threads
        PROVE  /\ f[t] # Null => f[t] \in Messages /\ Owners(f[t], b, q, f, g, h) > 0
               /\ g[t] # Null => g[t] \in Messages /\ Owners(g[t], b, q, f, g, h) > 0
               /\ h[t] # Null => h[t] \in Messages /\ Owners(h[t], b, q, f, g, h) > 0
    <2>1. /\ f[t] # Null => f[t] \in Messages
          /\ g[t] # Null => g[t] \in Messages
          /\ h[t] # Null => h[t] \in Messages
      OBVIOUS
    <2> QED
      BY <1>2, <2>1
  <1>6. ASSUME NEW i \in 1 .. Len(b)
        PROVE  Owners(b[i], b, q, f, g, h) > 0
    <2>1. b[i] \in Messages
      OBVIOUS
    <2> QED
      BY <1>3, <2>1
  <1>7. ASSUME NEW s \in Sessions, NEW i \in 1 .. Len(q[s])
        PROVE  q[s][i] \in Messages /\ Owners(q[s][i], b, q, f, g, h) > 0
    <2>1. q[s][i] \in Messages
      OBVIOUS
    <2> QED
      BY <1>4, <2>1
  <1> QED
    BY <1>1, <1>5, <1>6, <1>7

\* The same for the next value of the queues.
LEMMA QueuedLess ==
    ASSUME NEW q \in [Sessions -> Seq(Messages)], NEW r \in [Sessions -> Seq(Messages)],
           NEW s \in Sessions, Len(q[s]) <= MaxReceives, NEW m,
           \A u \in Sessions \ {s} : r[u] = q[u],
           q[s] # <<>>, r[s] = Tail(q[s])
    PROVE  Queued(m, r) = Queued(m, q) - Is(Head(q[s]), m)
  <1>1. r = [q EXCEPT ![s] = Tail(@)]
    OBVIOUS
  <1>2. Queued(m, [q EXCEPT ![s] = Tail(@)]) = Queued(m, q) - Is(Head(q[s]), m)
    BY QueuedTail
  <1> QED
    BY <1>1, <1>2

LEMMA HoldersAreOwners ==
    \A m \in Messages : Holders(m) = Owners(m, inbox, queue, request, response, parcel)
  BY DEF Holders, Owners

LEMMA Bounded ==
    ASSUME TypeOK, QueueLength
    PROVE  /\ request \in [Threads -> Messages \cup {Null}]
           /\ response \in [Threads -> Messages \cup {Null}]
           /\ parcel \in [Threads -> Messages \cup {Null}]
           /\ \A s \in Sessions : Len(queue[s]) \in Nat /\ Len(queue[s]) <= MaxReceives
  <1>1. /\ request \in [Threads -> Messages \cup {Null}]
        /\ response \in [Threads -> Messages \cup {Null}]
        /\ parcel \in [Threads -> Messages \cup {Null}]
    BY DEF TypeOK
  <1>2. served \in 0 .. MaxReceives /\ MaxReceives \in Nat
    BY ThreadsOK DEF TypeOK
  <1>3. ASSUME NEW s \in Sessions PROVE Len(queue[s]) \in Nat /\ Len(queue[s]) <= MaxReceives
    <2>1. Len(queue[s]) \in Nat /\ Len(queue[s]) <= served
      BY DEF TypeOK, QueueLength
    <2> QED
      BY <1>2, <2>1
  <1> QED
    BY <1>1, <1>3

\* Whatever somebody holds is out of the pool, and its count is not zero.
HeldIsOut ==
    /\ \A t \in Threads :
          /\ request[t] # Null => request[t] \in out /\ ref[request[t]] > 0
          /\ response[t] # Null => response[t] \in out /\ ref[response[t]] > 0
          /\ parcel[t] # Null => parcel[t] \in out /\ ref[parcel[t]] > 0
    /\ \A s \in Sessions : \A i \in 1 .. Len(queue[s]) :
          queue[s][i] \in out /\ ref[queue[s][i]] > 0

LEMMA HeldLive == TypeOK /\ QueueLength /\ RefExact => HeldIsOut
  <1> SUFFICES ASSUME TypeOK, QueueLength, RefExact PROVE HeldIsOut
    OBVIOUS
  <1>1. \A m \in Messages : /\ ref[m] = Owners(m, inbox, queue, request, response, parcel)
                            /\ m \in out <=> ref[m] > 0
    BY HoldersAreOwners DEF RefExact
  <1>2. inbox \in Seq(Messages) /\ queue \in [Sessions -> Seq(Messages)]
    BY DEF TypeOK
  <1>3. /\ \A t \in Threads :
              /\ request[t] # Null => request[t] \in Messages
                   /\ Owners(request[t], inbox, queue, request, response, parcel) > 0
              /\ response[t] # Null => response[t] \in Messages
                   /\ Owners(response[t], inbox, queue, request, response, parcel) > 0
              /\ parcel[t] # Null => parcel[t] \in Messages
                   /\ Owners(parcel[t], inbox, queue, request, response, parcel) > 0
        /\ \A s \in Sessions : \A i \in 1 .. Len(queue[s]) :
              queue[s][i] \in Messages
                   /\ Owners(queue[s][i], inbox, queue, request, response, parcel) > 0
    BY <1>2, Bounded, OwnersLive
  <1> QED
    BY <1>1, <1>3 DEF HeldIsOut

LEMMA HeldLiveNext == TypeOK' /\ QueueLength' /\ RefExact' => HeldIsOut'
  BY HeldLive, PTL

\* A session somebody is in is not released.
LEMMA InsideLive ==
    ASSUME TypeOK, IoExact, NEW s \in Sessions
    PROVE  /\ IsFiniteSet(Inside(s)) /\ Cardinality(Inside(s)) \in Nat
           /\ Inside(s) # {} => io[s] > 0 /\ ~released[s] /\ Cardinality(Inside(s)) > 0
           /\ recv[s] => ~released[s]
           /\ flight[s] # <<>> => ~released[s]
           /\ \A t \in Inside(s) : Inside(s) = {t} <=> Cardinality(Inside(s)) = 1
  <1>1. IsFiniteSet(Inside(s))
    BY Finite, FS_Subset DEF Inside
  <1>2. Cardinality(Inside(s)) \in Nat /\ (Cardinality(Inside(s)) = 0 <=> Inside(s) = {})
    BY <1>1, FS_CardinalityType, FS_EmptySet
  <1>3. /\ io[s] = Reading(s) + Writing(s) + Cardinality(Inside(s))
        /\ released[s] <=> io[s] = 0
    BY DEF IoExact, IoAt
  <1>4. Reading(s) \in 0 .. 1 /\ Writing(s) \in 0 .. 1
    BY DEF Reading, Writing
  <1>5. (recv[s] => Reading(s) = 1) /\ (flight[s] # <<>> => Writing(s) = 1)
    BY DEF Reading, Writing
  <1>6. ASSUME NEW t \in Inside(s) PROVE Inside(s) = {t} <=> Cardinality(Inside(s)) = 1
    <2>1. /\ IsFiniteSet(Inside(s) \ {t})
          /\ Cardinality(Inside(s) \ {t}) = Cardinality(Inside(s)) - 1
      BY <1>1, FS_RemoveElement
    <2>2. Cardinality(Inside(s) \ {t}) = 0 <=> Inside(s) \ {t} = {}
      BY <2>1, FS_EmptySet
    <2> QED
      BY <1>2, <2>1, <2>2
  <1> QED
    BY <1>1, <1>2, <1>3, <1>4, <1>5, <1>6

-----------------------------------------------------------------------------
(* What the operations of a CMessage do to the counts.                     *)

PoolTyped == out \subseteq Messages /\ ref \in [Messages -> Nat] /\ stamp \in [Messages -> 0 .. MaxReceives]

LEMMA PoolSteps ==
    ASSUME PoolTyped, NEW x \in Messages
    PROVE  /\ AddRef(x) => PoolTyped'
           /\ ref[x] > 0 /\ SubRef(x) => PoolTyped'
  <1>1. AddRef(x) => PoolTyped'
    BY DEF AddRef, PoolTyped
  <1>2. ref[x] > 0 /\ SubRef(x) => PoolTyped'
    BY ThreadsOK DEF SubRef, MessagePool!Free, PoolTyped
  <1> QED
    BY <1>1, <1>2

LEMMA AllocSteps ==
    ASSUME PoolTyped, NEW x \in Messages, NEW n \in 0 .. MaxReceives,
           MessagePool!Alloc(x), ref' = [ref EXCEPT ![x] = 1], stamp' = [stamp EXCEPT ![x] = n]
    PROVE  PoolTyped'
  BY DEF MessagePool!Alloc, PoolTyped

\* The counts stay exact when a count changes with the number of those who hold the message.
LEMMA RefSame ==
    ASSUME PoolTyped, RefExact, UNCHANGED <<out, ref>>,
           \A m \in Messages : Holders(m)' = Holders(m)
    PROVE  RefExact'
  BY DEF RefExact

LEMMA RefGain ==
    ASSUME PoolTyped, RefExact, NEW x \in Messages, x \in out, AddRef(x),
           \A m \in Messages : Holders(m)' = Holders(m) + Is(x, m)
    PROVE  RefExact'
  <1> SUFFICES ASSUME NEW m \in Messages
               PROVE  ref'[m] = Holders(m)' /\ (m \in out' <=> ref'[m] > 0)
    BY DEF RefExact
  <1>1. ref[m] = Holders(m) /\ (m \in out <=> ref[m] > 0) /\ ref[m] \in Nat
    BY DEF RefExact, PoolTyped
  <1>2. out' = out /\ ref'[m] = IF x = m THEN ref[m] + 1 ELSE ref[m]
    BY DEF AddRef, PoolTyped
  <1> QED
    BY <1>1, <1>2 DEF Is

LEMMA RefNew ==
    ASSUME PoolTyped, RefExact, NEW x \in Messages,
           MessagePool!Alloc(x), ref' = [ref EXCEPT ![x] = 1],
           \A m \in Messages : Holders(m)' = Holders(m) + Is(x, m)
    PROVE  RefExact'
  <1> SUFFICES ASSUME NEW m \in Messages
               PROVE  ref'[m] = Holders(m)' /\ (m \in out' <=> ref'[m] > 0)
    BY DEF RefExact
  <1>1. ref[m] = Holders(m) /\ (m \in out <=> ref[m] > 0) /\ ref[m] \in Nat
    BY DEF RefExact, PoolTyped
  <1>2. /\ out' = out \cup {x} /\ x \notin out
        /\ ref'[m] = IF x = m THEN 1 ELSE ref[m]
    BY DEF MessagePool!Alloc, PoolTyped
  <1> QED
    BY <1>1, <1>2 DEF Is

LEMMA RefLose ==
    ASSUME PoolTyped, RefExact, NEW x \in Messages, SubRef(x),
           \A m \in Messages : Holders(m)' = Holders(m) - Is(x, m)
    PROVE  RefExact'
  <1> SUFFICES ASSUME NEW m \in Messages
               PROVE  ref'[m] = Holders(m)' /\ (m \in out' <=> ref'[m] > 0)
    BY DEF RefExact
  <1>1. ref[m] = Holders(m) /\ (m \in out <=> ref[m] > 0) /\ ref[m] \in Nat
    BY DEF RefExact, PoolTyped
  <1>2. /\ ref'[m] = IF x = m THEN ref[m] - 1 ELSE ref[m]
        /\ out' = IF ref[x] = 1 THEN out \ {x} ELSE out
    BY DEF SubRef, MessagePool!Free, PoolTyped
  <1>3. CASE x = m
    BY <1>1, <1>2, <1>3 DEF Is
  <1>4. CASE x # m
    BY <1>1, <1>2, <1>4 DEF Is
  <1> QED
    BY <1>3, <1>4

\* A message that stays in use keeps what was encoded into it.
LEMMA StampKept ==
    ASSUME PoolTyped, NEW m \in Messages, m \in out, m \in out', NEW x \in Messages, NEW n,
           \/ UNCHANGED stamp
           \/ AddRef(x)
           \/ SubRef(x)
           \/ MessagePool!Alloc(x) /\ stamp' = [stamp EXCEPT ![x] = n]
    PROVE  stamp'[m] = stamp[m]
  BY DEF PoolTyped, AddRef, SubRef, MessagePool!Alloc, MessagePool!Free

-----------------------------------------------------------------------------
(* Types, and the counts of the messages.                                  *)

Indoors == {"onrecv", "forget", "repost", "enqueue", "claim", "post", "dequeue", "subref",
            "leave", "drain"}

LEMMA RoleFacts ==
    ASSUME TypeOK, Roles
    PROVE  /\ PoolTyped
           /\ request \in [Threads -> Messages \cup {Null}]
           /\ response \in [Threads -> Messages \cup {Null}]
           /\ parcel \in [Threads -> Messages \cup {Null}]
           /\ at \in [Threads -> Sessions \cup {Null}]
           /\ \A t \in Threads : pc[t] \in Indoors => at[t] \in Sessions
           /\ \A w \in Workers : pc[w] \in {"onrecv", "forget"} => request[w] \in Messages
           /\ \A w \in Workers : pc[w] = "subref" => parcel[w] \in Messages
           /\ pc[Update] # "idle" => request[Update] \in Messages
           /\ pc[Update] \in SendingSteps => /\ response[Update] \in Messages
                                             /\ stamp[response[Update]] \in 1 .. MaxReceives
           /\ pc[Update] = "enqueue" => parcel[Update] = response[Update]
  <1>1. /\ PoolTyped
        /\ request \in [Threads -> Messages \cup {Null}]
        /\ response \in [Threads -> Messages \cup {Null}]
        /\ parcel \in [Threads -> Messages \cup {Null}]
        /\ at \in [Threads -> Sessions \cup {Null}]
    BY DEF TypeOK, PoolTyped
  <1>2. ASSUME NEW t \in Threads, pc[t] \in Indoors PROVE at[t] \in Sessions
    <2>1. at[t] # Null
      BY <1>2 DEF Roles, Threads, Indoors, SendingSteps
    <2> QED
      BY <1>1, <2>1
  <1>3. /\ \A w \in Workers : pc[w] \in {"onrecv", "forget"} => request[w] \in Messages
        /\ \A w \in Workers : pc[w] = "subref" => parcel[w] \in Messages
        /\ pc[Update] # "idle" => request[Update] \in Messages
    BY <1>1, Finite DEF Roles
  <1>4. pc[Update] \in SendingSteps => /\ response[Update] \in Messages
                                       /\ stamp[response[Update]] \in 1 .. MaxReceives
    <2>1. pc[Update] \in SendingSteps => response[Update] \in Messages
      BY <1>1, Finite DEF Roles
    <2>2. pc[Update] \in SendingSteps => stamp[response[Update]] > 0
      BY DEF Roles
    <2> QED
      BY <1>1, <2>1, <2>2, ThreadsOK DEF PoolTyped
  <1>5. pc[Update] = "enqueue" => parcel[Update] = response[Update]
    BY DEF Roles
  <1> QED
    BY <1>1, <1>2, <1>3, <1>4, <1>5

\* While a worker takes a batch from a queue, what dwPacketCount still counts is in the queue.
LEMMA BatchFacts ==
    ASSUME TypeOK, Roles, IoExact, QueueIsUnsent, NEW w \in Workers, pc[w] \in {"dequeue", "subref"}
    PROVE  LET s == at[w]
           IN  /\ s \in Sessions /\ ~released[s] /\ Sent(s) = count[s]
               /\ Len(queue[s]) = count[s] + Len(unsent[s])
               /\ count[s] > 0 => queue[s] # <<>>
  <1> DEFINE s == at[w]
  <1>1. s \in Sessions /\ w \in Threads
    BY RoleFacts, Finite DEF Indoors
  <1>2. w \in Inside(s)
    BY <1>1 DEF Inside
  <1>3. ~released[s]
    BY <1>1, <1>2, InsideLive
  <1>4. Sent(s) = count[s]
    BY <1>1 DEF Sent, Completing
  <1>5. Len(queue[s]) = count[s] + Len(unsent[s])
    BY <1>1, <1>3, <1>4 DEF QueueIsUnsent, UnsentAt
  <1>6. count[s] > 0 => queue[s] # <<>>
    <2>1. count[s] \in Nat /\ Len(unsent[s]) \in Nat
      BY <1>1, ThreadsOK DEF TypeOK
    <2> QED
      BY <1>5, <2>1
  <1> QED
    BY <1>1, <1>3, <1>4, <1>5, <1>6

\* The outstanding WSASend reads the first messages of the queue, none of which is sent.
LEMMA FlightFacts ==
    ASSUME TypeOK, IoExact, OneSender, QueueIsUnsent, NEW s \in Sessions, flight[s] # <<>>
    PROVE  /\ ~released[s] /\ ~Completing(s) /\ Sent(s) = 0
           /\ Len(queue[s]) = Len(unsent[s])
           /\ Len(flight[s]) = count[s] /\ count[s] \in 1 .. Len(unsent[s])
           /\ \A i \in 1 .. count[s] : flight[s][i] = queue[s][i] /\ i \in 1 .. Len(queue[s])
  <1>1. ~released[s]
    BY InsideLive
  <1>2. ~Completing(s)
    BY DEF OneSender, SenderAt, Completing, Owns
  <1>3. Sent(s) = 0
    BY <1>2 DEF Sent
  <1>4. Len(queue[s]) \in Nat /\ Len(unsent[s]) \in Nat /\ queue[s] \in Seq(Messages)
    BY DEF TypeOK
  <1>5. Len(queue[s]) = Len(unsent[s])
    BY <1>1, <1>3, <1>4 DEF QueueIsUnsent, UnsentAt
  <1>6. count[s] \in 1 .. Len(queue[s]) /\ flight[s] = SubSeq(queue[s], 1, count[s])
    BY <1>1 DEF QueueIsUnsent, UnsentAt
  <1>7. /\ Len(flight[s]) = count[s]
        /\ \A i \in 1 .. count[s] : flight[s][i] = queue[s][i]
    BY <1>4, <1>6
  <1> QED
    BY <1>1, <1>2, <1>3, <1>4, <1>5, <1>6, <1>7

LEMMA StepType ==
    ASSUME Inv, [Next]_vars
    PROVE  TypeOK'
  <1> USE DEF pool, sending, session, locals, vars
  <1>a. TypeOK /\ Roles /\ PoolTyped /\ Update \in Threads /\ Workers \subseteq Threads
    BY RoleFacts, Finite DEF Inv
  <1>b. /\ \A t \in Threads : pc[t] \in Indoors => at[t] \in Sessions
        /\ Batch \in Nat \ {0} /\ MaxReceives \in Nat
    BY <1>a, RoleFacts, ThreadsOK
  <1>1. CASE UNCHANGED vars
    BY <1>1, <1>a DEF TypeOK
  <1>2. ASSUME NEW t \in Threads, Claim(t)
        PROVE  TypeOK'
    <2>1. at[t] \in Sessions
      BY <1>2, <1>b DEF Claim, Goto, Indoors
    <2> QED
      BY <1>2, <1>a, <2>1 DEF TypeOK, Claim, Goto, SendIdle
  <1>3. ASSUME NEW t \in Threads, Post(t)
        PROVE  TypeOK'
    <2>1. at[t] \in Sessions
      BY <1>3, <1>b DEF Post, Goto, Indoors
    <2> DEFINE s == at[t]
               n == IF Len(queue[s]) < Batch THEN Len(queue[s]) ELSE Batch
    <2>2. s \in Sessions /\ queue[s] \in Seq(Messages) /\ n \in 0 .. Batch /\ n <= Len(queue[s])
      BY <1>a, <1>b, <2>1 DEF TypeOK
    <2>3. SubSeq(queue[s], 1, n) \in Seq(Messages)
      BY <2>2
    <2>4. /\ pc' = [pc EXCEPT ![t] = "leave"]
          /\ count' = [count EXCEPT ![s] = n]
          /\ \/ flight' = [flight EXCEPT ![s] = SubSeq(queue[s], 1, n)] /\ io' = [io EXCEPT ![s] = @ + 1]
             \/ UNCHANGED <<flight, io>>
          /\ UNCHANGED <<pool, queue, isSend, recv, released, up, inbox, received, served,
                         locals, unsent>>
      BY <1>3 DEF Post, Goto
    <2> HIDE DEF s, n
    <2>5. flight' \in [Sessions -> Seq(Messages)] /\ io' \in [Sessions -> Nat]
      <3>1. flight \in [Sessions -> Seq(Messages)] /\ io \in [Sessions -> Nat]
        BY <1>a DEF TypeOK
      <3>2. CASE UNCHANGED <<flight, io>>
        BY <3>1, <3>2
      <3>3. CASE /\ flight' = [flight EXCEPT ![s] = SubSeq(queue[s], 1, n)]
                 /\ io' = [io EXCEPT ![s] = @ + 1]
        <4>1. flight' \in [Sessions -> Seq(Messages)]
          BY <2>3, <3>1, <3>3
        <4>2. io' \in [Sessions -> Nat]
          BY <2>2, <3>1, <3>3
        <4> QED
          BY <4>1, <4>2
      <3> QED
        BY <2>4, <3>2, <3>3
    <2> QED
      BY <1>a, <2>2, <2>4, <2>5 DEF TypeOK
  <1>4. ASSUME NEW t \in Threads, Leave(t)
        PROVE  TypeOK'
    <2>1. at[t] \in Sessions /\ t \in Inside(at[t])
      BY <1>4, <1>b DEF Leave, Goto, Indoors, Inside
    <2>2. io[at[t]] > 0
      BY <1>a, <2>1, InsideLive DEF Inv
    <2> QED
      BY <1>4, <1>a, <2>1, <2>2 DEF TypeOK, Leave, Goto, Resume
  <1>5. ASSUME NEW t \in Threads, Drain(t)
        PROVE  TypeOK'
    <2>1. at[t] \in Sessions
      BY <1>5, <1>b DEF Drain, Indoors
    <2>2. queue[at[t]] \in Seq(Messages) /\ queue[at[t]] # <<>>
      BY <1>5, <1>a, <2>1 DEF Drain, TypeOK
    <2>3. Head(queue[at[t]]) \in Messages /\ Head(queue[at[t]]) = queue[at[t]][1]
          /\ 1 \in 1 .. Len(queue[at[t]]) /\ Tail(queue[at[t]]) \in Seq(Messages)
      BY <2>2
    <2>4. ref[Head(queue[at[t]])] > 0
      BY <2>1, <2>3, HeldLive DEF Inv, HeldIsOut
    <2>5. PoolTyped'
      BY <1>5, <1>a, <2>3, <2>4, PoolSteps DEF Drain
    <2> QED
      BY <1>5, <1>a, <2>1, <2>3, <2>5 DEF TypeOK, Drain, PoolTyped
  <1>6. ASSUME NEW t \in Threads, Release(t)
        PROVE  TypeOK'
    <2>1. at[t] \in Sessions
      BY <1>6, <1>b DEF Release, Goto, Indoors
    <2>2. <<>> \in Seq(1 .. MaxReceives) /\ 0 \in 0 .. Batch
      BY <1>b
    <2> QED
      BY <1>6, <1>a, <2>1, <2>2 DEF TypeOK, Release, Goto, Resume
  <1>7. ASSUME NEW w \in Workers, OnRecv(w)
        PROVE  TypeOK'
    <2>1. request[w] \in Messages
      BY <1>7, <1>a, RoleFacts DEF OnRecv, Goto
    <2>2. PoolTyped'
      BY <1>7, <1>a, <2>1, PoolSteps DEF OnRecv
    <2>3. Append(inbox, request[w]) \in Seq(Messages)
      BY <1>a, <2>1 DEF TypeOK
    <2> QED
      BY <1>7, <1>a, <2>2, <2>3 DEF TypeOK, OnRecv, Goto, PoolTyped
  <1>8. ASSUME NEW w \in Workers, Forget(w)
        PROVE  TypeOK'
    <2>1. request[w] \in Messages /\ request[w] # Null
      BY <1>8, <1>a, RoleFacts, ThreadsOK DEF Forget, Goto
    <2>2. ref[request[w]] > 0
      BY <1>a, <2>1, HeldLive DEF Inv, HeldIsOut
    <2>3. PoolTyped'
      BY <1>8, <1>a, <2>1, <2>2, PoolSteps DEF Forget
    <2> QED
      BY <1>8, <1>a, <2>3 DEF TypeOK, Forget, Goto, PoolTyped
  <1>9. ASSUME NEW w \in Workers, PostRecv(w)
        PROVE  TypeOK'
    <2>1. at[w] \in Sessions
      BY <1>9, <1>a, <1>b DEF PostRecv, Goto, Indoors
    <2> QED
      BY <1>9, <1>a, <2>1 DEF TypeOK, PostRecv, Goto
  <1>10. ASSUME NEW w \in Workers, Dequeue(w)
        PROVE  TypeOK'
    <2>1. at[w] \in Sessions /\ queue[at[w]] # <<>>
      BY <1>10, <1>a, BatchFacts DEF Inv, Dequeue
    <2>2. Head(queue[at[w]]) \in Messages /\ Tail(queue[at[w]]) \in Seq(Messages)
      BY <1>a, <2>1 DEF TypeOK
    <2>3. count[at[w]] - 1 \in 0 .. Batch
      BY <1>10, <1>a, <1>b, <2>1 DEF TypeOK, Dequeue
    <2> QED
      BY SMTT(30), <1>10, <1>a, <2>1, <2>2, <2>3 DEF TypeOK, Dequeue
  <1>11. ASSUME NEW w \in Workers, ForgetSent(w)
        PROVE  TypeOK'
    <2>1. parcel[w] \in Messages /\ parcel[w] # Null
      BY <1>11, <1>a, RoleFacts, ThreadsOK DEF ForgetSent, Goto
    <2>2. ref[parcel[w]] > 0
      BY <1>a, <2>1, HeldLive DEF Inv, HeldIsOut
    <2>3. PoolTyped'
      BY <1>11, <1>a, <2>1, <2>2, PoolSteps DEF ForgetSent
    <2> QED
      BY <1>11, <1>a, <2>3 DEF TypeOK, ForgetSent, Goto, PoolTyped
  <1>12. ASSUME NEW w \in Workers, SendComplete(w)
        PROVE  TypeOK'
    <2>1. at[w] \in Sessions
      BY <1>12, <1>a, <1>b DEF SendComplete, Goto, Indoors
    <2> QED
      BY <1>12, <1>a, <2>1 DEF TypeOK, SendComplete, Goto, SendIdle
  <1>13. CASE TakeRequest
    <2>1. Head(inbox) \in Messages /\ Tail(inbox) \in Seq(Messages) /\ Len(inbox) \in Nat \ {0}
      BY <1>13, <1>a DEF TypeOK, TakeRequest
    <2>2. Cardinality({w \in Workers : pc[w] = "onrecv"}) \in Nat
      BY ThreadsOK, FS_Subset, FS_CardinalityType
    <2>3. served + 1 \in 0 .. received
      BY <1>a, <2>1, <2>2 DEF Inv, FrameCount, TypeOK
    <2> QED
      BY <1>13, <1>a, <2>1, <2>3 DEF TypeOK, TakeRequest, Goto
  <1>14. CASE NoResponse
    BY <1>14, <1>a DEF TypeOK, NoResponse, Goto
  <1>15. CASE Respond
    <2>1. PICK m \in Messages : /\ MessagePool!Alloc(m) /\ ref' = [ref EXCEPT ![m] = 1]
                                /\ stamp' = [stamp EXCEPT ![m] = served]
                                /\ response' = [response EXCEPT ![Update] = m]
      BY <1>15 DEF Respond
    <2>2. served \in 0 .. MaxReceives
      BY <1>a, <1>b DEF TypeOK
    <2>3. PoolTyped'
      BY <1>a, <2>1, <2>2, AllocSteps
    <2> QED
      BY SMTT(30), <1>15, <1>a, <2>1, <2>3 DEF TypeOK, Respond, Goto, PoolTyped
  <1>16. CASE Enqueue
    <2>1. /\ at[Update] \in Sessions /\ parcel[Update] \in Messages
          /\ stamp[parcel[Update]] \in 1 .. MaxReceives
      BY <1>16, <1>a, <1>b, RoleFacts DEF Enqueue, Goto, Indoors, SendingSteps
    <2>2. /\ Append(queue[at[Update]], parcel[Update]) \in Seq(Messages)
          /\ Append(unsent[at[Update]], stamp[parcel[Update]]) \in Seq(1 .. MaxReceives)
      BY <1>a, <2>1 DEF TypeOK
    <2> QED
      BY SMTT(30), <1>16, <1>a, <2>1, <2>2 DEF TypeOK, Enqueue, Goto
  <1>17. CASE ForgetResponse
    <2>1. response[Update] \in Messages /\ response[Update] # Null
      BY <1>17, <1>a, RoleFacts, ThreadsOK DEF ForgetResponse, Goto, SendingSteps
    <2>2. ref[response[Update]] > 0
      BY <1>a, <2>1, HeldLive DEF Inv, HeldIsOut
    <2>3. PoolTyped'
      BY <1>17, <1>a, <2>1, <2>2, PoolSteps DEF ForgetResponse
    <2> QED
      BY <1>17, <1>a, <2>3 DEF TypeOK, ForgetResponse, Goto, PoolTyped
  <1>18. CASE Finish
    <2>1. request[Update] \in Messages /\ request[Update] # Null
      BY <1>18, <1>a, RoleFacts, ThreadsOK DEF Finish, Goto
    <2>2. ref[request[Update]] > 0
      BY <1>a, <2>1, HeldLive DEF Inv, HeldIsOut
    <2>3. PoolTyped'
      BY <1>18, <1>a, <2>1, <2>2, PoolSteps DEF Finish
    <2> QED
      BY <1>18, <1>a, <2>3 DEF TypeOK, Finish, Goto, PoolTyped
  <1>19. ASSUME NEW s \in Sessions, Enter(s)
        PROVE  TypeOK'
    <2>1. response[Update] \in Messages
      BY <1>19, <1>a, RoleFacts DEF Enter, SendingSteps
    <2>2. CASE released[s]
      BY <1>19, <1>a, <2>2 DEF TypeOK, Enter
    <2>3. CASE ~released[s]
      <3>1. PoolTyped'
        BY <1>19, <1>a, <2>1, <2>3, PoolSteps DEF Enter
      <3>2. io' \in [Sessions -> Nat]
        <4>1. io \in [Sessions -> Nat]
          BY <1>a DEF TypeOK
        <4> QED
          BY <1>19, <2>3, <4>1 DEF Enter
      <3>3. parcel' \in [Threads -> Messages \cup {Null}]
        BY <1>19, <1>a, <2>1, <2>3, RoleFacts DEF Enter
      <3>4. /\ pc' = [pc EXCEPT ![Update] = "enqueue"] /\ at' = [at EXCEPT ![Update] = s]
            /\ to' \subseteq to
            /\ UNCHANGED <<sending, recv, released, up, inbox, received, served, request, response, unsent>>
        BY <1>19, <2>3 DEF Enter
      <3>5. /\ at' \in [Threads -> Sessions \cup {Null}] /\ to' \subseteq Sessions
            /\ pc' \in [Threads -> {"idle", "onrecv", "forget", "repost", "handle", "send",
                                     "enqueue", "finish", "claim", "post",
                                     "dequeue", "subref", "leave", "drain"}]
        BY <1>a, <3>4 DEF TypeOK
      <3>6. {request', response', parcel'} \subseteq [Threads -> Messages \cup {Null}]
        BY <1>a, <3>3, <3>4 DEF TypeOK
      <3> QED
        BY <1>a, <3>1, <3>2, <3>4, <3>5, <3>6 DEF TypeOK, PoolTyped, sending
    <2> QED
      BY <2>2, <2>3
  <1>20. ASSUME NEW w \in Workers, NEW s \in Sessions, TakeSend(w, s)
        PROVE  TypeOK'
    <2>0. /\ unsent[s] \in Seq(1 .. MaxReceives) /\ Len(unsent[s]) \in Nat
          /\ Len(flight[s]) = count[s] /\ count[s] \in 1 .. Len(unsent[s])
      <3>1. flight[s] # <<>>
        BY <1>20 DEF TakeSend
      <3>2. Len(flight[s]) = count[s] /\ count[s] \in 1 .. Len(unsent[s])
        BY <1>a, <3>1, FlightFacts DEF Inv
      <3> QED
        BY <1>a, <3>2 DEF TypeOK
    <2>1. SubSeq(unsent[s], Len(flight[s]) + 1, Len(unsent[s])) \in Seq(1 .. MaxReceives)
      <3>1. \A i \in Len(flight[s]) + 1 .. Len(unsent[s]) : i \in 1 .. Len(unsent[s])
        BY <2>0
      <3>2. \A i \in Len(flight[s]) + 1 .. Len(unsent[s]) : unsent[s][i] \in 1 .. MaxReceives
        <4>1. \A i \in 1 .. Len(unsent[s]) : unsent[s][i] \in 1 .. MaxReceives
          BY <2>0, ElementOfSeq
        <4> QED
          BY <3>1, <4>1
      <3>3. Len(flight[s]) + 1 \in Int /\ Len(unsent[s]) \in Int
        BY <2>0
      <3> QED
        BY <3>2, <3>3, SubSeqProperties
    <2>2. <<>> \in Seq(Messages)
      OBVIOUS
    <2> QED
      BY <1>20, <1>a, <2>1, <2>2 DEF TypeOK, TakeSend, Goto
  <1>21. ASSUME NEW w \in Workers, NEW s \in Sessions, TakeBroken(w, s)
        PROVE  TypeOK'
    <2>1. <<>> \in Seq(Messages)
      OBVIOUS
    <2> QED
      BY <1>21, <1>a, <2>1 DEF TypeOK, TakeBroken, Goto
  <1>22. ASSUME NEW s \in Sessions, Break(s)
        PROVE  TypeOK'
    BY <1>22, <1>a DEF TypeOK, Break
  <1>23. ASSUME NEW w \in Workers, NEW s \in Sessions, Receive(w, s)
        PROVE  TypeOK'
    <2>1. PICK m \in Messages : Alloc(m) /\ request' = [request EXCEPT ![w] = m]
      BY <1>23 DEF Receive
    <2>2. 0 \in 0 .. MaxReceives
      BY <1>b
    <2>3. PoolTyped'
      BY <1>a, <2>1, <2>2, AllocSteps DEF Alloc
    <2>4. received + 1 \in 0 .. MaxReceives /\ served \in 0 .. received + 1
      BY <1>23, <1>a, <1>b DEF TypeOK, Receive
    <2>5. request' \in [Threads -> Messages \cup {Null}]
      BY <1>a, <2>1 DEF TypeOK
    <2> QED
      BY <1>23, <1>a, <2>3, <2>4, <2>5 DEF TypeOK, Receive, Goto, PoolTyped
  <1> QED
    BY <1>1, <1>2, <1>3, <1>4, <1>5, <1>6, <1>7, <1>8, <1>9, <1>10, <1>11, <1>12,
       <1>13, <1>14, <1>15, <1>16, <1>17, <1>18, <1>19, <1>20, <1>21, <1>22, <1>23
       DEF Next, Run, PostSend, Leaving, Complete, Threads

LEMMA StepRef ==
    ASSUME Inv, [Next]_vars
    PROVE  RefExact'
  <1> USE DEF pool, sending, session, locals, vars
  <1>a. /\ TypeOK /\ Roles /\ PoolTyped /\ RefExact
        /\ Update \in Threads /\ Workers \subseteq Threads
    BY RoleFacts, Finite DEF Inv
  <1>b. inbox \in Seq(Messages)
    BY <1>a DEF TypeOK
  <1>q. request \in [Threads -> Messages \cup {Null}] /\ request' \in [Threads -> Messages \cup {Null}]
    BY <1>a, StepType, RoleFacts DEF TypeOK
  <1>r. response \in [Threads -> Messages \cup {Null}] /\ response' \in [Threads -> Messages \cup {Null}]
    BY <1>a, StepType, RoleFacts DEF TypeOK
  <1>p. parcel \in [Threads -> Messages \cup {Null}] /\ parcel' \in [Threads -> Messages \cup {Null}]
    BY <1>a, StepType, RoleFacts DEF TypeOK
  <1>g. \A t \in Threads : pc[t] \in Indoors => at[t] \in Sessions
    BY <1>a, RoleFacts
  <1>h. \A m \in Messages : Is(Null, m) = 0
    BY ThreadsOK DEF Is
  <1>c. \A s \in Sessions : Len(queue[s]) \in Nat /\ Len(queue[s]) <= MaxReceives
    BY Bounded DEF Inv
  <1>j. queue \in [Sessions -> Seq(Messages)] /\ queue' \in [Sessions -> Seq(Messages)]
    BY <1>a, StepType DEF TypeOK
  <1>d. \A m \in Messages :
           /\ Occurs(m, inbox) \in Nat /\ Queued(m, queue) \in Nat
           /\ Held(m, request) \in Nat /\ Held(m, response) \in Nat /\ Held(m, parcel) \in Nat
    <2> SUFFICES ASSUME NEW m \in Messages
                 PROVE  /\ Occurs(m, inbox) \in Nat /\ Queued(m, queue) \in Nat
                        /\ Held(m, request) \in Nat /\ Held(m, response) \in Nat
                        /\ Held(m, parcel) \in Nat
      OBVIOUS
    <2>1. Occurs(m, inbox) \in Nat
      BY <1>b, OccursType
    <2>2. Queued(m, queue) \in Nat
      BY <1>j, PlaceFacts
    <2>3. Held(m, request) \in Nat /\ Held(m, response) \in Nat /\ Held(m, parcel) \in Nat
      BY HeldType
    <2> QED
      BY <2>1, <2>2, <2>3
  <1>e. \A m \in Messages : \A x \in Messages \cup {Null} : Is(x, m) \in 0 .. 1
    BY DEF Is
  <1>f. ASSUME UNCHANGED <<out, ref, inbox, queue, request, response, parcel>>
        PROVE  RefExact'
    <2>1. \A m \in Messages : Holders(m)' = Holders(m)
      BY <1>f DEF Holders
    <2> QED
      BY <1>a, <1>f, <2>1, RefSame
  <1>1. CASE UNCHANGED vars
    BY <1>1, <1>f
  <1>2. ASSUME NEW t \in Threads, Claim(t)
        PROVE  RefExact'
    BY <1>2, <1>f DEF Claim, SendIdle
  <1>3. ASSUME NEW t \in Threads, Post(t)
        PROVE  RefExact'
    <2>1. /\ UNCHANGED <<out, ref, inbox, request, response, parcel>>
          /\ UNCHANGED queue
      BY <1>3 DEF Post
    <2> QED
      BY <1>f, <2>1
  <1>4. ASSUME NEW t \in Threads, Leave(t)
        PROVE  RefExact'
    BY <1>4, <1>f DEF Leave
  <1>5. ASSUME NEW t \in Threads, Drain(t)
        PROVE  RefExact'
    <2>1. at[t] \in Sessions /\ queue[at[t]] # <<>>
      BY <1>5, <1>g DEF Drain, Indoors
    <2>2. Head(queue[at[t]]) \in Messages
      BY <1>j, <2>1
    <2>3. ASSUME NEW m \in Messages
          PROVE  Holders(m)' = Holders(m) - Is(Head(queue[at[t]]), m)
      <3>1. queue' = [queue EXCEPT ![at[t]] = Tail(@)] /\ UNCHANGED <<inbox, request, response, parcel>>
        BY <1>5 DEF Drain
      <3>2. Queued(m, queue') = Queued(m, queue) - Is(Head(queue[at[t]]), m)
        <4>1. queue'[at[t]] = Tail(queue[at[t]]) /\ \A u \in Sessions \ {at[t]} : queue'[u] = queue[u]
          BY <1>j, <2>1, <3>1
        <4>2. Len(queue[at[t]]) <= MaxReceives
          BY <1>c, <2>1
        <4> QED
          BY <1>j, <2>1, <4>1, <4>2, QueuedLess
      <3> QED
        BY <1>d, <1>e, <1>h, <2>2, <3>1, <3>2 DEF Holders
    <2>4. SubRef(Head(queue[at[t]]))
      BY <1>5 DEF Drain
    <2> QED
      BY <1>a, <2>2, <2>3, <2>4, RefLose
  <1>6. ASSUME NEW t \in Threads, Release(t)
        PROVE  RefExact'
    BY <1>6, <1>f DEF Release
  <1>7. ASSUME NEW w \in Workers, OnRecv(w)
        PROVE  RefExact'
    <2>1. request[w] \in Messages /\ request[w] # Null /\ w \in Threads
      BY <1>7, <1>a, RoleFacts, ThreadsOK DEF OnRecv, Goto
    <2>2. request[w] \in out
      BY <1>a, <2>1, HeldLive DEF Inv, HeldIsOut
    <2>3. ASSUME NEW m \in Messages
          PROVE  Holders(m)' = Holders(m) + Is(request[w], m)
      <3>1. inbox' = Append(inbox, request[w]) /\ UNCHANGED <<queue, request, response, parcel>>
        BY <1>7 DEF OnRecv
      <3>2. Occurs(m, inbox') = Occurs(m, inbox) + Is(request[w], m)
        BY <1>b, <2>1, <3>1, OccursAppend
      <3>3. Is(request[w], m) \in 0 .. 1 /\ Is(Null, m) = 0
        BY <1>e, <1>h, <2>1
      <3> QED
        BY <1>d, <3>1, <3>2, <3>3 DEF Holders
    <2>4. AddRef(request[w])
      BY <1>7 DEF OnRecv
    <2> QED
      BY <1>a, <2>1, <2>2, <2>3, <2>4, RefGain
  <1>8. ASSUME NEW w \in Workers, Forget(w)
        PROVE  RefExact'
    <2>1. request[w] \in Messages /\ w \in Threads
      BY <1>8, <1>a, RoleFacts DEF Forget, Goto
    <2>2. ASSUME NEW m \in Messages
          PROVE  Holders(m)' = Holders(m) - Is(request[w], m)
      <3>1. /\ request' = [request EXCEPT ![w] = Null]
            /\ UNCHANGED <<queue, inbox, response, parcel>>
        BY <1>8 DEF Forget
      <3>2. Held(m, request') = Held(m, request) + Is(Null, m) - Is(request[w], m)
        <4>1. request'[w] = Null /\ w \in Threads /\ \A t \in Threads \ {w} : request'[t] = request[t]
          BY <1>q, <1>b, <2>1, <3>1
        <4>2. Held(m, request') = Held(m, request) + Is(request'[w], m) - Is(request[w], m)
          BY <1>q, <4>1, HeldNext
        <4> QED
          BY <4>1, <4>2
      <3>3. Is(request[w], m) \in 0 .. 1 /\ Is(Null, m) = 0
        BY <1>e, <1>h, <2>1
      <3> QED
        BY <1>d, <3>1, <3>2, <3>3 DEF Holders
    <2>3. SubRef(request[w])
      BY <1>8 DEF Forget
    <2> QED
      BY <1>a, <2>1, <2>2, <2>3, RefLose
  <1>9. ASSUME NEW w \in Workers, PostRecv(w)
        PROVE  RefExact'
    BY <1>9, <1>f DEF PostRecv
  <1>10. ASSUME NEW w \in Workers, Dequeue(w)
        PROVE  RefExact'
    <2> DEFINE s == at[w]
               x == Head(queue[s])
    <2>1. s \in Sessions /\ queue[s] # <<>> /\ w \in Threads
      BY <1>10, <1>a, BatchFacts DEF Inv, Dequeue
    <2>2. x \in Messages
      BY <1>j, <2>1
    <2>3. parcel[w] = Null
      BY <1>10, <1>a DEF Roles, Dequeue
    <2>4. ASSUME NEW m \in Messages
          PROVE  Holders(m)' = Holders(m)
      <3>1. /\ parcel' = [parcel EXCEPT ![w] = x] /\ queue' = [queue EXCEPT ![s] = Tail(@)]
            /\ UNCHANGED <<inbox, request, response>>
        BY <1>10 DEF Dequeue
      <3>2. Held(m, parcel') = Held(m, parcel) + Is(x, m) - Is(parcel[w], m)
        <4>1. parcel'[w] = x /\ w \in Threads /\ \A t \in Threads \ {w} : parcel'[t] = parcel[t]
          BY <1>p, <1>b, <2>1, <2>2, <3>1
        <4>2. Held(m, parcel') = Held(m, parcel) + Is(parcel'[w], m) - Is(parcel[w], m)
          BY <1>p, <4>1, HeldNext
        <4> QED
          BY <4>1, <4>2
      <3>3. Queued(m, queue') = Queued(m, queue) - Is(x, m)
        <4>1. queue'[s] = Tail(queue[s]) /\ \A u \in Sessions \ {s} : queue'[u] = queue[u]
          BY <1>j, <2>1, <3>1
        <4>2. Len(queue[s]) <= MaxReceives
          BY <1>c, <2>1
        <4> QED
          BY <1>j, <2>1, <4>1, <4>2, QueuedLess
      <3>4. Is(x, m) \in 0 .. 1 /\ Is(parcel[w], m) = 0
        BY <1>e, <1>h, <2>2, <2>3
      <3> HIDE DEF x, s
      <3> QED
        BY <1>d, <3>1, <3>2, <3>3, <3>4 DEF Holders
    <2>5. UNCHANGED <<out, ref>>
      BY <1>10 DEF Dequeue
    <2> QED
      BY <1>a, <2>4, <2>5, RefSame
  <1>11. ASSUME NEW w \in Workers, ForgetSent(w)
        PROVE  RefExact'
    <2>1. parcel[w] \in Messages /\ w \in Threads
      BY <1>11, <1>a, RoleFacts DEF ForgetSent, Goto
    <2>2. ASSUME NEW m \in Messages
          PROVE  Holders(m)' = Holders(m) - Is(parcel[w], m)
      <3>1. /\ parcel' = [parcel EXCEPT ![w] = Null]
            /\ UNCHANGED <<queue, inbox, response, request>>
        BY <1>11 DEF ForgetSent
      <3>2. Held(m, parcel') = Held(m, parcel) + Is(Null, m) - Is(parcel[w], m)
        <4>1. parcel'[w] = Null /\ w \in Threads /\ \A t \in Threads \ {w} : parcel'[t] = parcel[t]
          BY <1>p, <1>b, <2>1, <3>1
        <4>2. Held(m, parcel') = Held(m, parcel) + Is(parcel'[w], m) - Is(parcel[w], m)
          BY <1>p, <4>1, HeldNext
        <4> QED
          BY <4>1, <4>2
      <3>3. Is(parcel[w], m) \in 0 .. 1 /\ Is(Null, m) = 0
        BY <1>e, <1>h, <2>1
      <3> QED
        BY <1>d, <3>1, <3>2, <3>3 DEF Holders
    <2>3. SubRef(parcel[w])
      BY <1>11 DEF ForgetSent
    <2> QED
      BY <1>a, <2>1, <2>2, <2>3, RefLose
  <1>12. ASSUME NEW w \in Workers, SendComplete(w)
        PROVE  RefExact'
    BY <1>12, <1>f DEF SendComplete, SendIdle
  <1>13. CASE TakeRequest
    <2>1. inbox # <<>> /\ Head(inbox) \in Messages
      BY <1>13, <1>b DEF TakeRequest
    <2>2. request[Update] = Null
      BY <1>13, <1>a DEF Roles, TakeRequest, Goto
    <2>3. ASSUME NEW m \in Messages
          PROVE  Holders(m)' = Holders(m)
      <3>1. /\ request' = [request EXCEPT ![Update] = Head(inbox)] /\ inbox' = Tail(inbox)
            /\ UNCHANGED <<queue, response, parcel>>
        BY <1>13 DEF TakeRequest
      <3>2. Held(m, request') = Held(m, request) + Is(Head(inbox), m) - Is(request[Update], m)
        <4>1. request'[Update] = Head(inbox) /\ Update \in Threads /\ \A t \in Threads \ {Update} : request'[t] = request[t]
          BY <1>q, <1>a, <1>b, <2>1, <3>1
        <4>2. Held(m, request') = Held(m, request) + Is(request'[Update], m) - Is(request[Update], m)
          BY <1>q, <4>1, HeldNext
        <4> QED
          BY <4>1, <4>2
      <3>3. Occurs(m, inbox') = Occurs(m, inbox) - Is(Head(inbox), m)
        BY <1>b, <2>1, <3>1, OccursTail
      <3>4. Is(Head(inbox), m) \in 0 .. 1 /\ Is(request[Update], m) = 0
        BY <1>e, <1>h, <2>1, <2>2
      <3> QED
        BY <1>d, <3>1, <3>2, <3>3, <3>4 DEF Holders
    <2>4. UNCHANGED <<out, ref>>
      BY <1>13 DEF TakeRequest
    <2> QED
      BY <1>a, <2>3, <2>4, RefSame
  <1>14. CASE NoResponse
    BY <1>14, <1>f DEF NoResponse
  <1>15. CASE Respond
    <2>1. PICK x \in Messages : /\ MessagePool!Alloc(x) /\ ref' = [ref EXCEPT ![x] = 1]
                                /\ response' = [response EXCEPT ![Update] = x]
      BY <1>15 DEF Respond
    <2>2. response[Update] = Null
      BY <1>15, <1>a DEF Roles, Respond, Goto, SendingSteps
    <2>3. ASSUME NEW m \in Messages
          PROVE  Holders(m)' = Holders(m) + Is(x, m)
      <3>1. UNCHANGED <<queue, inbox, request, parcel>>
        BY <1>15 DEF Respond
      <3>2. Held(m, response') = Held(m, response) + Is(x, m) - Is(response[Update], m)
        <4>1. response'[Update] = x /\ Update \in Threads /\ \A t \in Threads \ {Update} : response'[t] = response[t]
          BY <1>r, <1>a, <1>b, <2>1
        <4>2. Held(m, response') = Held(m, response) + Is(response'[Update], m) - Is(response[Update], m)
          BY <1>r, <4>1, HeldNext
        <4> QED
          BY <4>1, <4>2
      <3>3. Is(x, m) \in 0 .. 1 /\ Is(response[Update], m) = 0
        BY <1>e, <1>h, <2>2
      <3> QED
        BY <1>d, <3>1, <3>2, <3>3 DEF Holders
    <2> QED
      BY <1>a, <2>1, <2>3, RefNew
  <1>16. CASE Enqueue
    <2> DEFINE s == at[Update]
               x == parcel[Update]
    <2>1. s \in Sessions /\ x \in Messages
      BY <1>16, <1>a, <1>g, RoleFacts DEF Enqueue, Goto, Indoors, SendingSteps
    <2>2. Len(queue[s]) < MaxReceives
      <3>1. Len(queue[s]) < served
        BY <1>16, <2>1 DEF Inv, QueueLength, Owed, Enqueue, Goto
      <3>2. served \in Nat /\ served <= MaxReceives /\ MaxReceives \in Nat
        BY <1>a, ThreadsOK DEF TypeOK
      <3> QED
        BY <1>c, <2>1, <3>1, <3>2
    <2>3. ASSUME NEW m \in Messages
          PROVE  Holders(m)' = Holders(m)
      <3>1. /\ parcel' = [parcel EXCEPT ![Update] = Null]
            /\ queue' = [queue EXCEPT ![s] = Append(@, x)]
            /\ UNCHANGED <<inbox, request, response>>
        BY <1>16 DEF Enqueue
      <3>2. Held(m, parcel') = Held(m, parcel) + Is(Null, m) - Is(x, m)
        <4>1. parcel'[Update] = Null /\ Update \in Threads /\ \A t \in Threads \ {Update} : parcel'[t] = parcel[t]
          BY <1>p, <1>a, <1>b, <3>1
        <4>2. Held(m, parcel') = Held(m, parcel) + Is(parcel'[Update], m) - Is(parcel[Update], m)
          BY <1>p, <4>1, HeldNext
        <4> QED
          BY <4>1, <4>2
      <3>3. Queued(m, queue') = Queued(m, queue) + Is(x, m)
        <4> HIDE DEF s, x
        <4>1. Queued(m, [queue EXCEPT ![s] = Append(@, x)]) = Queued(m, queue) + Is(x, m)
          BY <1>j, <2>1, <2>2, QueuedAppend
        <4> QED
          BY <3>1, <4>1
      <3>4. Is(x, m) \in 0 .. 1 /\ Is(Null, m) = 0
        BY <1>e, <1>h, <2>1
      <3> HIDE DEF x, s
      <3> QED
        BY <1>d, <3>1, <3>2, <3>3, <3>4 DEF Holders
    <2>4. UNCHANGED <<out, ref>>
      BY <1>16 DEF Enqueue
    <2> QED
      BY <1>a, <2>3, <2>4, RefSame
  <1>17. CASE ForgetResponse
    <2>1. response[Update] \in Messages
      BY <1>17, <1>a, RoleFacts DEF ForgetResponse, Goto, SendingSteps
    <2>2. ASSUME NEW m \in Messages
          PROVE  Holders(m)' = Holders(m) - Is(response[Update], m)
      <3>1. /\ response' = [response EXCEPT ![Update] = Null]
            /\ UNCHANGED <<queue, inbox, parcel, request>>
        BY <1>17 DEF ForgetResponse
      <3>2. Held(m, response') = Held(m, response) + Is(Null, m) - Is(response[Update], m)
        <4>1. response'[Update] = Null /\ Update \in Threads /\ \A t \in Threads \ {Update} : response'[t] = response[t]
          BY <1>r, <1>a, <1>b, <3>1
        <4>2. Held(m, response') = Held(m, response) + Is(response'[Update], m) - Is(response[Update], m)
          BY <1>r, <4>1, HeldNext
        <4> QED
          BY <4>1, <4>2
      <3>3. Is(response[Update], m) \in 0 .. 1 /\ Is(Null, m) = 0
        BY <1>e, <1>h, <2>1
      <3> QED
        BY <1>d, <3>1, <3>2, <3>3 DEF Holders
    <2>3. SubRef(response[Update])
      BY <1>17 DEF ForgetResponse
    <2> QED
      BY <1>a, <2>1, <2>2, <2>3, RefLose
  <1>18. CASE Finish
    <2>1. request[Update] \in Messages
      BY <1>18, <1>a, RoleFacts DEF Finish, Goto
    <2>2. ASSUME NEW m \in Messages
          PROVE  Holders(m)' = Holders(m) - Is(request[Update], m)
      <3>1. /\ request' = [request EXCEPT ![Update] = Null]
            /\ UNCHANGED <<queue, inbox, parcel, response>>
        BY <1>18 DEF Finish
      <3>2. Held(m, request') = Held(m, request) + Is(Null, m) - Is(request[Update], m)
        <4>1. request'[Update] = Null /\ Update \in Threads /\ \A t \in Threads \ {Update} : request'[t] = request[t]
          BY <1>q, <1>a, <1>b, <3>1
        <4>2. Held(m, request') = Held(m, request) + Is(request'[Update], m) - Is(request[Update], m)
          BY <1>q, <4>1, HeldNext
        <4> QED
          BY <4>1, <4>2
      <3>3. Is(request[Update], m) \in 0 .. 1 /\ Is(Null, m) = 0
        BY <1>e, <1>h, <2>1
      <3> QED
        BY <1>d, <3>1, <3>2, <3>3 DEF Holders
    <2>3. SubRef(request[Update])
      BY <1>18 DEF Finish
    <2> QED
      BY <1>a, <2>1, <2>2, <2>3, RefLose
  <1>19. ASSUME NEW s \in Sessions, Enter(s)
        PROVE  RefExact'
    <2>1. CASE released[s]
      BY <1>19, <1>f, <2>1 DEF Enter
    <2>2. CASE ~released[s]
      <3>1. response[Update] \in Messages /\ response[Update] # Null
        BY <1>19, <1>a, RoleFacts, ThreadsOK DEF Enter, SendingSteps
      <3>2. response[Update] \in out
        BY <1>a, <3>1, HeldLive DEF Inv, HeldIsOut
      <3>3. parcel[Update] = Null
        BY <1>19, <1>a DEF Roles, Enter
      <3>4. ASSUME NEW m \in Messages
            PROVE  Holders(m)' = Holders(m) + Is(response[Update], m)
        <4>1. /\ parcel' = [parcel EXCEPT ![Update] = response[Update]]
              /\ UNCHANGED <<queue, inbox, request, response>>
          BY <1>19, <2>2 DEF Enter
        <4>2. Held(m, parcel') = Held(m, parcel) + Is(response[Update], m) - Is(parcel[Update], m)
          <5>1. parcel'[Update] = response[Update] /\ Update \in Threads /\ \A t \in Threads \ {Update} : parcel'[t] = parcel[t]
            BY <1>p, <1>a, <1>b, <3>1, <4>1
          <5>2. Held(m, parcel') = Held(m, parcel) + Is(parcel'[Update], m) - Is(parcel[Update], m)
            BY <1>p, <5>1, HeldNext
          <5> QED
            BY <5>1, <5>2
        <4>3. Is(response[Update], m) \in 0 .. 1 /\ Is(parcel[Update], m) = 0
          BY <1>e, <1>h, <3>1, <3>3
        <4> QED
          BY <1>d, <4>1, <4>2, <4>3 DEF Holders
      <3>5. AddRef(response[Update])
        BY <1>19, <2>2 DEF Enter
      <3> QED
        BY <1>a, <3>1, <3>2, <3>4, <3>5, RefGain
    <2> QED
      BY <2>1, <2>2
  <1>20. ASSUME NEW w \in Workers, NEW s \in Sessions, TakeSend(w, s)
        PROVE  RefExact'
    BY <1>20, <1>f DEF TakeSend
  <1>21. ASSUME NEW w \in Workers, NEW s \in Sessions, TakeBroken(w, s)
        PROVE  RefExact'
    BY <1>21, <1>f DEF TakeBroken
  <1>22. ASSUME NEW s \in Sessions, Break(s)
        PROVE  RefExact'
    BY <1>22, <1>f DEF Break
  <1>23. ASSUME NEW w \in Workers, NEW s \in Sessions, Receive(w, s)
        PROVE  RefExact'
    <2>1. PICK x \in Messages : Alloc(x) /\ request' = [request EXCEPT ![w] = x]
      BY <1>23 DEF Receive
    <2>2. request[w] = Null /\ w \in Threads
      BY <1>23, <1>a DEF Roles, Receive, Goto
    <2>3. ASSUME NEW m \in Messages
          PROVE  Holders(m)' = Holders(m) + Is(x, m)
      <3>1. UNCHANGED <<queue, inbox, response, parcel>>
        BY <1>23 DEF Receive
      <3>2. Held(m, request') = Held(m, request) + Is(x, m) - Is(request[w], m)
        <4>1. request'[w] = x /\ w \in Threads /\ \A t \in Threads \ {w} : request'[t] = request[t]
          BY <1>q, <1>a, <1>b, <2>1, <2>2
        <4>2. Held(m, request') = Held(m, request) + Is(request'[w], m) - Is(request[w], m)
          BY <1>q, <4>1, HeldNext
        <4> QED
          BY <4>1, <4>2
      <3>3. Is(x, m) \in 0 .. 1 /\ Is(request[w], m) = 0
        BY <1>e, <1>h, <2>2
      <3> QED
        BY <1>d, <3>1, <3>2, <3>3 DEF Holders
    <2> QED
      BY <1>a, <2>1, <2>3, RefNew DEF Alloc
  <1> QED
    BY <1>1, <1>2, <1>3, <1>4, <1>5, <1>6, <1>7, <1>8, <1>9, <1>10, <1>11, <1>12,
       <1>13, <1>14, <1>15, <1>16, <1>17, <1>18, <1>19, <1>20, <1>21, <1>22, <1>23
       DEF Next, Run, PostSend, Leaving, Complete, Threads

LEMMA StepFrame ==
    ASSUME Inv, [Next]_vars
    PROVE  FrameCount'
  <1> USE DEF pool, sending, session, locals, vars
  <1> DEFINE A == {u \in Workers : pc[u] = "onrecv"}
             B == {u \in Workers : pc'[u] = "onrecv"}
  <1>a. /\ Roles /\ Workers \subseteq Threads /\ Update \in Threads /\ Update \notin Workers
        /\ DOMAIN pc = Threads /\ pc = [t \in Threads |-> pc[t]]
    BY Finite DEF Inv, TypeOK
  <1>b. inbox \in Seq(Messages) /\ received \in Nat /\ served \in Nat
    BY ThreadsOK DEF Inv, TypeOK
  <1>c. received = served + Len(inbox) + Cardinality(A)
    BY DEF Inv, FrameCount
  <1>d. IsFiniteSet(A) /\ Cardinality(A) \in Nat /\ IsFiniteSet(B) /\ Cardinality(B) \in Nat
    BY ThreadsOK, FS_Subset, FS_CardinalityType
  <1>e. FrameCount' <=> received' = served' + Len(inbox') + Cardinality(B)
    BY DEF FrameCount
  <1> HIDE DEF A, B
  <1>f. ASSUME B = A, UNCHANGED <<inbox, received, served>>
        PROVE  FrameCount'
    BY <1>c, <1>e, <1>f
  <1>1. CASE UNCHANGED vars
    <2>1. B = A
      BY <1>1, <1>a DEF A, B
    <2> QED
      BY <1>1, <1>f, <2>1
  <1>2. ASSUME NEW t \in Threads, Claim(t)
        PROVE  FrameCount'
    <2>1. B = A
      BY <1>2, <1>a DEF A, B, Claim, Goto, Resume
    <2>2. UNCHANGED <<inbox, received, served>>
      BY <1>2 DEF Claim, SendIdle
    <2> QED
      BY <1>f, <2>1, <2>2
  <1>3. ASSUME NEW t \in Threads, Post(t)
        PROVE  FrameCount'
    <2>1. B = A
      BY <1>3, <1>a DEF A, B, Post, Goto, Resume
    <2>2. UNCHANGED <<inbox, received, served>>
      BY <1>3 DEF Post, SendIdle
    <2> QED
      BY <1>f, <2>1, <2>2
  <1>4. ASSUME NEW t \in Threads, Leave(t)
        PROVE  FrameCount'
    <2>1. B = A
      BY <1>4, <1>a DEF A, B, Leave, Goto, Resume
    <2>2. UNCHANGED <<inbox, received, served>>
      BY <1>4 DEF Leave, SendIdle
    <2> QED
      BY <1>f, <2>1, <2>2
  <1>5. ASSUME NEW t \in Threads, Drain(t)
        PROVE  FrameCount'
    <2>1. B = A
      BY <1>5 DEF A, B, Drain
    <2>2. UNCHANGED <<inbox, received, served>>
      BY <1>5 DEF Drain
    <2> QED
      BY <1>f, <2>1, <2>2
  <1>6. ASSUME NEW t \in Threads, Release(t)
        PROVE  FrameCount'
    <2>1. B = A
      BY <1>6, <1>a DEF A, B, Release, Goto, Resume
    <2>2. UNCHANGED <<inbox, received, served>>
      BY <1>6 DEF Release, SendIdle
    <2> QED
      BY <1>f, <2>1, <2>2
  <1>7. ASSUME NEW w \in Workers, OnRecv(w)
        PROVE  FrameCount'
    <2>1. B = A \ {w} /\ w \in A
      BY <1>7, <1>a DEF A, B, OnRecv, Goto
    <2>2. Cardinality(B) = Cardinality(A) - 1
      BY <1>d, <2>1, CountChange
    <2>3. inbox' = Append(inbox, request[w]) /\ UNCHANGED <<received, served>>
      BY <1>7 DEF OnRecv
    <2>4. Len(inbox') = Len(inbox) + 1 /\ Len(inbox) \in Nat
      <3>1. request[w] \in Messages
        BY <1>7, RoleFacts DEF Inv, OnRecv, Goto
      <3> QED
        BY <1>b, <2>3, <3>1
    <2> QED
      BY <1>b, <1>c, <1>d, <1>e, <2>2, <2>3, <2>4
  <1>8. ASSUME NEW w \in Workers, Forget(w)
        PROVE  FrameCount'
    <2>1. B = A
      BY <1>8, <1>a DEF A, B, Forget, Goto
    <2>2. UNCHANGED <<inbox, received, served>>
      BY <1>8 DEF Forget, SendIdle
    <2> QED
      BY <1>f, <2>1, <2>2
  <1>9. ASSUME NEW w \in Workers, PostRecv(w)
        PROVE  FrameCount'
    <2>1. B = A
      BY <1>9, <1>a DEF A, B, PostRecv, Goto
    <2>2. UNCHANGED <<inbox, received, served>>
      BY <1>9 DEF PostRecv, SendIdle
    <2> QED
      BY <1>f, <2>1, <2>2
  <1>10. ASSUME NEW w \in Workers, Dequeue(w)
        PROVE  FrameCount'
    <2>1. B = A
      BY <1>10, <1>a DEF A, B, Dequeue
    <2>2. UNCHANGED <<inbox, received, served>>
      BY <1>10 DEF Dequeue
    <2> QED
      BY <1>f, <2>1, <2>2
  <1>11. ASSUME NEW w \in Workers, ForgetSent(w)
        PROVE  FrameCount'
    <2>1. B = A
      BY <1>11, <1>a DEF A, B, ForgetSent, Goto
    <2>2. UNCHANGED <<inbox, received, served>>
      BY <1>11 DEF ForgetSent, SendIdle
    <2> QED
      BY <1>f, <2>1, <2>2
  <1>12. ASSUME NEW w \in Workers, SendComplete(w)
        PROVE  FrameCount'
    <2>1. B = A
      BY <1>12, <1>a DEF A, B, SendComplete, Goto
    <2>2. UNCHANGED <<inbox, received, served>>
      BY <1>12 DEF SendComplete, SendIdle
    <2> QED
      BY <1>f, <2>1, <2>2
  <1>13. CASE TakeRequest
    <2>1. B = A
      BY <1>13, <1>a DEF A, B, TakeRequest, Goto
    <2>2. received' = received /\ served' = served + 1 /\ inbox # <<>> /\ inbox' = Tail(inbox)
      BY <1>13 DEF TakeRequest
    <2>3. Len(inbox') = Len(inbox) - 1 /\ Len(inbox) \in Nat
      BY <1>b, <2>2
    <2>4. Cardinality(B) = Cardinality(A) /\ received \in Nat /\ served \in Nat
      BY <1>b, <2>1
    <2>5. received' = received /\ served' = served + 1
      BY <2>2
    <2>6. received' = served' + Len(inbox') + Cardinality(B)
      BY <1>c, <1>d, <2>3, <2>4, <2>5
    <2> QED
      BY <1>e, <2>6
  <1>14. CASE NoResponse
    <2>1. B = A
      BY <1>14, <1>a DEF A, B, NoResponse, Goto
    <2>2. UNCHANGED <<inbox, received, served>>
      BY <1>14 DEF NoResponse
    <2> QED
      BY <1>f, <2>1, <2>2
  <1>15. CASE Respond
    <2>1. B = A
      BY <1>15, <1>a DEF A, B, Respond, Goto
    <2>2. UNCHANGED <<inbox, received, served>>
      BY <1>15 DEF Respond
    <2> QED
      BY <1>f, <2>1, <2>2
  <1>16. CASE Enqueue
    <2>1. B = A
      BY <1>16, <1>a DEF A, B, Enqueue, Goto
    <2>2. UNCHANGED <<inbox, received, served>>
      BY <1>16 DEF Enqueue
    <2> QED
      BY <1>f, <2>1, <2>2
  <1>17. CASE ForgetResponse
    <2>1. B = A
      BY <1>17, <1>a DEF A, B, ForgetResponse, Goto
    <2>2. UNCHANGED <<inbox, received, served>>
      BY <1>17 DEF ForgetResponse
    <2> QED
      BY <1>f, <2>1, <2>2
  <1>18. CASE Finish
    <2>1. B = A
      BY <1>18, <1>a DEF A, B, Finish, Goto
    <2>2. UNCHANGED <<inbox, received, served>>
      BY <1>18 DEF Finish
    <2> QED
      BY <1>f, <2>1, <2>2
  <1>19. ASSUME NEW s \in Sessions, Enter(s)
        PROVE  FrameCount'
    <2>1. B = A
      BY <1>19, <1>a DEF A, B, Enter
    <2>2. UNCHANGED <<inbox, received, served>>
      BY <1>19 DEF Enter
    <2> QED
      BY <1>f, <2>1, <2>2
  <1>20. ASSUME NEW w \in Workers, NEW s \in Sessions, TakeSend(w, s)
        PROVE  FrameCount'
    <2>1. B = A
      BY <1>20, <1>a DEF A, B, TakeSend, Goto
    <2>2. UNCHANGED <<inbox, received, served>>
      BY <1>20 DEF TakeSend
    <2> QED
      BY <1>f, <2>1, <2>2
  <1>21. ASSUME NEW w \in Workers, NEW s \in Sessions, TakeBroken(w, s)
        PROVE  FrameCount'
    <2>1. B = A
      BY <1>21, <1>a DEF A, B, TakeBroken, Goto
    <2>2. UNCHANGED <<inbox, received, served>>
      BY <1>21 DEF TakeBroken
    <2> QED
      BY <1>f, <2>1, <2>2
  <1>22. ASSUME NEW s \in Sessions, Break(s)
        PROVE  FrameCount'
    BY <1>22, <1>f DEF Break, A, B
  <1>23. ASSUME NEW w \in Workers, NEW s \in Sessions, Receive(w, s)
        PROVE  FrameCount'
    <2>1. B = A \cup {w} /\ w \notin A
      BY <1>23, <1>a DEF A, B, Receive, Goto
    <2>2. Cardinality(B) = Cardinality(A) + 1
      BY <1>d, <2>1, CountChange
    <2>3. received' = received + 1 /\ UNCHANGED <<inbox, served>>
      BY <1>23 DEF Receive
    <2> QED
      BY <1>b, <1>c, <1>d, <1>e, <2>2, <2>3
  <1> QED
    BY <1>1, <1>2, <1>3, <1>4, <1>5, <1>6, <1>7, <1>8, <1>9, <1>10, <1>11, <1>12,
       <1>13, <1>14, <1>15, <1>16, <1>17, <1>18, <1>19, <1>20, <1>21, <1>22, <1>23
       DEF Next, Run, PostSend, Leaving, Complete, Threads

LEMMA StepLength ==
    ASSUME Inv, [Next]_vars
    PROVE  QueueLength'
  <1> USE DEF pool, sending, session, locals, vars
  <1>a. /\ TypeOK /\ Roles /\ QueueLength /\ Update \in Threads /\ Update \notin Workers
        /\ Workers \subseteq Threads /\ served \in Nat
        /\ DOMAIN pc = Threads /\ DOMAIN at = Threads
    BY Finite, ThreadsOK DEF Inv, TypeOK
  <1>b. \A s \in Sessions : /\ Len(queue[s]) \in Nat /\ Len(queue[s]) <= served
                            /\ Owed(s) => Len(queue[s]) < served
    BY <1>a DEF TypeOK, QueueLength
  <1>c. queue \in [Sessions -> Seq(Messages)]
    BY <1>a DEF TypeOK
  <1>f. ASSUME UNCHANGED <<queue, served>>, \A s \in Sessions : Owed(s)' => Owed(s)
        PROVE  QueueLength'
    BY <1>b, <1>f DEF QueueLength
  <1>1. CASE UNCHANGED vars
    <2>1. \A s \in Sessions : Owed(s)' => Owed(s)
      BY <1>1 DEF Owed
    <2> QED
      BY <1>1, <1>f, <2>1
  <1>2. ASSUME NEW t \in Threads, Claim(t)
        PROVE  QueueLength'
    <2>1. \A s \in Sessions : Owed(s)' => Owed(s)
      BY <1>2, <1>a DEF Owed, Claim, Goto, SendIdle, Resume
    <2>2. UNCHANGED <<queue, served>>
      BY <1>2 DEF Claim, SendIdle
    <2> QED
      BY <1>f, <2>1, <2>2
  <1>3. ASSUME NEW t \in Threads, Post(t)
        PROVE  QueueLength'
    <2>1. \A s \in Sessions : Owed(s)' => Owed(s)
      BY <1>3, <1>a DEF Owed, Post, Goto, SendIdle, Resume
    <2>2. UNCHANGED <<queue, served>>
      BY <1>3 DEF Post, SendIdle
    <2> QED
      BY <1>f, <2>1, <2>2
  <1>4. ASSUME NEW t \in Threads, Leave(t)
        PROVE  QueueLength'
    <2>1. \A s \in Sessions : Owed(s)' => Owed(s)
      BY <1>4, <1>a DEF Owed, Leave, Goto, SendIdle, Resume
    <2>2. UNCHANGED <<queue, served>>
      BY <1>4 DEF Leave, SendIdle
    <2> QED
      BY <1>f, <2>1, <2>2
  <1>5. ASSUME NEW t \in Threads, Drain(t)
        PROVE  QueueLength'
    <2>0. at[t] \in Sessions
      BY <1>5, <1>a, RoleFacts DEF Drain, Indoors
    <2>1. ASSUME NEW s \in Sessions PROVE Len(queue'[s]) <= Len(queue[s]) /\ Len(queue'[s]) \in Nat
      <3>1. queue' = [queue EXCEPT ![at[t]] = Tail(@)] /\ queue[at[t]] # <<>>
        BY <1>5 DEF Drain
      <3>2. CASE s = at[t]
        <4>1. queue'[s] = Tail(queue[s]) /\ queue[s] # <<>> /\ queue[s] \in Seq(Messages)
          BY <1>c, <3>1, <3>2
        <4> QED
          BY <4>1
      <3>3. CASE s # at[t]
        BY <1>b, <1>c, <3>1, <3>3
      <3> QED
        BY <3>2, <3>3
    <2>2. UNCHANGED <<pc, at, to, served>>
      BY <1>5 DEF Drain
    <2>3. \A s \in Sessions : Owed(s)' <=> Owed(s)
      BY <2>2 DEF Owed
    <2>4. ASSUME NEW s \in Sessions
          PROVE  Len(queue'[s]) <= served' /\ (Owed(s)' => Len(queue'[s]) < served')
      BY <1>a, <1>b, <2>1, <2>2, <2>3
    <2> QED
      BY <2>4 DEF QueueLength
  <1>6. ASSUME NEW t \in Threads, Release(t)
        PROVE  QueueLength'
    <2>1. \A s \in Sessions : Owed(s)' => Owed(s)
      BY <1>6, <1>a DEF Owed, Release, Goto, SendIdle, Resume
    <2>2. UNCHANGED <<queue, served>>
      BY <1>6 DEF Release, SendIdle
    <2> QED
      BY <1>f, <2>1, <2>2
  <1>7. ASSUME NEW w \in Workers, OnRecv(w)
        PROVE  QueueLength'
    <2>1. \A s \in Sessions : Owed(s)' => Owed(s)
      BY <1>7, <1>a DEF Owed, OnRecv, Goto, SendIdle
    <2>2. UNCHANGED <<queue, served>>
      BY <1>7 DEF OnRecv, SendIdle
    <2> QED
      BY <1>f, <2>1, <2>2
  <1>8. ASSUME NEW w \in Workers, Forget(w)
        PROVE  QueueLength'
    <2>1. \A s \in Sessions : Owed(s)' => Owed(s)
      BY <1>8, <1>a DEF Owed, Forget, Goto, SendIdle
    <2>2. UNCHANGED <<queue, served>>
      BY <1>8 DEF Forget, SendIdle
    <2> QED
      BY <1>f, <2>1, <2>2
  <1>9. ASSUME NEW w \in Workers, PostRecv(w)
        PROVE  QueueLength'
    <2>1. \A s \in Sessions : Owed(s)' => Owed(s)
      BY <1>9, <1>a DEF Owed, PostRecv, Goto, SendIdle
    <2>2. UNCHANGED <<queue, served>>
      BY <1>9 DEF PostRecv, SendIdle
    <2> QED
      BY <1>f, <2>1, <2>2
  <1>10. ASSUME NEW w \in Workers, Dequeue(w)
        PROVE  QueueLength'
    <2>1. ASSUME NEW s \in Sessions PROVE Len(queue'[s]) <= Len(queue[s]) /\ Len(queue'[s]) \in Nat
      <3>1. queue' = [queue EXCEPT ![at[w]] = Tail(@)] /\ queue[at[w]] # <<>> /\ at[w] \in Sessions
        BY <1>10, BatchFacts DEF Dequeue, Inv
      <3>2. CASE s = at[w]
        <4>1. queue'[s] = Tail(queue[s]) /\ queue[s] # <<>> /\ queue[s] \in Seq(Messages)
          BY <1>c, <3>1, <3>2
        <4> QED
          BY <4>1
      <3>3. CASE s # at[w]
        BY <1>b, <1>c, <3>1, <3>3
      <3> QED
        BY <3>2, <3>3
    <2>2. UNCHANGED <<at, to, served>> /\ pc'[Update] = pc[Update]
      BY <1>10, <1>a DEF Dequeue
    <2>3. \A s \in Sessions : Owed(s)' <=> Owed(s)
      BY <2>2 DEF Owed
    <2>4. ASSUME NEW s \in Sessions
          PROVE  Len(queue'[s]) <= served' /\ (Owed(s)' => Len(queue'[s]) < served')
      BY <1>a, <1>b, <2>1, <2>2, <2>3
    <2> QED
      BY <2>4 DEF QueueLength
  <1>11. ASSUME NEW w \in Workers, ForgetSent(w)
        PROVE  QueueLength'
    <2>1. \A s \in Sessions : Owed(s)' => Owed(s)
      BY <1>11, <1>a DEF Owed, ForgetSent, Goto, SendIdle
    <2>2. UNCHANGED <<queue, served>>
      BY <1>11 DEF ForgetSent, SendIdle
    <2> QED
      BY <1>f, <2>1, <2>2
  <1>12. ASSUME NEW w \in Workers, SendComplete(w)
        PROVE  QueueLength'
    <2>1. \A s \in Sessions : Owed(s)' => Owed(s)
      BY <1>12, <1>a DEF Owed, SendComplete, Goto, SendIdle
    <2>2. UNCHANGED <<queue, served>>
      BY <1>12 DEF SendComplete, SendIdle
    <2> QED
      BY <1>f, <2>1, <2>2
  <1>13. CASE TakeRequest
    <2>1. UNCHANGED queue /\ served' = served + 1
      BY <1>13 DEF TakeRequest
    <2>2. \A s \in Sessions : Len(queue'[s]) < served'
      BY <1>a, <1>b, <2>1
    <2>3. \A s \in Sessions : Len(queue'[s]) \in Nat /\ served' \in Nat
      BY <1>a, <1>b, <2>1
    <2> QED
      BY <2>2, <2>3 DEF QueueLength
  <1>14. CASE NoResponse
    <2>1. \A s \in Sessions : Owed(s)' => Owed(s)
      BY <1>14, <1>a DEF Owed, NoResponse, Goto
    <2>2. UNCHANGED <<queue, served>>
      BY <1>14 DEF NoResponse
    <2> QED
      BY <1>f, <2>1, <2>2
  <1>15. CASE Respond
    <2>1. \A s \in Sessions : Owed(s)' => Owed(s)
      BY <1>15, <1>a DEF Owed, Respond, Goto
    <2>2. UNCHANGED <<queue, served>>
      BY <1>15 DEF Respond
    <2> QED
      BY <1>f, <2>1, <2>2
  <1>16. CASE Enqueue
    <2> DEFINE r == at[Update]
    <2>1. /\ queue' = [queue EXCEPT ![r] = Append(@, parcel[Update])]
          /\ pc[Update] = "enqueue" /\ pc'[Update] = "claim" /\ UNCHANGED <<to, served, at>>
      BY <1>16, <1>a DEF Enqueue, Goto
    <2>2. r \in Sessions /\ parcel[Update] \in Messages
      BY <1>a, <2>1, RoleFacts DEF Indoors, SendingSteps
    <2>3. r \notin to /\ Len(queue[r]) < served
      BY <1>a, <1>b, <2>1, <2>2 DEF Roles, Owed
    <2>4. ASSUME NEW s \in Sessions
          PROVE  Len(queue'[s]) <= served' /\ (Owed(s)' => Len(queue'[s]) < served')
      <3>1. CASE s = r
        <4>1. ~Owed(s)'
          BY <2>1, <2>3, <3>1 DEF Owed
        <4>2. queue'[s] = Append(queue[s], parcel[Update])
          BY <1>c, <2>1, <3>1
        <4>3. Len(queue'[s]) = Len(queue[s]) + 1
          BY <1>c, <2>2, <4>2
        <4> QED
          BY <1>a, <1>b, <2>1, <2>3, <3>1, <4>1, <4>3
      <3>2. CASE s # r
        <4>1. queue'[s] = queue[s] /\ (Owed(s)' => Owed(s))
          BY <1>c, <2>1, <3>2 DEF Owed
        <4> QED
          BY <1>b, <2>1, <4>1
      <3> QED
        BY <3>1, <3>2
    <2> QED
      BY <2>4 DEF QueueLength
  <1>17. CASE ForgetResponse
    <2>1. \A s \in Sessions : Owed(s)' => Owed(s)
      BY <1>17, <1>a DEF Owed, ForgetResponse, Goto
    <2>2. UNCHANGED <<queue, served>>
      BY <1>17 DEF ForgetResponse
    <2> QED
      BY <1>f, <2>1, <2>2
  <1>18. CASE Finish
    <2>1. \A s \in Sessions : Owed(s)' => Owed(s)
      BY <1>18, <1>a DEF Owed, Finish, Goto
    <2>2. UNCHANGED <<queue, served>>
      BY <1>18 DEF Finish
    <2> QED
      BY <1>f, <2>1, <2>2
  <1>19. ASSUME NEW s \in Sessions, Enter(s)
        PROVE  QueueLength'
    <2>1. \A r \in Sessions : Owed(r)' => Owed(r)
      BY <1>19, <1>a DEF Owed, Enter
    <2>2. UNCHANGED <<queue, served>>
      BY <1>19 DEF Enter
    <2> QED
      BY <1>f, <2>1, <2>2
  <1>20. ASSUME NEW w \in Workers, NEW s \in Sessions, TakeSend(w, s)
        PROVE  QueueLength'
    <2>1. \A r \in Sessions : Owed(r)' => Owed(r)
      BY <1>20, <1>a DEF Owed, TakeSend, Goto
    <2>2. UNCHANGED <<queue, served>>
      BY <1>20 DEF TakeSend
    <2> QED
      BY <1>f, <2>1, <2>2
  <1>21. ASSUME NEW w \in Workers, NEW s \in Sessions, TakeBroken(w, s)
        PROVE  QueueLength'
    <2>1. \A r \in Sessions : Owed(r)' => Owed(r)
      BY <1>21, <1>a DEF Owed, TakeBroken, Goto
    <2>2. UNCHANGED <<queue, served>>
      BY <1>21 DEF TakeBroken
    <2> QED
      BY <1>f, <2>1, <2>2
  <1>22. ASSUME NEW s \in Sessions, Break(s)
        PROVE  QueueLength'
    <2>1. \A r \in Sessions : Owed(r)' => Owed(r)
      BY <1>22 DEF Owed, Break
    <2> QED
      BY <1>22, <1>f, <2>1 DEF Break
  <1>23. ASSUME NEW w \in Workers, NEW s \in Sessions, Receive(w, s)
        PROVE  QueueLength'
    <2>1. \A r \in Sessions : Owed(r)' => Owed(r)
      BY <1>23, <1>a DEF Owed, Receive, Goto
    <2>2. UNCHANGED <<queue, served>>
      BY <1>23 DEF Receive
    <2> QED
      BY <1>f, <2>1, <2>2
  <1> QED
    BY <1>1, <1>2, <1>3, <1>4, <1>5, <1>6, <1>7, <1>8, <1>9, <1>10, <1>11, <1>12,
       <1>13, <1>14, <1>15, <1>16, <1>17, <1>18, <1>19, <1>20, <1>21, <1>22, <1>23
       DEF Next, Run, PostSend, Leaving, Complete, Threads

LEMMA StepStamp ==
    ASSUME Inv, [Next]_vars
    PROVE  \A m \in out \cap out' : stamp'[m] = stamp[m]
  <1> USE DEF pool, sending, session, locals, vars
  <1>a. /\ TypeOK /\ Roles /\ PoolTyped /\ Update \in Threads /\ Workers \subseteq Threads
        /\ out \subseteq Messages
    BY RoleFacts, Finite DEF Inv, TypeOK
  <1>f. ASSUME UNCHANGED stamp
        PROVE  \A m \in out \cap out' : stamp'[m] = stamp[m]
    BY <1>f
  <1>g. ASSUME NEW x \in Messages, AddRef(x) \/ SubRef(x)
        PROVE  \A m \in out \cap out' : stamp'[m] = stamp[m]
    BY <1>a, <1>g, StampKept
  <1>h. ASSUME NEW x \in Messages, NEW n, MessagePool!Alloc(x), stamp' = [stamp EXCEPT ![x] = n]
        PROVE  \A m \in out \cap out' : stamp'[m] = stamp[m]
    BY <1>a, <1>h, StampKept
  <1>1. CASE UNCHANGED vars
    BY <1>1, <1>f DEF SendIdle
  <1>2. ASSUME NEW t \in Threads, Claim(t)
        PROVE  \A m \in out \cap out' : stamp'[m] = stamp[m]
    BY <1>2, <1>f DEF Claim, SendIdle
  <1>3. ASSUME NEW t \in Threads, Post(t)
        PROVE  \A m \in out \cap out' : stamp'[m] = stamp[m]
    BY <1>3, <1>f DEF Post, SendIdle
  <1>4. ASSUME NEW t \in Threads, Leave(t)
        PROVE  \A m \in out \cap out' : stamp'[m] = stamp[m]
    BY <1>4, <1>f DEF Leave, SendIdle
  <1>5. ASSUME NEW t \in Threads, Drain(t)
        PROVE  \A m \in out \cap out' : stamp'[m] = stamp[m]
    <2>1. at[t] \in Sessions /\ queue[at[t]] # <<>>
      BY <1>5, <1>a, RoleFacts DEF Drain, Indoors
    <2>2. Head(queue[at[t]]) \in Messages
      BY <1>a, <2>1 DEF TypeOK
    <2> QED
      BY <1>5, <1>g, <2>2 DEF Drain
  <1>6. ASSUME NEW t \in Threads, Release(t)
        PROVE  \A m \in out \cap out' : stamp'[m] = stamp[m]
    BY <1>6, <1>f DEF Release, SendIdle
  <1>7. ASSUME NEW w \in Workers, OnRecv(w)
        PROVE  \A m \in out \cap out' : stamp'[m] = stamp[m]
    BY <1>7, <1>a, <1>g, RoleFacts DEF OnRecv, Goto
  <1>8. ASSUME NEW w \in Workers, Forget(w)
        PROVE  \A m \in out \cap out' : stamp'[m] = stamp[m]
    BY <1>8, <1>a, <1>g, RoleFacts DEF Forget, Goto
  <1>9. ASSUME NEW w \in Workers, PostRecv(w)
        PROVE  \A m \in out \cap out' : stamp'[m] = stamp[m]
    BY <1>9, <1>f DEF PostRecv, SendIdle
  <1>10. ASSUME NEW w \in Workers, Dequeue(w)
        PROVE  \A m \in out \cap out' : stamp'[m] = stamp[m]
    BY <1>10, <1>f DEF Dequeue, SendIdle
  <1>11. ASSUME NEW w \in Workers, ForgetSent(w)
        PROVE  \A m \in out \cap out' : stamp'[m] = stamp[m]
    BY <1>11, <1>a, <1>g, RoleFacts DEF ForgetSent, Goto
  <1>12. ASSUME NEW w \in Workers, SendComplete(w)
        PROVE  \A m \in out \cap out' : stamp'[m] = stamp[m]
    BY <1>12, <1>f DEF SendComplete, SendIdle
  <1>13. CASE TakeRequest
    BY <1>13, <1>f DEF TakeRequest, SendIdle
  <1>14. CASE NoResponse
    BY <1>14, <1>f DEF NoResponse, SendIdle
  <1>15. CASE Respond
    <2>1. PICK x \in Messages : MessagePool!Alloc(x) /\ stamp' = [stamp EXCEPT ![x] = served]
      BY <1>15 DEF Respond
    <2> QED
      BY <1>h, <2>1
  <1>16. CASE Enqueue
    BY <1>16, <1>f DEF Enqueue, SendIdle
  <1>17. CASE ForgetResponse
    BY <1>17, <1>a, <1>g, RoleFacts DEF ForgetResponse, Goto, SendingSteps
  <1>18. CASE Finish
    BY <1>18, <1>a, <1>g, RoleFacts DEF Finish, Goto
  <1>19. ASSUME NEW s \in Sessions, Enter(s)
        PROVE  \A m \in out \cap out' : stamp'[m] = stamp[m]
    <2>1. response[Update] \in Messages
      BY <1>19, <1>a, RoleFacts DEF Enter, SendingSteps
    <2> QED
      BY <1>19, <1>f, <1>g, <2>1 DEF Enter
  <1>20. ASSUME NEW w \in Workers, NEW s \in Sessions, TakeSend(w, s)
        PROVE  \A m \in out \cap out' : stamp'[m] = stamp[m]
    BY <1>20, <1>f DEF TakeSend, SendIdle
  <1>21. ASSUME NEW w \in Workers, NEW s \in Sessions, TakeBroken(w, s)
        PROVE  \A m \in out \cap out' : stamp'[m] = stamp[m]
    BY <1>21, <1>f DEF TakeBroken, SendIdle
  <1>22. ASSUME NEW s \in Sessions, Break(s)
        PROVE  \A m \in out \cap out' : stamp'[m] = stamp[m]
    BY <1>22, <1>f DEF Break, SendIdle
  <1>23. ASSUME NEW w \in Workers, NEW s \in Sessions, Receive(w, s)
        PROVE  \A m \in out \cap out' : stamp'[m] = stamp[m]
    <2>1. PICK x \in Messages : MessagePool!Alloc(x) /\ stamp' = [stamp EXCEPT ![x] = 0]
      BY <1>23 DEF Receive, Alloc
    <2> QED
      BY <1>h, <2>1
  <1> QED
    BY <1>1, <1>2, <1>3, <1>4, <1>5, <1>6, <1>7, <1>8, <1>9, <1>10, <1>11, <1>12,
       <1>13, <1>14, <1>15, <1>16, <1>17, <1>18, <1>19, <1>20, <1>21, <1>22, <1>23
       DEF Next, Run, PostSend, Leaving, Complete, Threads

LEMMA StepRoles ==
    ASSUME Inv, [Next]_vars
    PROVE  Roles'
  <1> USE DEF pool, sending, session, locals, vars
  <1>a. /\ TypeOK /\ Roles /\ Update \in Threads /\ Workers \subseteq Threads /\ Update \notin Workers
        /\ \A t \in Threads : t = Update \/ t \in Workers
    BY Finite DEF Inv, Threads
  <1>b. /\ request \in [Threads -> Messages \cup {Null}]
        /\ response \in [Threads -> Messages \cup {Null}]
        /\ parcel \in [Threads -> Messages \cup {Null}]
        /\ at \in [Threads -> Sessions \cup {Null}]
        /\ DOMAIN pc = Threads
        /\ Null \notin Messages /\ Null \notin Sessions
    BY <1>a, RoleFacts, ThreadsOK DEF TypeOK
  <1>c. HeldIsOut /\ HeldIsOut'
    BY StepType, StepLength, StepRef, HeldLive, HeldLiveNext DEF Inv
  \* The response the update thread sends stays encoded.
  <1>d. ASSUME response'[Update] = response[Update], pc[Update] \in SendingSteps, response[Update] # Null
        PROVE  stamp'[response'[Update]] > 0
    <2>1. response[Update] \in out /\ response[Update] \in out'
      BY <1>a, <1>c, <1>d DEF HeldIsOut
    <2>2. stamp'[response[Update]] = stamp[response[Update]]
      BY <2>1, StepStamp
    <2> QED
      BY <1>a, <1>d, <2>2 DEF Roles
  <1> USE DEF WorkerSteps, SendingSteps
  <1>1. CASE UNCHANGED vars
    BY <1>1, <1>a DEF Roles
  <1>2. ASSUME NEW t \in Threads, Claim(t)
        PROVE  Roles'
    BY <1>2, <1>a, <1>b, <1>d DEF Roles, Claim, Goto, SendIdle
  <1>3. ASSUME NEW t \in Threads, Post(t)
        PROVE  Roles'
    BY <1>3, <1>a, <1>b, <1>d DEF Roles, Post, Goto, SendIdle
  <1>4. ASSUME NEW t \in Threads, Leave(t)
        PROVE  Roles'
    BY <1>4, <1>a, <1>b, <1>d DEF Roles, Leave, Goto, Resume
  <1>5. ASSUME NEW t \in Threads, Drain(t)
        PROVE  Roles'
    <2>1. UNCHANGED <<pc, locals>>
      BY <1>5 DEF Drain
    <2> QED
      BY <1>a, <1>b, <1>d, <2>1 DEF Roles
  <1>6. ASSUME NEW t \in Threads, Release(t)
        PROVE  Roles'
    BY <1>6, <1>a, <1>b, <1>d DEF Roles, Release, Goto, Resume
  <1>7. ASSUME NEW w \in Workers, OnRecv(w)
        PROVE  Roles'
    BY <1>7, <1>a, <1>b, <1>d DEF Roles, OnRecv, Goto, SendIdle
  <1>8. ASSUME NEW w \in Workers, Forget(w)
        PROVE  Roles'
    BY <1>8, <1>a, <1>b, <1>d DEF Roles, Forget, Goto, SendIdle
  <1>9. ASSUME NEW w \in Workers, PostRecv(w)
        PROVE  Roles'
    BY <1>9, <1>a, <1>b, <1>d DEF Roles, PostRecv, Goto, SendIdle
  <1>10. ASSUME NEW w \in Workers, Dequeue(w)
        PROVE  Roles'
    <2>1. Head(queue[at[w]]) \in Messages
      <3>1. at[w] \in Sessions /\ queue[at[w]] # <<>>
        BY <1>10, <1>a, BatchFacts DEF Inv, Dequeue
      <3> QED
        BY <1>a, <3>1 DEF TypeOK
    <2> QED
      BY <1>10, <1>a, <1>b, <1>d, <2>1 DEF Roles, Dequeue
  <1>11. ASSUME NEW w \in Workers, ForgetSent(w)
        PROVE  Roles'
    BY <1>11, <1>a, <1>b, <1>d DEF Roles, ForgetSent, Goto, SendIdle
  <1>12. ASSUME NEW w \in Workers, SendComplete(w)
        PROVE  Roles'
    BY <1>12, <1>a, <1>b, <1>d DEF Roles, SendComplete, Goto, SendIdle
  <1>13. CASE TakeRequest
    <2>1. Head(inbox) \in Messages
      BY <1>13, <1>a DEF TakeRequest, TypeOK
    <2> QED
      BY <1>13, <1>a, <1>b, <2>1 DEF Roles, TakeRequest, Goto
  <1>14. CASE NoResponse
    BY <1>14, <1>a, <1>b DEF Roles, NoResponse, Goto
  <1>15. CASE Respond
    <2>1. PICK m \in Messages : /\ stamp' = [stamp EXCEPT ![m] = served]
                                /\ response' = [response EXCEPT ![Update] = m]
      BY <1>15 DEF Respond
    <2>2. served > 0
      <3>1. PICK s \in Sessions : TRUE
        BY <1>15 DEF Respond
      <3>2. Owed(s)
        BY <1>15 DEF Respond, Goto, Owed
      <3>3. Len(queue[s]) < served /\ Len(queue[s]) \in Nat /\ served \in Nat
        BY <1>a, <3>2, ThreadsOK DEF Inv, QueueLength, TypeOK
      <3> QED
        BY <3>3
    <2>3. stamp'[response'[Update]] = served /\ response'[Update] = m
      BY <1>a, <1>b, <2>1 DEF TypeOK
    <2> QED
      BY <1>15, <1>a, <1>b, <2>1, <2>2, <2>3 DEF Roles, Respond, Goto
  <1>16. CASE Enqueue
    BY <1>16, <1>a, <1>b, <1>d DEF Roles, Enqueue, Goto
  <1>17. CASE ForgetResponse
    BY <1>17, <1>a, <1>b DEF Roles, ForgetResponse, Goto
  <1>18. CASE Finish
    BY <1>18, <1>a, <1>b DEF Roles, Finish, Goto
  <1>19. ASSUME NEW s \in Sessions, Enter(s)
        PROVE  Roles'
    BY <1>19, <1>a, <1>b, <1>d DEF Roles, Enter
  <1>20. ASSUME NEW w \in Workers, NEW s \in Sessions, TakeSend(w, s)
        PROVE  Roles'
    BY <1>20, <1>a, <1>b, <1>d DEF Roles, TakeSend, Goto
  <1>21. ASSUME NEW w \in Workers, NEW s \in Sessions, TakeBroken(w, s)
        PROVE  Roles'
    BY <1>21, <1>a, <1>b, <1>d DEF Roles, TakeBroken, Goto
  <1>22. ASSUME NEW s \in Sessions, Break(s)
        PROVE  Roles'
    BY <1>22, <1>a, <1>b, <1>d DEF Roles, Break
  <1>23. ASSUME NEW w \in Workers, NEW s \in Sessions, Receive(w, s)
        PROVE  Roles'
    <2>1. PICK m \in Messages : request' = [request EXCEPT ![w] = m]
      BY <1>23 DEF Receive
    <2> QED
      BY <1>23, <1>a, <1>b, <1>d, <2>1 DEF Roles, Receive, Goto
  <1> QED
    BY <1>1, <1>2, <1>3, <1>4, <1>5, <1>6, <1>7, <1>8, <1>9, <1>10, <1>11, <1>12,
       <1>13, <1>14, <1>15, <1>16, <1>17, <1>18, <1>19, <1>20, <1>21, <1>22, <1>23
       DEF Next, Run, PostSend, Leaving, Complete, Threads

LEMMA StepIo ==
    ASSUME Inv, [Next]_vars
    PROVE  IoExact'
  <1> USE DEF pool, sending, session, locals, vars
  <1>a. /\ TypeOK /\ Roles /\ Update \in Threads /\ Workers \subseteq Threads /\ Update \notin Workers
        /\ \A t \in Threads : t = Update \/ t \in Workers
    BY Finite DEF Inv, Threads
  <1>b. /\ DOMAIN pc = Threads /\ DOMAIN at = Threads
        /\ DOMAIN recv = Sessions /\ DOMAIN io = Sessions /\ DOMAIN released = Sessions
        /\ DOMAIN flight = Sessions
    BY <1>a DEF TypeOK
  <1>c. ASSUME NEW r \in Sessions
        PROVE  /\ io[r] \in Nat /\ Reading(r) \in 0 .. 1 /\ Writing(r) \in 0 .. 1
               /\ io[r] = Reading(r) + Writing(r) + Cardinality(Inside(r))
               /\ released[r] <=> io[r] = 0
               /\ IsFiniteSet(Inside(r)) /\ Cardinality(Inside(r)) \in Nat
    BY <1>a, InsideLive DEF Reading, Writing, Inv, IoExact, IoAt, TypeOK
  \* A session the step does nothing to.
  <1>f. ASSUME NEW r \in Sessions, io'[r] = io[r], released'[r] = released[r],
               recv'[r] = recv[r], (flight'[r] = <<>>) <=> (flight[r] = <<>>), Inside(r)' = Inside(r)
        PROVE  IoAt(r)'
    <2>1. Reading(r)' = Reading(r) /\ Writing(r)' = Writing(r)
      BY <1>f DEF Reading, Writing
    <2> QED
      BY <1>c, <1>f, <2>1 DEF IoAt
  \* One more thread inside.
  <1>g. ASSUME NEW r \in Sessions, NEW t \in Threads, t \notin Inside(r), Inside(r)' = Inside(r) \cup {t}
        PROVE  Cardinality(Inside(r))' = Cardinality(Inside(r)) + 1
    <2>1. Cardinality(Inside(r) \cup {t}) = Cardinality(Inside(r)) + 1
      BY <1>c, <1>g, FS_AddElement, Zenon
    <2> QED
      BY <1>g, <2>1
  <1>h. ASSUME NEW r \in Sessions, NEW t \in Threads, t \in Inside(r), Inside(r)' = Inside(r) \ {t}
        PROVE  Cardinality(Inside(r))' = Cardinality(Inside(r)) - 1
    <2>1. Cardinality(Inside(r) \ {t}) = Cardinality(Inside(r)) - 1
      BY <1>c, <1>h, CountChange
    <2> QED
      BY <1>h, <2>1
  <1>1. CASE UNCHANGED vars
    BY <1>1, <1>f DEF IoExact, Inside
  <1>2. ASSUME NEW t \in Threads, Claim(t)
        PROVE  IoExact'
    <2>1. ASSUME NEW r \in Sessions PROVE Inside(r)' = Inside(r)
      BY <1>2, <1>b DEF Inside, Claim, Goto, SendIdle
    <2>2. UNCHANGED <<recv, io, released, flight>>
      BY <1>2 DEF Claim, SendIdle
    <2> QED
      BY <1>f, <2>1, <2>2 DEF IoExact
  <1>3. ASSUME NEW t \in Threads, Post(t)
        PROVE  IoExact'
    <2>1. ASSUME NEW r \in Sessions PROVE Inside(r)' = Inside(r)
      BY <1>3, <1>b DEF Inside, Post, Goto
    <2>2. UNCHANGED <<recv, released>>
      BY <1>3 DEF Post
    <2>3. CASE ~up[at[t]]
      <3>1. UNCHANGED <<io, flight>>
        BY <1>3, <2>3 DEF Post
      <3> QED
        BY <1>f, <2>1, <2>2, <3>1 DEF IoExact
    <2>4. CASE up[at[t]]
      <3> DEFINE s == at[t]
                 n == IF Len(queue[s]) < Batch THEN Len(queue[s]) ELSE Batch
      <3>1. /\ s \in Sessions /\ pc[t] = "post" /\ up[s]
            /\ flight' = [flight EXCEPT ![s] = SubSeq(queue[s], 1, n)]
            /\ io' = [io EXCEPT ![s] = @ + 1]
        BY <1>3, <1>a, <2>4, RoleFacts DEF Post, Goto, Indoors
      <3>2. flight[s] = <<>> /\ queue[s] # <<>>
        BY <3>1 DEF Inv, OneSender, SenderAt, Owns
      <3>3. queue[s] \in Seq(Messages) /\ Len(queue[s]) \in Nat \ {0} /\ Batch \in Nat \ {0}
        BY <1>a, <3>1, <3>2, ThreadsOK DEF TypeOK
      <3>4. n \in 1 .. Len(queue[s])
        BY <3>3
      <3> HIDE DEF s, n
      <3>5. Len(SubSeq(queue[s], 1, n)) = n
        BY <3>3, <3>4
      <3>6. flight'[s] # <<>>
        BY <1>b, <3>1, <3>4, <3>5
      <3>7. t \in Inside(s)
        BY <3>1 DEF Inside, s
      <3>8. ASSUME NEW r \in Sessions PROVE IoAt(r)'
        <4>1. CASE r = s
          <5>1. io'[r] = io[r] + 1 /\ recv'[r] = recv[r] /\ released'[r] = released[r]
            BY <1>b, <2>2, <3>1, <4>1
          <5>2. Reading(r)' = Reading(r) /\ Writing(r)' = 1 /\ Writing(r) = 0
            BY <3>2, <3>6, <4>1, <5>1 DEF Reading, Writing
          <5>3. ~released[r]
            BY <1>a, <3>7, <4>1, InsideLive DEF Inv
          <5> QED
            BY <1>c, <2>1, <5>1, <5>2, <5>3 DEF IoAt
        <4>2. CASE r # s
          <5>1. io'[r] = io[r] /\ flight'[r] = flight[r]
            BY <1>b, <3>1, <4>2
          <5> QED
            BY <1>f, <2>1, <2>2, <5>1
        <4> QED
          BY <4>1, <4>2
      <3> QED
        BY <3>8 DEF IoExact
    <2> QED
      BY <2>3, <2>4
  <1>4. ASSUME NEW t \in Threads, Leave(t)
        PROVE  IoExact'
    <2>0. PICK s \in Sessions : s = at[t]
      BY <1>4, <1>a, RoleFacts DEF Leave, Goto, Indoors
    <2> DEFINE last == io[s] = 1
    <2>1. /\ s = at[t] /\ pc[t] = "leave" /\ t \in Inside(s)
          /\ pc' = [pc EXCEPT ![t] = IF last THEN "drain" ELSE Resume(t)]
          /\ io' = [io EXCEPT ![s] = @ - 1]
          /\ released' = [released EXCEPT ![s] = @ \/ last]
          /\ at' = IF last THEN at ELSE [at EXCEPT ![t] = Null]
          /\ UNCHANGED <<recv, flight>>
      BY <1>4, <2>0 DEF Leave, Goto, Inside
    <2>2. Inside(s)' = Inside(s) \ {t} /\ \A r \in Sessions \ {s} : Inside(r)' = Inside(r)
      <3>1. CASE last
        BY <1>b, <2>1, <3>1, ThreadsOK DEF Inside, Resume
      <3>2. CASE ~last
        <4>1. at' = [at EXCEPT ![t] = Null] /\ pc' = [pc EXCEPT ![t] = Resume(t)]
          BY <2>1, <3>2
        <4>2. \A u \in Threads \ {t} : at'[u] = at[u] /\ pc'[u] = pc[u]
          BY <1>b, <4>1
        <4>3. at'[t] = Null /\ at[t] = s /\ Null \notin Sessions
          BY <1>b, <2>1, <4>1, ThreadsOK
        <4> QED
          BY <2>1, <4>2, <4>3 DEF Inside
      <3> QED
        BY <3>1, <3>2
    <2>3. io[s] > 0 /\ ~released[s]
      BY <1>a, <2>1, InsideLive DEF Inv
    <2>4. ASSUME NEW r \in Sessions PROVE IoAt(r)'
      <3>1. CASE r = s
        <4>1. io'[r] = io[r] - 1 /\ (released'[r] <=> released[r] \/ io[r] = 1)
          BY <1>b, <2>1, <3>1
        <4>2. Reading(r)' = Reading(r) /\ Writing(r)' = Writing(r)
          BY <2>1 DEF Reading, Writing
        <4>3. Cardinality(Inside(r))' = Cardinality(Inside(r)) - 1
          BY <1>h, <2>1, <2>2, <3>1
        <4>4. io[r] > 0 /\ ~released[r]
          BY <2>3, <3>1
        <4>5. io'[r] = Reading(r)' + Writing(r)' + Cardinality(Inside(r))'
          BY <1>c, <4>1, <4>2, <4>3
        <4>6. released'[r] <=> io'[r] = 0
          <5>1. io[r] \in Nat
            BY <1>c
          <5> QED
            BY <4>1, <4>4, <5>1
        <4> QED
          BY <4>5, <4>6 DEF IoAt
      <3>2. CASE r # s
        <4>1. io'[r] = io[r] /\ released'[r] = released[r]
          BY <1>b, <2>1, <3>2
        <4> QED
          BY <1>f, <2>1, <2>2, <3>2, <4>1
      <3> QED
        BY <3>1, <3>2
    <2> QED
      BY <2>4 DEF IoExact
  <1>5. ASSUME NEW t \in Threads, Drain(t)
        PROVE  IoExact'
    <2>1. UNCHANGED <<pc, at, recv, io, released, flight>>
      BY <1>5 DEF Drain
    <2> QED
      BY <1>f, <2>1 DEF IoExact, Inside
  <1>6. ASSUME NEW t \in Threads, Release(t)
        PROVE  IoExact'
    <2>1. ASSUME NEW r \in Sessions PROVE Inside(r)' = Inside(r)
      BY <1>6, <1>b, ThreadsOK DEF Inside, Release, Goto
    <2>2. UNCHANGED <<recv, io, released, flight>>
      BY <1>6 DEF Release
    <2> QED
      BY <1>f, <2>1, <2>2 DEF IoExact
  <1>7. ASSUME NEW w \in Workers, OnRecv(w)
        PROVE  IoExact'
    <2>1. ASSUME NEW r \in Sessions PROVE Inside(r)' = Inside(r)
      BY <1>7, <1>b DEF Inside, OnRecv, Goto, SendIdle
    <2>2. UNCHANGED <<recv, io, released, flight>>
      BY <1>7 DEF OnRecv, SendIdle
    <2> QED
      BY <1>f, <2>1, <2>2 DEF IoExact
  <1>8. ASSUME NEW w \in Workers, Forget(w)
        PROVE  IoExact'
    <2>1. ASSUME NEW r \in Sessions PROVE Inside(r)' = Inside(r)
      BY <1>8, <1>b DEF Inside, Forget, Goto, SendIdle
    <2>2. UNCHANGED <<recv, io, released, flight>>
      BY <1>8 DEF Forget, SendIdle
    <2> QED
      BY <1>f, <2>1, <2>2 DEF IoExact
  <1>9. ASSUME NEW w \in Workers, PostRecv(w)
        PROVE  IoExact'
    <2>0. PICK s \in Sessions : s = at[w]
      BY <1>9, <1>a, RoleFacts DEF PostRecv, Goto, Indoors
    <2>1. /\ s = at[w] /\ w \in Threads /\ w \in Inside(s) /\ ~recv[s]
          /\ UNCHANGED <<io, released, flight>>
      BY <1>9, <1>a, <2>0 DEF PostRecv, Goto, Inside, Inv, OneReceiver, Receives
    <2>2. CASE ~up[s]
      <3>1. ASSUME NEW r \in Sessions PROVE Inside(r)' = Inside(r)
        BY <1>9, <1>b, <2>0, <2>2 DEF Inside, PostRecv, Goto
      <3>2. \A r \in Sessions : recv'[r] = recv[r]
        BY <1>9, <1>a, <1>b, <2>1, <2>2 DEF PostRecv, TypeOK
      <3> QED
        BY <1>f, <2>1, <3>1, <3>2 DEF IoExact
    <2>3. CASE up[s]
      <3>1. /\ pc' = [pc EXCEPT ![w] = "idle"] /\ at' = [at EXCEPT ![w] = Null]
            /\ recv' = [recv EXCEPT ![s] = TRUE]
        BY <1>9, <1>a, <2>1, <2>3 DEF PostRecv, Goto, TypeOK
      <3>2. Inside(s)' = Inside(s) \ {w} /\ \A r \in Sessions \ {s} : Inside(r)' = Inside(r)
        <4>1. \A u \in Threads \ {w} : at'[u] = at[u] /\ pc'[u] = pc[u]
          BY <1>b, <3>1
        <4>2. at'[w] = Null /\ at[w] = s /\ Null \notin Sessions
          BY <1>b, <2>1, <3>1, ThreadsOK
        <4> QED
          BY <2>1, <4>1, <4>2 DEF Inside
      <3>3. ASSUME NEW r \in Sessions PROVE IoAt(r)'
        <4>1. CASE r = s
          <5>1. Reading(r)' = 1 /\ Reading(r) = 0 /\ Writing(r)' = Writing(r)
            BY <1>b, <2>1, <3>1, <4>1 DEF Reading, Writing
          <5>2. Cardinality(Inside(r))' = Cardinality(Inside(r)) - 1
            BY <1>h, <2>1, <3>2, <4>1
          <5> QED
            BY <1>c, <2>1, <5>1, <5>2 DEF IoAt
        <4>2. CASE r # s
          <5>1. recv'[r] = recv[r]
            BY <1>b, <3>1, <4>2
          <5> QED
            BY <1>f, <2>1, <3>2, <4>2, <5>1
        <4> QED
          BY <4>1, <4>2
      <3> QED
        BY <3>3 DEF IoExact
    <2> QED
      BY <2>2, <2>3
  <1>10. ASSUME NEW w \in Workers, Dequeue(w)
        PROVE  IoExact'
    <2>1. ASSUME NEW r \in Sessions PROVE Inside(r)' = Inside(r)
      BY <1>10, <1>b DEF Inside, Dequeue
    <2>2. UNCHANGED <<recv, io, released, flight>>
      BY <1>10 DEF Dequeue
    <2> QED
      BY <1>f, <2>1, <2>2 DEF IoExact
  <1>11. ASSUME NEW w \in Workers, ForgetSent(w)
        PROVE  IoExact'
    <2>1. ASSUME NEW r \in Sessions PROVE Inside(r)' = Inside(r)
      BY <1>11, <1>b DEF Inside, ForgetSent, Goto, SendIdle
    <2>2. UNCHANGED <<recv, io, released, flight>>
      BY <1>11 DEF ForgetSent, SendIdle
    <2> QED
      BY <1>f, <2>1, <2>2 DEF IoExact
  <1>12. ASSUME NEW w \in Workers, SendComplete(w)
        PROVE  IoExact'
    <2>1. ASSUME NEW r \in Sessions PROVE Inside(r)' = Inside(r)
      BY <1>12, <1>b DEF Inside, SendComplete, Goto, SendIdle
    <2>2. UNCHANGED <<recv, io, released, flight>>
      BY <1>12 DEF SendComplete, SendIdle
    <2> QED
      BY <1>f, <2>1, <2>2 DEF IoExact
  <1>13. CASE TakeRequest
    <2>1. ASSUME NEW r \in Sessions PROVE Inside(r)' = Inside(r)
      BY <1>13, <1>b DEF Inside, TakeRequest, Goto
    <2>2. UNCHANGED <<recv, io, released, flight>>
      BY <1>13 DEF TakeRequest
    <2> QED
      BY <1>f, <2>1, <2>2 DEF IoExact
  <1>14. CASE NoResponse
    <2>1. ASSUME NEW r \in Sessions PROVE Inside(r)' = Inside(r)
      BY <1>14, <1>b DEF Inside, NoResponse, Goto
    <2>2. UNCHANGED <<recv, io, released, flight>>
      BY <1>14 DEF NoResponse
    <2> QED
      BY <1>f, <2>1, <2>2 DEF IoExact
  <1>15. CASE Respond
    <2>1. ASSUME NEW r \in Sessions PROVE Inside(r)' = Inside(r)
      BY <1>15, <1>b DEF Inside, Respond, Goto
    <2>2. UNCHANGED <<recv, io, released, flight>>
      BY <1>15 DEF Respond
    <2> QED
      BY <1>f, <2>1, <2>2 DEF IoExact
  <1>16. CASE Enqueue
    <2>1. ASSUME NEW r \in Sessions PROVE Inside(r)' = Inside(r)
      BY <1>16, <1>b DEF Inside, Enqueue, Goto
    <2>2. UNCHANGED <<recv, io, released, flight>>
      BY <1>16 DEF Enqueue
    <2> QED
      BY <1>f, <2>1, <2>2 DEF IoExact
  <1>17. CASE ForgetResponse
    <2>1. ASSUME NEW r \in Sessions PROVE Inside(r)' = Inside(r)
      BY <1>17, <1>b DEF Inside, ForgetResponse, Goto
    <2>2. UNCHANGED <<recv, io, released, flight>>
      BY <1>17 DEF ForgetResponse
    <2> QED
      BY <1>f, <2>1, <2>2 DEF IoExact
  <1>18. CASE Finish
    <2>1. ASSUME NEW r \in Sessions PROVE Inside(r)' = Inside(r)
      BY <1>18, <1>b DEF Inside, Finish, Goto
    <2>2. UNCHANGED <<recv, io, released, flight>>
      BY <1>18 DEF Finish
    <2> QED
      BY <1>f, <2>1, <2>2 DEF IoExact
  <1>19. ASSUME NEW s \in Sessions, Enter(s)
        PROVE  IoExact'
    <2>1. CASE released[s]
      <3>1. UNCHANGED <<pc, at, recv, io, released, flight>>
        BY <1>19, <2>1 DEF Enter
      <3> QED
        BY <1>f, <3>1 DEF IoExact, Inside
    <2>2. CASE ~released[s]
      <3>1. /\ pc' = [pc EXCEPT ![Update] = "enqueue"] /\ io' = [io EXCEPT ![s] = @ + 1]
            /\ at' = [at EXCEPT ![Update] = s] /\ UNCHANGED <<recv, released, flight>>
            /\ pc[Update] = "send"
        BY <1>19, <2>2 DEF Enter
      <3>2. at[Update] = Null
        BY <1>a, <3>1 DEF Roles
      <3>3. /\ Update \notin Inside(s) /\ Inside(s)' = Inside(s) \cup {Update}
            /\ \A r \in Sessions \ {s} : Inside(r)' = Inside(r)
        BY <1>a, <1>b, <3>1, <3>2, ThreadsOK DEF Inside
      <3>4. ASSUME NEW r \in Sessions PROVE IoAt(r)'
        <4>1. CASE r = s
          <5>1. io'[r] = io[r] + 1 /\ released'[r] = released[r] /\ ~released[r]
            BY <1>b, <2>2, <3>1, <4>1
          <5>2. Reading(r)' = Reading(r) /\ Writing(r)' = Writing(r)
            BY <3>1 DEF Reading, Writing
          <5>3. Cardinality(Inside(r))' = Cardinality(Inside(r)) + 1
            BY <1>a, <1>g, <3>3, <4>1
          <5> QED
            BY <1>c, <5>1, <5>2, <5>3 DEF IoAt
        <4>2. CASE r # s
          <5>1. io'[r] = io[r]
            BY <1>b, <3>1, <4>2
          <5> QED
            BY <1>f, <3>1, <3>3, <4>2, <5>1
        <4> QED
          BY <4>1, <4>2
      <3> QED
        BY <3>4 DEF IoExact
    <2> QED
      BY <2>1, <2>2
  <1>20. ASSUME NEW w \in Workers, NEW s \in Sessions, TakeSend(w, s)
        PROVE  IoExact'
    <2>1. /\ pc' = [pc EXCEPT ![w] = "dequeue"] /\ at' = [at EXCEPT ![w] = s] /\ pc[w] = "idle"
          /\ flight[s] # <<>> /\ flight' = [flight EXCEPT ![s] = <<>>]
          /\ UNCHANGED <<recv, io, released>>
      BY <1>20 DEF TakeSend, Goto
    <2>2. /\ w \in Threads /\ w \notin Inside(s) /\ Inside(s)' = Inside(s) \cup {w}
          /\ \A r \in Sessions \ {s} : Inside(r)' = Inside(r)
      <3>1. at[w] = Null /\ w \in Threads
        BY <1>a, <2>1 DEF Roles
      <3> QED
        BY <1>b, <2>1, <3>1, ThreadsOK DEF Inside
    <2>3. ASSUME NEW r \in Sessions PROVE IoAt(r)'
      <3>1. CASE r = s
        <4>1. Reading(r)' = Reading(r) /\ Writing(r)' = 0 /\ Writing(r) = 1
          BY <1>b, <2>1, <3>1 DEF Reading, Writing
        <4>2. Cardinality(Inside(r))' = Cardinality(Inside(r)) + 1
          BY <1>g, <2>2, <3>1
        <4> QED
          BY <1>c, <2>1, <4>1, <4>2 DEF IoAt
      <3>2. CASE r # s
        <4>1. flight'[r] = flight[r]
          BY <1>b, <2>1, <3>2
        <4> QED
          BY <1>f, <2>1, <2>2, <3>2, <4>1
      <3> QED
        BY <3>1, <3>2
    <2> QED
      BY <2>3 DEF IoExact
  <1>21. ASSUME NEW w \in Workers, NEW s \in Sessions, TakeBroken(w, s)
        PROVE  IoExact'
    <2>1. /\ pc' = [pc EXCEPT ![w] = "leave"] /\ at' = [at EXCEPT ![w] = s] /\ pc[w] = "idle"
          /\ \/ recv[s] /\ recv' = [recv EXCEPT ![s] = FALSE] /\ UNCHANGED flight
             \/ flight[s] # <<>> /\ flight' = [flight EXCEPT ![s] = <<>>] /\ UNCHANGED recv
          /\ UNCHANGED <<io, released>>
      BY <1>21 DEF TakeBroken, Goto
    <2>2. /\ w \in Threads /\ w \notin Inside(s) /\ Inside(s)' = Inside(s) \cup {w}
          /\ \A r \in Sessions \ {s} : Inside(r)' = Inside(r)
      <3>1. at[w] = Null /\ w \in Threads
        BY <1>a, <2>1 DEF Roles
      <3> QED
        BY <1>b, <2>1, <3>1, ThreadsOK DEF Inside
    <2>3. ASSUME NEW r \in Sessions PROVE IoAt(r)'
      <3>1. CASE r = s
        <4>1. Reading(r)' + Writing(r)' = Reading(r) + Writing(r) - 1
          BY <1>b, <2>1, <3>1 DEF Reading, Writing
        <4>2. Cardinality(Inside(r))' = Cardinality(Inside(r)) + 1
          BY <1>g, <2>2, <3>1
        <4>3. Reading(r)' \in Int /\ Writing(r)' \in Int
          BY DEF Reading, Writing
        <4> QED
          BY <1>c, <2>1, <4>1, <4>2, <4>3 DEF IoAt
      <3>2. CASE r # s
        <4>1. flight'[r] = flight[r] /\ recv'[r] = recv[r]
          BY <1>b, <2>1, <3>2
        <4> QED
          BY <1>f, <2>1, <2>2, <3>2, <4>1
      <3> QED
        BY <3>1, <3>2
    <2> QED
      BY <2>3 DEF IoExact
  <1>22. ASSUME NEW s \in Sessions, Break(s)
        PROVE  IoExact'
    <2>1. UNCHANGED <<pc, at, recv, io, released, flight>>
      BY <1>22 DEF Break
    <2> QED
      BY <1>f, <2>1 DEF IoExact, Inside
  <1>23. ASSUME NEW w \in Workers, NEW s \in Sessions, Receive(w, s)
        PROVE  IoExact'
    <2>1. /\ pc' = [pc EXCEPT ![w] = "onrecv"] /\ at' = [at EXCEPT ![w] = s] /\ pc[w] = "idle"
          /\ recv[s] /\ recv' = [recv EXCEPT ![s] = FALSE]
          /\ UNCHANGED <<flight, io, released>>
      BY <1>23 DEF Receive, Goto
    <2>2. /\ w \in Threads /\ w \notin Inside(s) /\ Inside(s)' = Inside(s) \cup {w}
          /\ \A r \in Sessions \ {s} : Inside(r)' = Inside(r)
      <3>1. at[w] = Null /\ w \in Threads
        BY <1>a, <2>1 DEF Roles
      <3> QED
        BY <1>b, <2>1, <3>1, ThreadsOK DEF Inside
    <2>3. ASSUME NEW r \in Sessions PROVE IoAt(r)'
      <3>1. CASE r = s
        <4>1. Reading(r)' = 0 /\ Writing(r)' = Writing(r) /\ Reading(r) = 1
          BY <1>b, <2>1, <3>1 DEF Reading, Writing
        <4>2. Cardinality(Inside(r))' = Cardinality(Inside(r)) + 1
          BY <1>g, <2>2, <3>1
        <4> QED
          BY <1>c, <2>1, <4>1, <4>2 DEF IoAt
      <3>2. CASE r # s
        <4>1. recv'[r] = recv[r]
          BY <1>b, <2>1, <3>2
        <4> QED
          BY <1>f, <2>1, <2>2, <3>2, <4>1
      <3> QED
        BY <3>1, <3>2
    <2> QED
      BY <2>3 DEF IoExact
  <1> QED
    BY <1>1, <1>2, <1>3, <1>4, <1>5, <1>6, <1>7, <1>8, <1>9, <1>10, <1>11, <1>12,
       <1>13, <1>14, <1>15, <1>16, <1>17, <1>18, <1>19, <1>20, <1>21, <1>22, <1>23
       DEF Next, Run, PostSend, Leaving, Complete, Threads

LEMMA StepReceiver ==
    ASSUME Inv, [Next]_vars
    PROVE  OneReceiver' /\ DrainReleased'
  <1> USE DEF pool, sending, session, locals, vars
  <1>a. /\ TypeOK /\ Roles /\ Update \in Threads /\ Workers \subseteq Threads /\ Update \notin Workers
        /\ \A t \in Threads : t = Update \/ t \in Workers
        /\ Null \notin Sessions
    BY Finite, ThreadsOK DEF Inv, Threads
  <1>b. /\ DOMAIN pc = Threads /\ DOMAIN at = Threads /\ DOMAIN recv = Sessions
        /\ released \in [Sessions -> BOOLEAN]
    BY <1>a DEF TypeOK
  <1>c. OneReceiver /\ DrainReleased
    BY DEF Inv
  <1>d. \A t \in Threads : pc[t] = "drain" => at[t] \in Sessions
    BY <1>a, RoleFacts DEF Indoors
  <1>e. \A w \in Workers : pc[w] = "idle" => at[w] = Null
    BY <1>a DEF Roles
  <1> USE DEF Receives
  <1>1. CASE UNCHANGED vars
    BY <1>1, <1>c DEF OneReceiver, DrainReleased
  <1>2. ASSUME NEW t \in Threads, Claim(t)
        PROVE  OneReceiver' /\ DrainReleased'
    <2>1. OneReceiver'
      BY <1>2, <1>a, <1>b, <1>c DEF OneReceiver, Claim, Goto, SendIdle, Resume
    <2>2. DrainReleased'
      BY <1>2, <1>a, <1>b, <1>c DEF DrainReleased, Claim, Goto, SendIdle, Resume
    <2> QED
      BY <2>1, <2>2
  <1>3. ASSUME NEW t \in Threads, Post(t)
        PROVE  OneReceiver' /\ DrainReleased'
    <2>1. OneReceiver'
      BY <1>3, <1>a, <1>b, <1>c DEF OneReceiver, Post, Goto, SendIdle, Resume
    <2>2. DrainReleased'
      BY <1>3, <1>a, <1>b, <1>c DEF DrainReleased, Post, Goto, SendIdle, Resume
    <2> QED
      BY <2>1, <2>2
  <1>4. ASSUME NEW t \in Threads, Leave(t)
        PROVE  OneReceiver' /\ DrainReleased'
    <2>1. OneReceiver'
      BY <1>4, <1>a, <1>b, <1>c DEF OneReceiver, Leave, Goto, Resume
    <2>2. at[t] \in Sessions
      BY <1>4, <1>a, RoleFacts DEF Leave, Goto, Indoors
    <2>3. DrainReleased'
      BY <1>4, <1>a, <1>b, <1>c, <1>d, <2>2 DEF DrainReleased, Leave, Goto, Resume
    <2> QED
      BY <2>1, <2>3
  <1>5. ASSUME NEW t \in Threads, Drain(t)
        PROVE  OneReceiver' /\ DrainReleased'
    BY <1>5, <1>c DEF OneReceiver, DrainReleased, Drain
  <1>6. ASSUME NEW t \in Threads, Release(t)
        PROVE  OneReceiver' /\ DrainReleased'
    <2>1. OneReceiver'
      BY <1>6, <1>a, <1>b, <1>c DEF OneReceiver, Release, Goto, SendIdle, Resume
    <2>2. DrainReleased'
      BY <1>6, <1>a, <1>b, <1>c DEF DrainReleased, Release, Goto, SendIdle, Resume
    <2> QED
      BY <2>1, <2>2
  <1>7. ASSUME NEW w \in Workers, OnRecv(w)
        PROVE  OneReceiver' /\ DrainReleased'
    <2>1. OneReceiver'
      BY <1>7, <1>a, <1>b, <1>c DEF OneReceiver, OnRecv, Goto, SendIdle, Resume
    <2>2. DrainReleased'
      BY <1>7, <1>a, <1>b, <1>c DEF DrainReleased, OnRecv, Goto, SendIdle, Resume
    <2> QED
      BY <2>1, <2>2
  <1>8. ASSUME NEW w \in Workers, Forget(w)
        PROVE  OneReceiver' /\ DrainReleased'
    <2>1. OneReceiver'
      BY <1>8, <1>a, <1>b, <1>c DEF OneReceiver, Forget, Goto, SendIdle, Resume
    <2>2. DrainReleased'
      BY <1>8, <1>a, <1>b, <1>c DEF DrainReleased, Forget, Goto, SendIdle, Resume
    <2> QED
      BY <2>1, <2>2
  <1>9. ASSUME NEW w \in Workers, PostRecv(w)
        PROVE  OneReceiver' /\ DrainReleased'
    <2>0. at[w] \in Sessions
      BY <1>9, <1>a, RoleFacts DEF PostRecv, Goto, Indoors
    <2>1. OneReceiver'
      BY <1>9, <1>a, <1>b, <1>c, <2>0 DEF OneReceiver, PostRecv, Goto
    <2>2. DrainReleased'
      BY <1>9, <1>a, <1>b, <1>c DEF DrainReleased, PostRecv, Goto
    <2> QED
      BY <2>1, <2>2
  <1>10. ASSUME NEW w \in Workers, Dequeue(w)
        PROVE  OneReceiver' /\ DrainReleased'
    <2>1. OneReceiver'
      BY <1>10, <1>a, <1>b, <1>c DEF OneReceiver, Dequeue
    <2>2. DrainReleased'
      BY <1>10, <1>a, <1>b, <1>c DEF DrainReleased, Dequeue
    <2> QED
      BY <2>1, <2>2
  <1>11. ASSUME NEW w \in Workers, ForgetSent(w)
        PROVE  OneReceiver' /\ DrainReleased'
    <2>1. OneReceiver'
      BY <1>11, <1>a, <1>b, <1>c DEF OneReceiver, ForgetSent, Goto, SendIdle, Resume
    <2>2. DrainReleased'
      BY <1>11, <1>a, <1>b, <1>c DEF DrainReleased, ForgetSent, Goto, SendIdle, Resume
    <2> QED
      BY <2>1, <2>2
  <1>12. ASSUME NEW w \in Workers, SendComplete(w)
        PROVE  OneReceiver' /\ DrainReleased'
    <2>1. OneReceiver'
      BY <1>12, <1>a, <1>b, <1>c DEF OneReceiver, SendComplete, Goto, SendIdle, Resume
    <2>2. DrainReleased'
      BY <1>12, <1>a, <1>b, <1>c DEF DrainReleased, SendComplete, Goto, SendIdle, Resume
    <2> QED
      BY <2>1, <2>2
  <1>13. CASE TakeRequest
    <2>1. OneReceiver'
      BY <1>13, <1>a, <1>b, <1>c DEF OneReceiver, TakeRequest, Goto, SendIdle, Resume
    <2>2. DrainReleased'
      BY <1>13, <1>a, <1>b, <1>c DEF DrainReleased, TakeRequest, Goto, SendIdle, Resume
    <2> QED
      BY <2>1, <2>2
  <1>14. CASE NoResponse
    <2>1. OneReceiver'
      BY <1>14, <1>a, <1>b, <1>c DEF OneReceiver, NoResponse, Goto, SendIdle, Resume
    <2>2. DrainReleased'
      BY <1>14, <1>a, <1>b, <1>c DEF DrainReleased, NoResponse, Goto, SendIdle, Resume
    <2> QED
      BY <2>1, <2>2
  <1>15. CASE Respond
    <2>1. OneReceiver'
      BY <1>15, <1>a, <1>b, <1>c DEF OneReceiver, Respond, Goto, SendIdle, Resume
    <2>2. DrainReleased'
      BY <1>15, <1>a, <1>b, <1>c DEF DrainReleased, Respond, Goto, SendIdle, Resume
    <2> QED
      BY <2>1, <2>2
  <1>16. CASE Enqueue
    <2>1. OneReceiver'
      BY <1>16, <1>a, <1>b, <1>c DEF OneReceiver, Enqueue, Goto, SendIdle, Resume
    <2>2. DrainReleased'
      BY <1>16, <1>a, <1>b, <1>c DEF DrainReleased, Enqueue, Goto, SendIdle, Resume
    <2> QED
      BY <2>1, <2>2
  <1>17. CASE ForgetResponse
    <2>1. OneReceiver'
      BY <1>17, <1>a, <1>b, <1>c DEF OneReceiver, ForgetResponse, Goto, SendIdle, Resume
    <2>2. DrainReleased'
      BY <1>17, <1>a, <1>b, <1>c DEF DrainReleased, ForgetResponse, Goto, SendIdle, Resume
    <2> QED
      BY <2>1, <2>2
  <1>18. CASE Finish
    <2>1. OneReceiver'
      BY <1>18, <1>a, <1>b, <1>c DEF OneReceiver, Finish, Goto, SendIdle, Resume
    <2>2. DrainReleased'
      BY <1>18, <1>a, <1>b, <1>c DEF DrainReleased, Finish, Goto, SendIdle, Resume
    <2> QED
      BY <2>1, <2>2
  <1>19. ASSUME NEW s \in Sessions, Enter(s)
        PROVE  OneReceiver' /\ DrainReleased'
    <2>1. OneReceiver'
      BY <1>19, <1>a, <1>b, <1>c DEF OneReceiver, Enter
    <2>2. DrainReleased'
      BY <1>19, <1>a, <1>b, <1>c DEF DrainReleased, Enter
    <2> QED
      BY <2>1, <2>2
  <1>20. ASSUME NEW w \in Workers, NEW s \in Sessions, TakeSend(w, s)
        PROVE  OneReceiver' /\ DrainReleased'
    <2>1. OneReceiver'
      BY <1>20, <1>a, <1>b, <1>c, <1>e DEF OneReceiver, TakeSend, Goto
    <2>2. DrainReleased'
      BY <1>20, <1>a, <1>b, <1>c DEF DrainReleased, TakeSend, Goto
    <2> QED
      BY <2>1, <2>2
  <1>21. ASSUME NEW w \in Workers, NEW s \in Sessions, TakeBroken(w, s)
        PROVE  OneReceiver' /\ DrainReleased'
    <2>1. OneReceiver'
      BY <1>21, <1>a, <1>b, <1>c, <1>e DEF OneReceiver, TakeBroken, Goto
    <2>2. DrainReleased'
      BY <1>21, <1>a, <1>b, <1>c DEF DrainReleased, TakeBroken, Goto
    <2> QED
      BY <2>1, <2>2
  <1>22. ASSUME NEW s \in Sessions, Break(s)
        PROVE  OneReceiver' /\ DrainReleased'
    BY <1>22, <1>c DEF OneReceiver, DrainReleased, Break
  <1>23. ASSUME NEW w \in Workers, NEW s \in Sessions, Receive(w, s)
        PROVE  OneReceiver' /\ DrainReleased'
    <2>1. OneReceiver'
      BY <1>23, <1>a, <1>b, <1>c, <1>e DEF OneReceiver, Receive, Goto
    <2>2. DrainReleased'
      BY <1>23, <1>a, <1>b, <1>c DEF DrainReleased, Receive, Goto
    <2> QED
      BY <2>1, <2>2
  <1> QED
    BY <1>1, <1>2, <1>3, <1>4, <1>5, <1>6, <1>7, <1>8, <1>9, <1>10, <1>11, <1>12,
       <1>13, <1>14, <1>15, <1>16, <1>17, <1>18, <1>19, <1>20, <1>21, <1>22, <1>23
       DEF Next, Run, PostSend, Leaving, Complete, Threads

LEMMA StepSender ==
    ASSUME Inv, [Next]_vars
    PROVE  OneSender'
  <1> USE DEF pool, sending, session, locals, vars
  <1>a. /\ TypeOK /\ Roles /\ Update \in Threads /\ Workers \subseteq Threads /\ Update \notin Workers
        /\ \A t \in Threads : t = Update \/ t \in Workers
        /\ Null \notin Sessions
    BY Finite, ThreadsOK DEF Inv, Threads
  <1>b. /\ DOMAIN pc = Threads /\ DOMAIN at = Threads /\ isSend \in [Sessions -> BOOLEAN]
        /\ DOMAIN flight = Sessions /\ DOMAIN up = Sessions /\ DOMAIN queue = Sessions
    BY <1>a DEF TypeOK
  <1>c. \A s \in Sessions : SenderAt(s)
    BY DEF Inv, OneSender
  <1>d. \A w \in Workers : pc[w] = "idle" => at[w] = Null
    BY <1>a DEF Roles
  \* A released session has no owner and nothing outstanding.
  <1>e. ASSUME NEW s \in Sessions, released[s]
        PROVE  flight[s] = <<>> /\ \A t \in Threads : ~Owns(t, s)
    BY <1>a, <1>e, InsideLive DEF Inv, Owns, Inside
  \* A session whose sender does not change.
  <1>f. ASSUME NEW s \in Sessions, isSend'[s] = isSend[s], flight'[s] = flight[s], up'[s] => up[s],
               \A t \in Threads : Owns(t, s)' <=> Owns(t, s),
               \A t \in Threads : Owns(t, s)' /\ pc'[t] = "post" => pc[t] = "post" /\ (queue[s] # <<>> => queue'[s] # <<>>)
        PROVE  SenderAt(s)'
    BY <1>c, <1>f DEF SenderAt
  <1>1. CASE UNCHANGED vars
    BY <1>1, <1>f DEF OneSender, Owns
  <1>2. ASSUME NEW t \in Threads, Claim(t)
        PROVE  OneSender'
    <2>0. PICK s \in Sessions : s = at[t]
      BY <1>2, <1>a, RoleFacts DEF Claim, Goto, Indoors
    <2> DEFINE mine == queue[s] # <<>> /\ ~isSend[s]
    <2>1. /\ pc[t] = "claim" /\ pc' = [pc EXCEPT ![t] = IF mine THEN "post" ELSE "leave"]
          /\ isSend' = [isSend EXCEPT ![s] = @ \/ mine]
          /\ UNCHANGED <<at, queue, flight, up>>
      BY <1>2, <2>0 DEF Claim, Goto, SendIdle
    <2>2. ASSUME NEW r \in Sessions PROVE SenderAt(r)'
      <3>1. CASE r # s \/ ~mine
        <4>1. isSend'[r] = isSend[r]
          BY <1>b, <2>1, <3>1
        <4>2. \A u \in Threads : Owns(u, r)' <=> Owns(u, r)
          BY <1>b, <2>0, <2>1, <3>1 DEF Owns
        <4>3. \A u \in Threads : Owns(u, r)' /\ pc'[u] = "post" => pc[u] = "post"
          BY <1>b, <2>0, <2>1, <3>1 DEF Owns
        <4> QED
          BY <1>f, <2>1, <4>1, <4>2, <4>3
      <3>2. CASE r = s /\ mine
        <4>1. isSend'[r] /\ flight'[r] = flight[r] /\ queue'[r] # <<>> /\ up'[r] = up[r]
          BY <1>b, <2>1, <3>2
        <4>2. flight[r] = <<>> /\ \A u \in Threads : ~Owns(u, r)
          BY <1>c, <3>2 DEF SenderAt
        <4>3. \A u \in Threads : Owns(u, r)' <=> u = t
          BY <1>b, <2>0, <2>1, <3>2, <4>2 DEF Owns
        <4> QED
          BY <4>1, <4>2, <4>3 DEF SenderAt
      <3> QED
        BY <3>1, <3>2
    <2> QED
      BY <2>2 DEF OneSender
  <1>3. ASSUME NEW t \in Threads, Post(t)
        PROVE  OneSender'
    <2>0. PICK s \in Sessions : s = at[t]
      BY <1>3, <1>a, RoleFacts DEF Post, Goto, Indoors
    <2>1. /\ pc[t] = "post" /\ pc' = [pc EXCEPT ![t] = "leave"]
          /\ UNCHANGED <<at, isSend, queue, up>>
      BY <1>3 DEF Post, Goto
    <2>2. /\ isSend[s] /\ flight[s] = <<>> /\ queue[s] # <<>>
          /\ \A u \in Threads : Owns(u, s) => u = t
      BY <1>c, <2>0, <2>1 DEF SenderAt, Owns
    <2>3. \A u \in Threads : ~Owns(u, s)'
      BY <1>b, <2>0, <2>1, <2>2 DEF Owns
    <2>4. up[s] => flight'[s] # <<>>
      <3> DEFINE n == IF Len(queue[s]) < Batch THEN Len(queue[s]) ELSE Batch
      <3>1. up[s] => flight'[s] = SubSeq(queue[s], 1, n)
        BY <1>3, <1>b, <2>0 DEF Post
      <3>2. queue[s] \in Seq(Messages) /\ Len(queue[s]) \in Nat \ {0} /\ Batch \in Nat \ {0}
        BY <1>a, <2>2, ThreadsOK DEF TypeOK
      <3>3. n \in 1 .. Len(queue[s])
        BY <3>2
      <3> HIDE DEF n
      <3>4. Len(SubSeq(queue[s], 1, n)) = n
        BY <3>2, <3>3
      <3> QED
        BY <3>1, <3>3, <3>4
    <2>5. ASSUME NEW r \in Sessions PROVE SenderAt(r)'
      <3>1. CASE r = s
        BY <2>1, <2>2, <2>3, <2>4, <3>1 DEF SenderAt
      <3>2. CASE r # s
        <4>1. flight'[r] = flight[r]
          BY <1>3, <1>b, <2>0, <3>2 DEF Post
        <4>2. \A u \in Threads : (Owns(u, r)' <=> Owns(u, r)) /\ (Owns(u, r) => pc'[u] = pc[u])
          BY <1>b, <2>0, <2>1, <3>2 DEF Owns
        <4> QED
          BY <1>f, <2>1, <4>1, <4>2
      <3> QED
        BY <3>1, <3>2
    <2> QED
      BY <2>5 DEF OneSender
  <1>4. ASSUME NEW t \in Threads, Leave(t)
        PROVE  OneSender'
    <2>1. ASSUME NEW r \in Sessions, NEW u \in Threads
          PROVE  (Owns(u, r)' <=> Owns(u, r)) /\ (Owns(u, r) => pc'[u] = pc[u])
      BY <1>4, <1>a, <1>b DEF Owns, Leave, Goto, Resume
    <2>2. UNCHANGED <<isSend, flight, up, queue>>
      BY <1>4 DEF Leave
    <2> QED
      BY <1>f, <2>1, <2>2 DEF OneSender
  <1>5. ASSUME NEW t \in Threads, Drain(t)
        PROVE  OneSender'
    <2>1. at[t] \in Sessions /\ released[at[t]]
      BY <1>5, <1>a, RoleFacts DEF Drain, Indoors, Inv, DrainReleased
    <2>2. UNCHANGED <<isSend, flight, up, pc, at>> /\ queue' = [queue EXCEPT ![at[t]] = Tail(@)]
      BY <1>5 DEF Drain
    <2>3. \A r \in Sessions : r # at[t] => queue'[r] = queue[r]
      BY <1>b, <2>2
    <2>4. \A u \in Threads : \A r \in Sessions : (Owns(u, r)' <=> Owns(u, r)) /\ (Owns(u, r) => r # at[t])
      BY <1>e, <2>1, <2>2 DEF Owns
    <2> QED
      BY <1>f, <2>2, <2>3, <2>4 DEF OneSender
  <1>6. ASSUME NEW t \in Threads, Release(t)
        PROVE  OneSender'
    <2>0. PICK s \in Sessions : s = at[t]
      BY <1>6, <1>a, RoleFacts DEF Release, Goto, Indoors
    <2>1. /\ pc[t] = "drain" /\ pc' = [pc EXCEPT ![t] = Resume(t)] /\ at' = [at EXCEPT ![t] = Null]
          /\ isSend' = [isSend EXCEPT ![s] = FALSE] /\ UNCHANGED <<flight, up, queue>>
      BY <1>6, <2>0 DEF Release, Goto
    <2>2. ASSUME NEW r \in Sessions, NEW u \in Threads
          PROVE  (Owns(u, r)' <=> Owns(u, r)) /\ (Owns(u, r) => pc'[u] = pc[u])
      BY <1>a, <1>b, <2>1 DEF Owns, Resume
    <2>3. flight[s] = <<>> /\ \A u \in Threads : ~Owns(u, s)
      BY <1>e, <2>0, <2>1 DEF Inv, DrainReleased
    <2>4. ASSUME NEW r \in Sessions PROVE SenderAt(r)'
      <3>1. CASE r = s
        <4>1. ~isSend'[s] /\ flight'[s] = <<>> /\ \A u \in Threads : ~Owns(u, s)'
          BY <1>b, <2>1, <2>2, <2>3
        <4> QED
          BY <3>1, <4>1 DEF SenderAt
      <3>2. CASE r # s
        <4>1. isSend'[r] = isSend[r]
          BY <1>b, <2>1, <3>2
        <4> QED
          BY <1>f, <2>1, <2>2, <4>1
      <3> QED
        BY <3>1, <3>2
    <2> QED
      BY <2>4 DEF OneSender
  <1>7. ASSUME NEW w \in Workers, OnRecv(w)
        PROVE  OneSender'
    <2>1. ASSUME NEW r \in Sessions, NEW u \in Threads
          PROVE  (Owns(u, r)' <=> Owns(u, r)) /\ (Owns(u, r) => pc'[u] = pc[u])
      BY <1>7, <1>a, <1>b DEF Owns, OnRecv, Goto, Resume
    <2>2. UNCHANGED <<isSend, flight, up, queue>>
      BY <1>7 DEF OnRecv
    <2> QED
      BY <1>f, <2>1, <2>2 DEF OneSender
  <1>8. ASSUME NEW w \in Workers, Forget(w)
        PROVE  OneSender'
    <2>1. ASSUME NEW r \in Sessions, NEW u \in Threads
          PROVE  (Owns(u, r)' <=> Owns(u, r)) /\ (Owns(u, r) => pc'[u] = pc[u])
      BY <1>8, <1>a, <1>b DEF Owns, Forget, Goto, Resume
    <2>2. UNCHANGED <<isSend, flight, up, queue>>
      BY <1>8 DEF Forget
    <2> QED
      BY <1>f, <2>1, <2>2 DEF OneSender
  <1>9. ASSUME NEW w \in Workers, PostRecv(w)
        PROVE  OneSender'
    <2>1. ASSUME NEW r \in Sessions, NEW u \in Threads
          PROVE  (Owns(u, r)' <=> Owns(u, r)) /\ (Owns(u, r) => pc'[u] = pc[u])
      BY <1>9, <1>a, <1>b DEF Owns, PostRecv, Goto, Resume
    <2>2. UNCHANGED <<isSend, flight, up, queue>>
      BY <1>9 DEF PostRecv
    <2> QED
      BY <1>f, <2>1, <2>2 DEF OneSender
  <1>10. ASSUME NEW w \in Workers, Dequeue(w)
        PROVE  OneSender'
    <2>0. PICK s \in Sessions : s = at[w]
      BY <1>10, <1>a, BatchFacts DEF Inv, Dequeue
    <2>1. /\ pc[w] = "dequeue" /\ pc' = [pc EXCEPT ![w] = "subref"] /\ queue' = [queue EXCEPT ![s] = Tail(@)]
          /\ UNCHANGED <<at, isSend, flight, up>>
      BY <1>10, <2>0 DEF Dequeue
    <2>2. Owns(w, s) /\ w \in Threads
      BY <1>a, <2>0, <2>1 DEF Owns
    <2>3. \A u \in Threads : \A r \in Sessions :
             (Owns(u, r)' <=> Owns(u, r)) /\ (pc'[u] = "post" <=> pc[u] = "post")
      BY <1>b, <2>1 DEF Owns
    <2>4. \A u \in Threads : Owns(u, s) => pc[u] # "post"
      BY <1>c, <2>1, <2>2 DEF SenderAt
    <2>5. \A r \in Sessions : r # s => queue'[r] = queue[r]
      BY <1>b, <2>1
    <2>6. ASSUME NEW r \in Sessions PROVE SenderAt(r)'
      BY <1>f, <2>1, <2>3, <2>4, <2>5
    <2> QED
      BY <2>6 DEF OneSender
  <1>11. ASSUME NEW w \in Workers, ForgetSent(w)
        PROVE  OneSender'
    <2>1. ASSUME NEW r \in Sessions, NEW u \in Threads
          PROVE  (Owns(u, r)' <=> Owns(u, r)) /\ (pc'[u] = "post" <=> pc[u] = "post")
      BY <1>11, <1>a, <1>b DEF Owns, ForgetSent, Goto
    <2>2. UNCHANGED <<isSend, flight, up, queue>>
      BY <1>11 DEF ForgetSent
    <2> QED
      BY <1>f, <2>1, <2>2 DEF OneSender
  <1>12. ASSUME NEW w \in Workers, SendComplete(w)
        PROVE  OneSender'
    <2>0. PICK s \in Sessions : s = at[w]
      BY <1>12, <1>a, RoleFacts DEF SendComplete, Goto, Indoors
    <2>1. /\ pc[w] = "dequeue" /\ pc' = [pc EXCEPT ![w] = "claim"]
          /\ isSend' = [isSend EXCEPT ![s] = FALSE]
          /\ UNCHANGED <<at, flight, up, queue>>
      BY <1>12, <2>0 DEF SendComplete, Goto, SendIdle
    <2>2. Owns(w, s) /\ w \in Threads
      BY <1>a, <2>0, <2>1 DEF Owns
    <2>3. flight[s] = <<>> /\ \A u \in Threads : Owns(u, s) => u = w
      BY <1>c, <2>2 DEF SenderAt
    <2>4. ASSUME NEW r \in Sessions PROVE SenderAt(r)'
      <3>1. CASE r = s
        <4>1. ~isSend'[s] /\ flight'[s] = <<>>
          BY <1>b, <2>1, <2>3
        <4>2. \A u \in Threads : ~Owns(u, s)'
          BY <1>b, <2>1, <2>3 DEF Owns
        <4> QED
          BY <3>1, <4>1, <4>2 DEF SenderAt
      <3>2. CASE r # s
        <4>1. isSend'[r] = isSend[r]
          BY <1>b, <2>1, <3>2
        <4>2. \A u \in Threads : (Owns(u, r)' <=> Owns(u, r)) /\ (Owns(u, r) => pc'[u] = pc[u])
          BY <1>b, <2>0, <2>1, <3>2 DEF Owns
        <4> QED
          BY <1>f, <2>1, <4>1, <4>2
      <3> QED
        BY <3>1, <3>2
    <2> QED
      BY <2>4 DEF OneSender
  <1>13. CASE TakeRequest
    <2>1. ASSUME NEW r \in Sessions, NEW u \in Threads
          PROVE  (Owns(u, r)' <=> Owns(u, r)) /\ (Owns(u, r) => pc'[u] = pc[u])
      BY <1>13, <1>a, <1>b DEF Owns, TakeRequest, Goto, Resume
    <2>2. UNCHANGED <<isSend, flight, up, queue>>
      BY <1>13 DEF TakeRequest
    <2> QED
      BY <1>f, <2>1, <2>2 DEF OneSender
  <1>14. CASE NoResponse
    <2>1. ASSUME NEW r \in Sessions, NEW u \in Threads
          PROVE  (Owns(u, r)' <=> Owns(u, r)) /\ (Owns(u, r) => pc'[u] = pc[u])
      BY <1>14, <1>a, <1>b DEF Owns, NoResponse, Goto, Resume
    <2>2. UNCHANGED <<isSend, flight, up, queue>>
      BY <1>14 DEF NoResponse
    <2> QED
      BY <1>f, <2>1, <2>2 DEF OneSender
  <1>15. CASE Respond
    <2>1. ASSUME NEW r \in Sessions, NEW u \in Threads
          PROVE  (Owns(u, r)' <=> Owns(u, r)) /\ (Owns(u, r) => pc'[u] = pc[u])
      BY <1>15, <1>a, <1>b DEF Owns, Respond, Goto, Resume
    <2>2. UNCHANGED <<isSend, flight, up, queue>>
      BY <1>15 DEF Respond
    <2> QED
      BY <1>f, <2>1, <2>2 DEF OneSender
  <1>16. CASE Enqueue
    <2>1. ASSUME NEW r \in Sessions, NEW u \in Threads
          PROVE  (Owns(u, r)' <=> Owns(u, r)) /\ (Owns(u, r) => pc'[u] = pc[u])
      BY <1>16, <1>a, <1>b DEF Owns, Enqueue, Goto
    <2>2. UNCHANGED <<isSend, flight, up>>
      BY <1>16 DEF Enqueue
    <2>3. \A r \in Sessions : queue[r] # <<>> => queue'[r] # <<>>
      <3>1. /\ queue' = [queue EXCEPT ![at[Update]] = Append(@, parcel[Update])]
            /\ parcel[Update] \in Messages
        BY <1>16, <1>a, RoleFacts DEF Enqueue, Goto, SendingSteps
      <3>2. ASSUME NEW r \in Sessions, queue[r] # <<>> PROVE queue'[r] # <<>>
        <4>1. queue[r] \in Seq(Messages)
          BY <1>a DEF TypeOK
        <4>2. queue'[r] = queue[r] \/ queue'[r] = Append(queue[r], parcel[Update])
          BY <1>b, <3>1
        <4>3. Append(queue[r], parcel[Update]) # <<>>
          BY <3>1, <4>1
        <4> QED
          BY <3>2, <4>2, <4>3
      <3> QED
        BY <3>2
    <2> QED
      BY <1>f, <2>1, <2>2, <2>3 DEF OneSender
  <1>17. CASE ForgetResponse
    <2>1. ASSUME NEW r \in Sessions, NEW u \in Threads
          PROVE  (Owns(u, r)' <=> Owns(u, r)) /\ (Owns(u, r) => pc'[u] = pc[u])
      BY <1>17, <1>a, <1>b DEF Owns, ForgetResponse, Goto, Resume
    <2>2. UNCHANGED <<isSend, flight, up, queue>>
      BY <1>17 DEF ForgetResponse
    <2> QED
      BY <1>f, <2>1, <2>2 DEF OneSender
  <1>18. CASE Finish
    <2>1. ASSUME NEW r \in Sessions, NEW u \in Threads
          PROVE  (Owns(u, r)' <=> Owns(u, r)) /\ (Owns(u, r) => pc'[u] = pc[u])
      BY <1>18, <1>a, <1>b DEF Owns, Finish, Goto, Resume
    <2>2. UNCHANGED <<isSend, flight, up, queue>>
      BY <1>18 DEF Finish
    <2> QED
      BY <1>f, <2>1, <2>2 DEF OneSender
  <1>19. ASSUME NEW s \in Sessions, Enter(s)
        PROVE  OneSender'
    <2>1. ASSUME NEW r \in Sessions, NEW u \in Threads
          PROVE  (Owns(u, r)' <=> Owns(u, r)) /\ (Owns(u, r) => pc'[u] = pc[u])
      BY <1>19, <1>a, <1>b DEF Owns, Enter
    <2>2. UNCHANGED <<isSend, flight, up, queue>>
      BY <1>19 DEF Enter
    <2> QED
      BY <1>f, <2>1, <2>2 DEF OneSender
  <1>20. ASSUME NEW w \in Workers, NEW s \in Sessions, TakeSend(w, s)
        PROVE  OneSender'
    <2>1. /\ pc[w] = "idle" /\ pc' = [pc EXCEPT ![w] = "dequeue"] /\ at' = [at EXCEPT ![w] = s]
          /\ flight[s] # <<>> /\ flight' = [flight EXCEPT ![s] = <<>>]
          /\ UNCHANGED <<isSend, up, queue>>
      BY <1>20 DEF TakeSend, Goto
    <2>2. at[w] = Null /\ w \in Threads /\ s # Null
      BY <1>a, <1>d, <2>1
    <2>3. isSend[s] /\ \A u \in Threads : ~Owns(u, s)
      BY <1>c, <2>1 DEF SenderAt
    <2>4. ASSUME NEW r \in Sessions PROVE SenderAt(r)'
      <3>1. CASE r = s
        <4>1. isSend'[s] /\ flight'[s] = <<>> /\ pc'[w] = "dequeue"
          BY <1>a, <1>b, <2>1, <2>3
        <4>2. \A u \in Threads : Owns(u, s)' <=> u = w
          BY <1>b, <2>1, <2>2, <2>3 DEF Owns
        <4> QED
          BY <3>1, <2>2, <4>1, <4>2 DEF SenderAt
      <3>2. CASE r # s
        <4>1. flight'[r] = flight[r]
          BY <1>b, <2>1, <3>2
        <4>2. \A u \in Threads : (Owns(u, r)' <=> Owns(u, r)) /\ (Owns(u, r) => pc'[u] = pc[u])
          BY <1>a, <1>b, <2>1, <2>2, <3>2 DEF Owns
        <4> QED
          BY <1>f, <2>1, <4>1, <4>2
      <3> QED
        BY <3>1, <3>2
    <2> QED
      BY <2>4 DEF OneSender
  <1>21. ASSUME NEW w \in Workers, NEW s \in Sessions, TakeBroken(w, s)
        PROVE  OneSender'
    <2>1. /\ pc[w] = "idle" /\ pc' = [pc EXCEPT ![w] = "leave"] /\ at' = [at EXCEPT ![w] = s]
          /\ ~up[s] /\ UNCHANGED <<isSend, up, queue>>
          /\ flight' = flight \/ flight' = [flight EXCEPT ![s] = <<>>]
      BY <1>21 DEF TakeBroken, Goto
    <2>2. \A u \in Threads : \A r \in Sessions :
             (Owns(u, r)' <=> Owns(u, r)) /\ (Owns(u, r) => pc'[u] = pc[u])
      BY <1>a, <1>b, <2>1 DEF Owns
    <2>3. ASSUME NEW r \in Sessions PROVE SenderAt(r)'
      <3>1. CASE r = s
        <4>1. flight'[s] = flight[s] \/ flight'[s] = <<>>
          BY <1>b, <2>1
        <4> QED
          BY <1>c, <2>1, <2>2, <3>1, <4>1 DEF SenderAt
      <3>2. CASE r # s
        <4>1. flight'[r] = flight[r]
          BY <1>b, <2>1, <3>2
        <4> QED
          BY <1>f, <2>1, <2>2, <4>1
      <3> QED
        BY <3>1, <3>2
    <2> QED
      BY <2>3 DEF OneSender
  <1>22. ASSUME NEW s \in Sessions, Break(s)
        PROVE  OneSender'
    <2>1. /\ up' = [up EXCEPT ![s] = FALSE] /\ UNCHANGED <<pc, at, isSend, flight, queue>>
      BY <1>22 DEF Break
    <2>2. \A r \in Sessions : up'[r] => up[r]
      BY <1>b, <2>1
    <2> QED
      BY <1>f, <2>1, <2>2 DEF OneSender, Owns
  <1>23. ASSUME NEW w \in Workers, NEW s \in Sessions, Receive(w, s)
        PROVE  OneSender'
    <2>1. /\ pc[w] = "idle" /\ pc' = [pc EXCEPT ![w] = "onrecv"] /\ at' = [at EXCEPT ![w] = s]
          /\ UNCHANGED <<isSend, up, queue, flight>>
      BY <1>23 DEF Receive, Goto
    <2>2. \A u \in Threads : \A r \in Sessions :
             (Owns(u, r)' <=> Owns(u, r)) /\ (Owns(u, r) => pc'[u] = pc[u])
      BY <1>a, <1>b, <2>1 DEF Owns
    <2> QED
      BY <1>f, <2>1, <2>2 DEF OneSender
  <1> QED
    BY <1>1, <1>2, <1>3, <1>4, <1>5, <1>6, <1>7, <1>8, <1>9, <1>10, <1>11, <1>12,
       <1>13, <1>14, <1>15, <1>16, <1>17, <1>18, <1>19, <1>20, <1>21, <1>22, <1>23
       DEF Next, Run, PostSend, Leaving, Complete, Threads

LEMMA StepUnsent ==
    ASSUME Inv, [Next]_vars
    PROVE  QueueIsUnsent'
  <1> USE DEF pool, sending, session, locals, vars
  <1>a. /\ TypeOK /\ Roles /\ Update \in Threads /\ Workers \subseteq Threads /\ Update \notin Workers
        /\ \A t \in Threads : t = Update \/ t \in Workers
        /\ Null \notin Sessions
        /\ \A w \in Workers : pc[w] = "idle" => at[w] = Null
    BY Finite, ThreadsOK DEF Inv, Threads, Roles
  <1>b. /\ DOMAIN pc = Threads /\ DOMAIN at = Threads /\ DOMAIN unsent = Sessions
        /\ DOMAIN flight = Sessions /\ DOMAIN queue = Sessions /\ DOMAIN count = Sessions
    BY <1>a DEF TypeOK
  <1>c. \A s \in Sessions : UnsentAt(s) /\ SenderAt(s)
    BY DEF Inv, QueueIsUnsent, OneSender
  <1>d. \A s \in Sessions :
           /\ queue[s] \in Seq(Messages) /\ unsent[s] \in Seq(1 .. MaxReceives)
           /\ Len(queue[s]) \in Nat /\ Len(unsent[s]) \in Nat /\ count[s] \in Nat
           /\ Sent(s) \in Nat
    BY <1>a, ThreadsOK DEF TypeOK, Sent
  \* What lies in a queue before and after the step keeps its stamp.
  <1>e. ASSUME NEW s \in Sessions, NEW i \in 1 .. Len(queue[s]), NEW j \in 1 .. Len(queue'[s]),
               queue'[s][j] = queue[s][i]
        PROVE  stamp'[queue'[s][j]] = stamp[queue[s][i]]
    <2>1. HeldIsOut /\ HeldIsOut'
      BY StepType, StepLength, StepRef, HeldLive, HeldLiveNext DEF Inv
    <2>2. queue[s][i] \in out /\ queue'[s][j] \in out'
      BY <2>1 DEF HeldIsOut
    <2> QED
      BY <1>e, <2>2, StepStamp
  \* A session whose queue the step leaves alone.
  <1>f. ASSUME NEW s \in Sessions, queue'[s] = queue[s], unsent'[s] = unsent[s],
               flight'[s] = flight[s] \/ flight'[s] = <<>>, count'[s] = count[s] \/ flight'[s] = <<>>,
               Sent(s)' = Sent(s), released[s] => released'[s]
        PROVE  UnsentAt(s)'
    <2> SUFFICES ASSUME ~released[s]
                 PROVE  /\ Len(queue'[s]) = Sent(s)' + Len(unsent'[s])
                        /\ \A i \in 1 .. Len(unsent'[s]) :
                              stamp'[queue'[s][Sent(s)' + i]] = unsent'[s][i]
                        /\ flight'[s] # <<>> => /\ count'[s] \in 1 .. Len(queue'[s])
                                                /\ flight'[s] = SubSeq(queue'[s], 1, count'[s])
      BY <1>f DEF UnsentAt
    <2>1. /\ Len(queue[s]) = Sent(s) + Len(unsent[s])
          /\ \A i \in 1 .. Len(unsent[s]) : stamp[queue[s][Sent(s) + i]] = unsent[s][i]
          /\ flight[s] # <<>> => /\ count[s] \in 1 .. Len(queue[s])
                                 /\ flight[s] = SubSeq(queue[s], 1, count[s])
      BY <1>c DEF UnsentAt
    <2>2. \A i \in 1 .. Len(unsent[s]) : Sent(s) + i \in 1 .. Len(queue[s])
      BY <1>d, <2>1
    <2>3. \A i \in 1 .. Len(unsent[s]) : stamp'[queue'[s][Sent(s) + i]] = stamp[queue[s][Sent(s) + i]]
      BY <1>e, <1>f, <2>2
    <2> QED
      BY <1>f, <2>1, <2>3
  <1>g. ASSUME NEW s \in Sessions, count'[s] = count[s],
               \A t \in Threads : (at'[t] = s /\ pc'[t] \in {"dequeue", "subref"})
                                    <=> (at[t] = s /\ pc[t] \in {"dequeue", "subref"})
        PROVE  Sent(s)' = Sent(s)
    BY <1>g DEF Sent, Completing
  <1>1. CASE UNCHANGED vars
    BY <1>1, <1>f, <1>g DEF QueueIsUnsent
  <1>2. ASSUME NEW t \in Threads, Claim(t)
        PROVE  QueueIsUnsent'
    <2>1. UNCHANGED <<queue, unsent, flight, count, released>>
      BY <1>2 DEF Claim, SendIdle
    <2>2. ASSUME NEW r \in Sessions PROVE Sent(r)' = Sent(r)
      <3>1. \A u \in Threads : (at'[u] = r /\ pc'[u] \in {"dequeue", "subref"})
                                  <=> (at[u] = r /\ pc[u] \in {"dequeue", "subref"})
        BY <1>2, <1>a, <1>b DEF Claim, Goto, SendIdle
      <3> QED
        BY <1>g, <2>1, <3>1
    <2> QED
      BY <1>f, <2>1, <2>2 DEF QueueIsUnsent
  <1>3. ASSUME NEW t \in Threads, Post(t)
        PROVE  QueueIsUnsent'
    <2>0. PICK s \in Sessions : s = at[t]
      BY <1>3, <1>a, RoleFacts DEF Post, Goto, Indoors
    <2> DEFINE n == IF Len(queue[s]) < Batch THEN Len(queue[s]) ELSE Batch
    <2>1. /\ pc[t] = "post" /\ pc' = [pc EXCEPT ![t] = "leave"]
          /\ count' = [count EXCEPT ![s] = n]
          /\ UNCHANGED <<at, unsent, queue, released>>
          /\ UNCHANGED flight \/ flight' = [flight EXCEPT ![s] = SubSeq(queue[s], 1, n)]
      BY <1>3, <2>0 DEF Post, Goto
    <2>2. /\ flight[s] = <<>> /\ queue[s] # <<>>
          /\ \A u \in Threads : Owns(u, s) => u = t
      BY <1>c, <2>0, <2>1 DEF SenderAt, Owns
    <2>3. Sent(s) = 0 /\ Sent(s)' = 0
      <3>1. ~Completing(s) /\ ~Completing(s)'
        BY <1>b, <2>1, <2>2 DEF Completing, Owns
      <3> QED
        BY <3>1 DEF Sent
    <2>4. flight'[s] = <<>> \/ (n \in 1 .. Len(queue[s]) /\ count'[s] = n /\ flight'[s] = SubSeq(queue[s], 1, n))
      <3>1. Len(queue[s]) \in Nat \ {0} /\ Batch \in Nat \ {0}
        BY <1>d, <2>2, ThreadsOK
      <3>2. n \in 1 .. Len(queue[s])
        BY <3>1
      <3> HIDE DEF n
      <3> QED
        BY <1>b, <2>1, <2>2, <3>2
    <2> HIDE DEF n
    <2>5. UnsentAt(s)'
      <3>1. CASE flight'[s] = <<>>
        BY <1>f, <2>1, <2>3, <3>1
      <3>2. CASE n \in 1 .. Len(queue[s]) /\ count'[s] = n /\ flight'[s] = SubSeq(queue[s], 1, n)
        <4> SUFFICES ASSUME ~released[s]
                     PROVE  /\ Len(queue[s]) = 0 + Len(unsent[s])
                            /\ \A i \in 1 .. Len(unsent[s]) : stamp'[queue[s][0 + i]] = unsent[s][i]
          BY <2>1, <2>3, <3>2 DEF UnsentAt
        <4>1. /\ Len(queue[s]) = 0 + Len(unsent[s])
              /\ \A i \in 1 .. Len(unsent[s]) : stamp[queue[s][0 + i]] = unsent[s][i]
          BY <1>c, <2>3 DEF UnsentAt
        <4>2. UNCHANGED stamp
          BY <1>3 DEF Post
        <4> QED
          BY <4>1, <4>2
      <3> QED
        BY <2>4, <3>1, <3>2
    <2>6. ASSUME NEW r \in Sessions, r # s PROVE UnsentAt(r)'
      <3>1. count'[r] = count[r] /\ flight'[r] = flight[r]
        BY <1>b, <2>1, <2>6
      <3>2. Sent(r)' = Sent(r)
        BY <1>b, <1>g, <2>1, <3>1
      <3> QED
        BY <1>f, <2>1, <3>1, <3>2
    <2> QED
      BY <2>5, <2>6 DEF QueueIsUnsent
  <1>4. ASSUME NEW t \in Threads, Leave(t)
        PROVE  QueueIsUnsent'
    <2>1. UNCHANGED <<queue, unsent, flight, count>>
      BY <1>4 DEF Leave
    <2>2. at[t] \in Sessions /\ released \in [Sessions -> BOOLEAN]
      BY <1>4, <1>a, RoleFacts DEF Leave, Goto, Indoors, TypeOK
    <2>3. ASSUME NEW r \in Sessions PROVE Sent(r)' = Sent(r) /\ (released[r] => released'[r])
      <3>1. \A u \in Threads : (at'[u] = r /\ pc'[u] \in {"dequeue", "subref"})
                                  <=> (at[u] = r /\ pc[u] \in {"dequeue", "subref"})
        BY <1>4, <1>a, <1>b DEF Leave, Goto, Resume
      <3>2. released[r] => released'[r]
        BY <1>4, <2>2 DEF Leave
      <3> QED
        BY <1>g, <2>1, <3>1, <3>2
    <2> QED
      BY <1>f, <2>1, <2>3 DEF QueueIsUnsent
  <1>5. ASSUME NEW t \in Threads, Drain(t)
        PROVE  QueueIsUnsent'
    <2>0. PICK s \in Sessions : s = at[t]
      BY <1>5, <1>a, RoleFacts DEF Drain, Indoors
    <2>1. /\ pc[t] = "drain" /\ queue' = [queue EXCEPT ![s] = Tail(@)]
          /\ UNCHANGED <<pc, at, unsent, flight, count, released>>
      BY <1>5, <2>0 DEF Drain
    <2>2. released'[s]
      BY <2>0, <2>1 DEF Inv, DrainReleased
    <2>3. UnsentAt(s)'
      BY <2>2 DEF UnsentAt
    <2>4. ASSUME NEW r \in Sessions, r # s PROVE UnsentAt(r)'
      <3>1. queue'[r] = queue[r]
        BY <1>b, <2>1, <2>4
      <3>2. Sent(r)' = Sent(r)
        BY <1>g, <2>1
      <3> QED
        BY <1>f, <2>1, <3>1, <3>2
    <2> QED
      BY <2>3, <2>4 DEF QueueIsUnsent
  <1>6. ASSUME NEW t \in Threads, Release(t)
        PROVE  QueueIsUnsent'
    <2>0. PICK s \in Sessions : s = at[t]
      BY <1>6, <1>a, RoleFacts DEF Release, Goto, Indoors
    <2>1. /\ pc[t] = "drain" /\ pc' = [pc EXCEPT ![t] = Resume(t)] /\ at' = [at EXCEPT ![t] = Null]
          /\ count' = [count EXCEPT ![s] = 0] /\ unsent' = [unsent EXCEPT ![s] = <<>>]
          /\ UNCHANGED <<queue, flight, released>>
      BY <1>6, <2>0 DEF Release, Goto
    <2>2. UnsentAt(s)'
      BY <2>0, <2>1 DEF Inv, DrainReleased, UnsentAt
    <2>3. ASSUME NEW r \in Sessions, r # s PROVE UnsentAt(r)'
      <3>1. count'[r] = count[r] /\ unsent'[r] = unsent[r]
        BY <1>b, <2>1, <2>3
      <3>2. \A u \in Threads : (at'[u] = r /\ pc'[u] \in {"dequeue", "subref"})
                                  <=> (at[u] = r /\ pc[u] \in {"dequeue", "subref"})
        BY <1>a, <1>b, <2>1 DEF Resume
      <3>3. Sent(r)' = Sent(r)
        BY <1>g, <3>1, <3>2
      <3> QED
        BY <1>f, <2>1, <3>1, <3>3
    <2> QED
      BY <2>2, <2>3 DEF QueueIsUnsent
  <1>7. ASSUME NEW w \in Workers, OnRecv(w)
        PROVE  QueueIsUnsent'
    <2>1. UNCHANGED <<queue, unsent, flight, count, released>>
      BY <1>7 DEF OnRecv, SendIdle
    <2>2. ASSUME NEW r \in Sessions PROVE Sent(r)' = Sent(r)
      <3>1. \A u \in Threads : (at'[u] = r /\ pc'[u] \in {"dequeue", "subref"})
                                  <=> (at[u] = r /\ pc[u] \in {"dequeue", "subref"})
        BY <1>7, <1>a, <1>b DEF OnRecv, Goto, SendIdle
      <3> QED
        BY <1>g, <2>1, <3>1
    <2> QED
      BY <1>f, <2>1, <2>2 DEF QueueIsUnsent
  <1>8. ASSUME NEW w \in Workers, Forget(w)
        PROVE  QueueIsUnsent'
    <2>1. UNCHANGED <<queue, unsent, flight, count, released>>
      BY <1>8 DEF Forget, SendIdle
    <2>2. ASSUME NEW r \in Sessions PROVE Sent(r)' = Sent(r)
      <3>1. \A u \in Threads : (at'[u] = r /\ pc'[u] \in {"dequeue", "subref"})
                                  <=> (at[u] = r /\ pc[u] \in {"dequeue", "subref"})
        BY <1>8, <1>a, <1>b DEF Forget, Goto, SendIdle
      <3> QED
        BY <1>g, <2>1, <3>1
    <2> QED
      BY <1>f, <2>1, <2>2 DEF QueueIsUnsent
  <1>9. ASSUME NEW w \in Workers, PostRecv(w)
        PROVE  QueueIsUnsent'
    <2>1. UNCHANGED <<queue, unsent, flight, count, released>>
      BY <1>9 DEF PostRecv, SendIdle
    <2>2. ASSUME NEW r \in Sessions PROVE Sent(r)' = Sent(r)
      <3>1. \A u \in Threads : (at'[u] = r /\ pc'[u] \in {"dequeue", "subref"})
                                  <=> (at[u] = r /\ pc[u] \in {"dequeue", "subref"})
        BY <1>9, <1>a, <1>b DEF PostRecv, Goto, SendIdle
      <3> QED
        BY <1>g, <2>1, <3>1
    <2> QED
      BY <1>f, <2>1, <2>2 DEF QueueIsUnsent
  <1>10. ASSUME NEW w \in Workers, Dequeue(w)
        PROVE  QueueIsUnsent'
    <2>0. PICK s \in Sessions : s = at[w]
      BY <1>10, <1>a, BatchFacts DEF Inv, Dequeue
    <2>1. /\ pc[w] = "dequeue" /\ pc' = [pc EXCEPT ![w] = "subref"]
          /\ queue' = [queue EXCEPT ![s] = Tail(@)] /\ count' = [count EXCEPT ![s] = @ - 1]
          /\ count[s] > 0 /\ w \in Threads
          /\ UNCHANGED <<at, unsent, flight, released, stamp>>
      BY <1>10, <1>a, <2>0 DEF Dequeue
    <2>2. /\ ~released[s] /\ Sent(s) = count[s] /\ queue[s] # <<>>
          /\ Len(queue[s]) = count[s] + Len(unsent[s])
      BY <1>a, <2>0, <2>1, BatchFacts DEF Inv
    <2>3. \A r \in Sessions : \A u \in Threads :
             (at'[u] = r /\ pc'[u] \in {"dequeue", "subref"})
                 <=> (at[u] = r /\ pc[u] \in {"dequeue", "subref"})
      BY <1>b, <2>1
    <2>4. Completing(s)'
      BY <1>b, <2>0, <2>1 DEF Completing
    <2>5. count'[s] = count[s] - 1 /\ Sent(s)' = count[s] - 1 /\ queue'[s] = Tail(queue[s])
      BY <1>b, <2>1, <2>4 DEF Sent
    <2>6. flight'[s] = <<>>
      BY <1>c, <2>0, <2>1 DEF SenderAt, Owns
    <2>7. UnsentAt(s)'
      <3>1. Len(queue'[s]) = (count[s] - 1) + Len(unsent[s])
        <4>1. Len(queue'[s]) = Len(queue[s]) - 1
          BY <1>d, <2>2, <2>5
        <4>2. count[s] \in Nat /\ Len(unsent[s]) \in Nat
          BY <1>d
        <4> QED
          BY <2>2, <4>1, <4>2
      <3>2. ASSUME NEW i \in 1 .. Len(unsent[s])
            PROVE  stamp[queue'[s][(count[s] - 1) + i]] = unsent[s][i]
        <4>1. /\ (count[s] - 1) + i \in 1 .. Len(queue[s]) - 1
              /\ ((count[s] - 1) + i) + 1 = count[s] + i
          BY <1>d, <2>1, <2>2
        <4>2. queue'[s][(count[s] - 1) + i] = queue[s][((count[s] - 1) + i) + 1]
          BY <1>d, <2>2, <2>5, <4>1
        <4>3. stamp[queue[s][count[s] + i]] = unsent[s][i]
          BY <1>c, <2>2 DEF UnsentAt
        <4> QED
          BY <4>1, <4>2, <4>3
      <3> QED
        BY <2>1, <2>5, <2>6, <3>1, <3>2 DEF UnsentAt
    <2>8. ASSUME NEW r \in Sessions, r # s PROVE UnsentAt(r)'
      <3>1. queue'[r] = queue[r] /\ count'[r] = count[r]
        BY <1>b, <2>1, <2>8
      <3>2. Sent(r)' = Sent(r)
        BY <1>g, <2>3, <3>1
      <3> QED
        BY <1>f, <2>1, <3>1, <3>2
    <2> QED
      BY <2>7, <2>8 DEF QueueIsUnsent
  <1>11. ASSUME NEW w \in Workers, ForgetSent(w)
        PROVE  QueueIsUnsent'
    <2>1. UNCHANGED <<queue, unsent, flight, count, released>>
      BY <1>11 DEF ForgetSent, SendIdle
    <2>2. ASSUME NEW r \in Sessions PROVE Sent(r)' = Sent(r)
      <3>1. \A u \in Threads : (at'[u] = r /\ pc'[u] \in {"dequeue", "subref"})
                                  <=> (at[u] = r /\ pc[u] \in {"dequeue", "subref"})
        BY <1>11, <1>a, <1>b DEF ForgetSent, Goto, SendIdle
      <3> QED
        BY <1>g, <2>1, <3>1
    <2> QED
      BY <1>f, <2>1, <2>2 DEF QueueIsUnsent
  <1>12. ASSUME NEW w \in Workers, SendComplete(w)
        PROVE  QueueIsUnsent'
    <2>0. PICK s \in Sessions : s = at[w]
      BY <1>12, <1>a, RoleFacts DEF SendComplete, Goto, Indoors
    <2>1. /\ pc[w] = "dequeue" /\ pc' = [pc EXCEPT ![w] = "claim"] /\ w \in Threads
          /\ count[s] = 0 /\ UNCHANGED <<at, unsent, flight, released, queue, count>>
      BY <1>12, <1>a, <2>0 DEF SendComplete, Goto, SendIdle
    <2>2. ASSUME NEW r \in Sessions PROVE Sent(r)' = Sent(r)
      <3>1. CASE r = s
        BY <2>1, <3>1 DEF Sent
      <3>2. CASE r # s
        BY <1>b, <1>g, <2>0, <2>1, <3>2
      <3> QED
        BY <3>1, <3>2
    <2> QED
      BY <1>f, <2>1, <2>2 DEF QueueIsUnsent
  <1>13. CASE TakeRequest
    <2>1. UNCHANGED <<queue, unsent, flight, count, released>>
      BY <1>13 DEF TakeRequest, SendIdle
    <2>2. ASSUME NEW r \in Sessions PROVE Sent(r)' = Sent(r)
      <3>1. \A u \in Threads : (at'[u] = r /\ pc'[u] \in {"dequeue", "subref"})
                                  <=> (at[u] = r /\ pc[u] \in {"dequeue", "subref"})
        BY <1>13, <1>a, <1>b DEF TakeRequest, Goto, SendIdle
      <3> QED
        BY <1>g, <2>1, <3>1
    <2> QED
      BY <1>f, <2>1, <2>2 DEF QueueIsUnsent
  <1>14. CASE NoResponse
    <2>1. UNCHANGED <<queue, unsent, flight, count, released>>
      BY <1>14 DEF NoResponse, SendIdle
    <2>2. ASSUME NEW r \in Sessions PROVE Sent(r)' = Sent(r)
      <3>1. \A u \in Threads : (at'[u] = r /\ pc'[u] \in {"dequeue", "subref"})
                                  <=> (at[u] = r /\ pc[u] \in {"dequeue", "subref"})
        BY <1>14, <1>a, <1>b DEF NoResponse, Goto, SendIdle
      <3> QED
        BY <1>g, <2>1, <3>1
    <2> QED
      BY <1>f, <2>1, <2>2 DEF QueueIsUnsent
  <1>15. CASE Respond
    <2>1. UNCHANGED <<queue, unsent, flight, count, released>>
      BY <1>15 DEF Respond, SendIdle
    <2>2. ASSUME NEW r \in Sessions PROVE Sent(r)' = Sent(r)
      <3>1. \A u \in Threads : (at'[u] = r /\ pc'[u] \in {"dequeue", "subref"})
                                  <=> (at[u] = r /\ pc[u] \in {"dequeue", "subref"})
        BY <1>15, <1>a, <1>b DEF Respond, Goto, SendIdle
      <3> QED
        BY <1>g, <2>1, <3>1
    <2> QED
      BY <1>f, <2>1, <2>2 DEF QueueIsUnsent
  <1>16. CASE Enqueue
    <2>0. PICK s \in Sessions : s = at[Update]
      BY <1>16, <1>a, RoleFacts DEF Enqueue, Goto, Indoors
    <2>1. PICK x \in Messages : x = parcel[Update]
      BY <1>16, <1>a, RoleFacts DEF Enqueue, Goto, SendingSteps
    <2>2. /\ pc[Update] = "enqueue" /\ pc' = [pc EXCEPT ![Update] = "claim"]
          /\ queue' = [queue EXCEPT ![s] = Append(@, x)]
          /\ unsent' = [unsent EXCEPT ![s] = Append(@, stamp[x])]
          /\ UNCHANGED <<at, count, flight, released, stamp>>
      BY <1>16, <2>0, <2>1 DEF Enqueue, Goto
    <2>3. ASSUME NEW r \in Sessions PROVE Sent(r)' = Sent(r)
      BY <1>a, <1>b, <1>g, <2>2
    <2>4. ASSUME ~released[s] PROVE UnsentAt(s)'
      <3> DEFINE n == Len(queue[s])
                 k == Len(unsent[s])
                 z == stamp[x]
      <3>1. /\ n = Sent(s) + k
            /\ \A i \in 1 .. k : stamp[queue[s][Sent(s) + i]] = unsent[s][i]
            /\ flight[s] # <<>> => /\ count[s] \in 1 .. n
                                   /\ flight[s] = SubSeq(queue[s], 1, count[s])
        BY <1>c, <2>4 DEF UnsentAt
      <3>2. queue'[s] = Append(queue[s], x) /\ unsent'[s] = Append(unsent[s], z)
        BY <1>b, <2>2
      <3>3. z \in 1 .. MaxReceives
        BY <1>16, <1>a, <2>1, RoleFacts DEF Enqueue, Goto, SendingSteps
      <3> HIDE DEF z
      <3>4. /\ Len(queue'[s]) = n + 1 /\ queue'[s][n + 1] = x
            /\ \A i \in 1 .. n : queue'[s][i] = queue[s][i]
        BY <1>d, <2>1, <3>2
      <3>5. /\ Len(unsent'[s]) = k + 1 /\ unsent'[s][k + 1] = z
            /\ \A i \in 1 .. k : unsent'[s][i] = unsent[s][i]
        BY <1>d, <3>2, <3>3
      <3>6. n \in Nat /\ k \in Nat /\ Sent(s) \in Nat
        BY <1>d
      <3> HIDE DEF n, k
      <3>7. Len(queue'[s]) = Sent(s)' + Len(unsent'[s])
        BY <2>3, <3>1, <3>4, <3>5, <3>6
      <3>8. ASSUME NEW i \in 1 .. Len(unsent'[s])
            PROVE  stamp'[queue'[s][Sent(s)' + i]] = unsent'[s][i]
        <4>1. CASE i \in 1 .. k
          <5>1. Sent(s) + i \in 1 .. n
            BY <3>1, <3>6, <4>1
          <5> QED
            BY <2>2, <2>3, <3>1, <3>4, <3>5, <4>1, <5>1
        <4>2. CASE i = k + 1
          <5>1. Sent(s) + i = n + 1
            BY <3>1, <3>6, <4>2
          <5> QED
            BY <2>2, <2>3, <3>4, <3>5, <4>2, <5>1 DEF z
        <4> QED
          BY <3>5, <3>6, <4>1, <4>2
      <3>9. flight'[s] # <<>> => /\ count'[s] \in 1 .. Len(queue'[s])
                                 /\ flight'[s] = SubSeq(queue'[s], 1, count'[s])
        <4> SUFFICES ASSUME flight[s] # <<>>
                     PROVE  /\ count[s] \in 1 .. n + 1
                            /\ flight[s] = SubSeq(queue'[s], 1, count[s])
          BY <2>2, <3>4
        <4>1. count[s] \in 1 .. n /\ flight[s] = SubSeq(queue[s], 1, count[s])
          BY <3>1
        <4>2. \A i \in 1 .. count[s] : i \in 1 .. n
          BY <3>6, <4>1
        <4>3. \A i \in 1 .. count[s] : queue'[s][i] = queue[s][i]
          BY <3>4, <4>2
        <4>4. SubSeq(queue'[s], 1, count[s]) = SubSeq(queue[s], 1, count[s])
          <5> DEFINE a == SubSeq(queue'[s], 1, count[s])
                     b == SubSeq(queue[s], 1, count[s])
          <5>1. \A i \in 1 .. count[s] : queue[s][i] \in Messages /\ queue'[s][i] \in Messages
            BY <1>d, <4>2, <4>3, ElementOfSeq DEF n
          <5>2. count[s] \in Nat /\ 1 \in Int
            BY <1>d
          <5>3. /\ a \in Seq(Messages) /\ Len(a) = count[s]
                /\ \A i \in 1 .. count[s] : a[i] = queue'[s][i]
            <6>1. /\ a \in Seq(Messages) /\ Len(a) = IF 1 <= count[s] THEN count[s] - 1 + 1 ELSE 0
                  /\ \A i \in 1 .. count[s] - 1 + 1 : a[i] = queue'[s][1 + i - 1]
              BY <5>1, <5>2, SubSeqProperties
            <6> HIDE DEF a
            <6> QED
              BY <5>2, <6>1
          <5>4. /\ b \in Seq(Messages) /\ Len(b) = count[s]
                /\ \A i \in 1 .. count[s] : b[i] = queue[s][i]
            <6>1. /\ b \in Seq(Messages) /\ Len(b) = IF 1 <= count[s] THEN count[s] - 1 + 1 ELSE 0
                  /\ \A i \in 1 .. count[s] - 1 + 1 : b[i] = queue[s][1 + i - 1]
              BY <5>1, <5>2, SubSeqProperties
            <6> HIDE DEF b
            <6> QED
              BY <5>2, <6>1
          <5> HIDE DEF a, b
          <5>5. a = b
            BY <4>3, <5>3, <5>4, SeqEqual
          <5> QED
            BY <5>5 DEF a, b
        <4> QED
          BY <3>6, <4>1, <4>4
      <3> QED
        BY <3>7, <3>8, <3>9 DEF UnsentAt
    <2>5. ASSUME NEW r \in Sessions, r # s PROVE UnsentAt(r)'
      <3>1. queue'[r] = queue[r] /\ unsent'[r] = unsent[r]
        BY <1>b, <2>2, <2>5
      <3> QED
        BY <1>f, <2>2, <2>3, <3>1
    <2>6. CASE released[s]
      BY <2>2, <2>5, <2>6 DEF QueueIsUnsent, UnsentAt
    <2> QED
      BY <2>4, <2>5, <2>6 DEF QueueIsUnsent
  <1>17. CASE ForgetResponse
    <2>1. UNCHANGED <<queue, unsent, flight, count, released>>
      BY <1>17 DEF ForgetResponse, SendIdle
    <2>2. ASSUME NEW r \in Sessions PROVE Sent(r)' = Sent(r)
      <3>1. \A u \in Threads : (at'[u] = r /\ pc'[u] \in {"dequeue", "subref"})
                                  <=> (at[u] = r /\ pc[u] \in {"dequeue", "subref"})
        BY <1>17, <1>a, <1>b DEF ForgetResponse, Goto, SendIdle
      <3> QED
        BY <1>g, <2>1, <3>1
    <2> QED
      BY <1>f, <2>1, <2>2 DEF QueueIsUnsent
  <1>18. CASE Finish
    <2>1. UNCHANGED <<queue, unsent, flight, count, released>>
      BY <1>18 DEF Finish, SendIdle
    <2>2. ASSUME NEW r \in Sessions PROVE Sent(r)' = Sent(r)
      <3>1. \A u \in Threads : (at'[u] = r /\ pc'[u] \in {"dequeue", "subref"})
                                  <=> (at[u] = r /\ pc[u] \in {"dequeue", "subref"})
        BY <1>18, <1>a, <1>b DEF Finish, Goto, SendIdle
      <3> QED
        BY <1>g, <2>1, <3>1
    <2> QED
      BY <1>f, <2>1, <2>2 DEF QueueIsUnsent
  <1>19. ASSUME NEW s \in Sessions, Enter(s)
        PROVE  QueueIsUnsent'
    <2>1. UNCHANGED <<queue, unsent, flight, count, released>>
      BY <1>19 DEF Enter
    <2>2. ASSUME NEW r \in Sessions PROVE Sent(r)' = Sent(r)
      <3>1. \A u \in Threads : (at'[u] = r /\ pc'[u] \in {"dequeue", "subref"})
                                  <=> (at[u] = r /\ pc[u] \in {"dequeue", "subref"})
        BY <1>19, <1>a, <1>b DEF Enter
      <3> QED
        BY <1>g, <2>1, <3>1
    <2> QED
      BY <1>f, <2>1, <2>2 DEF QueueIsUnsent
  <1>20. ASSUME NEW w \in Workers, NEW s \in Sessions, TakeSend(w, s)
        PROVE  QueueIsUnsent'
    <2>1. /\ pc[w] = "idle" /\ pc' = [pc EXCEPT ![w] = "dequeue"] /\ at' = [at EXCEPT ![w] = s]
          /\ flight[s] # <<>> /\ flight' = [flight EXCEPT ![s] = <<>>] /\ w \in Threads
          /\ unsent' = [unsent EXCEPT ![s] = SubSeq(@, Len(flight[s]) + 1, Len(@))]
          /\ UNCHANGED <<queue, count, released, stamp>>
      BY <1>20, <1>a DEF TakeSend, Goto
    <2>2. /\ ~released[s] /\ Sent(s) = 0 /\ Len(queue[s]) = Len(unsent[s])
          /\ Len(flight[s]) = count[s] /\ count[s] \in 1 .. Len(unsent[s])
      BY <2>1, FlightFacts DEF Inv
    <2>3. Completing(s)'
      BY <1>b, <2>1 DEF Completing
    <2>4. Sent(s)' = count[s]
      BY <2>1, <2>3 DEF Sent
    <2>5. unsent'[s] = SubSeq(unsent[s], count[s] + 1, Len(unsent[s]))
      BY <1>b, <2>1, <2>2
    <2>6. /\ Len(unsent'[s]) = Len(unsent[s]) - count[s]
          /\ \A i \in 1 .. Len(unsent[s]) - count[s] : unsent'[s][i] = unsent[s][count[s] + i]
      <3> DEFINE c == count[s]
                 k == Len(unsent[s])
                 u == unsent[s]
      <3>1. c \in 1 .. k /\ k \in Nat /\ u \in Seq(1 .. MaxReceives)
        BY <1>d, <2>2
      <3>2. \A i \in c + 1 .. k : u[i] \in 1 .. MaxReceives
        <4>1. \A i \in 1 .. k : u[i] \in 1 .. MaxReceives
          BY <1>d, ElementOfSeq
        <4> HIDE DEF c, k, u
        <4>2. \A i \in c + 1 .. k : i \in 1 .. k
          BY <3>1
        <4> QED
          BY <4>1, <4>2
      <3>3. unsent'[s] = SubSeq(u, c + 1, k)
        BY <2>5
      <3> HIDE DEF c, k, u
      <3>4. c + 1 \in Int /\ k \in Int
        BY <3>1
      <3>5. /\ Len(unsent'[s]) = IF c + 1 <= k THEN k - (c + 1) + 1 ELSE 0
            /\ \A i \in 1 .. k - (c + 1) + 1 : unsent'[s][i] = u[(c + 1) + i - 1]
        BY <3>2, <3>3, <3>4, SubSeqProperties
      <3>6. Len(unsent'[s]) = k - c
        BY <3>1, <3>5
      <3>7. ASSUME NEW i \in 1 .. k - c PROVE unsent'[s][i] = u[c + i]
        <4>1. i \in 1 .. k - (c + 1) + 1 /\ (c + 1) + i - 1 = c + i
          BY <3>1
        <4> QED
          BY <3>5, <4>1
      <3> QED
        BY <3>6, <3>7 DEF c, k, u
    <2>7. UnsentAt(s)'
      <3>1. Len(queue[s]) = count[s] + Len(unsent'[s])
        BY <1>d, <2>2, <2>6
      <3>2. ASSUME NEW i \in 1 .. Len(unsent'[s])
            PROVE  stamp[queue[s][count[s] + i]] = unsent'[s][i]
        <4>1. count[s] + i \in 1 .. Len(unsent[s]) /\ 0 + (count[s] + i) = count[s] + i
          BY <1>d, <2>2, <2>6
        <4>2. stamp[queue[s][0 + (count[s] + i)]] = unsent[s][count[s] + i]
          BY <1>c, <2>2, <4>1 DEF UnsentAt
        <4> QED
          BY <2>6, <4>1, <4>2
      <3>3. flight'[s] = <<>>
        BY <1>b, <2>1
      <3> QED
        BY <2>1, <2>4, <3>1, <3>2, <3>3 DEF UnsentAt
    <2>8. ASSUME NEW r \in Sessions, r # s PROVE UnsentAt(r)'
      <3>1. flight'[r] = flight[r] /\ unsent'[r] = unsent[r]
        BY <1>b, <2>1, <2>8
      <3>2. \A u \in Threads : (at'[u] = r /\ pc'[u] \in {"dequeue", "subref"})
                                  <=> (at[u] = r /\ pc[u] \in {"dequeue", "subref"})
        BY <1>a, <1>b, <2>1, <2>8
      <3>3. Sent(r)' = Sent(r)
        BY <1>g, <2>1, <3>2
      <3> QED
        BY <1>f, <2>1, <3>1, <3>3
    <2> QED
      BY <2>7, <2>8 DEF QueueIsUnsent
  <1>21. ASSUME NEW w \in Workers, NEW s \in Sessions, TakeBroken(w, s)
        PROVE  QueueIsUnsent'
    <2>1. /\ pc[w] = "idle" /\ pc' = [pc EXCEPT ![w] = "leave"] /\ at' = [at EXCEPT ![w] = s]
          /\ flight' = flight \/ flight' = [flight EXCEPT ![s] = <<>>]
          /\ UNCHANGED <<queue, unsent, count, released>>
      BY <1>21 DEF TakeBroken, Goto
    <2>2. ASSUME NEW r \in Sessions PROVE Sent(r)' = Sent(r)
      <3>1. \A u \in Threads : (at'[u] = r /\ pc'[u] \in {"dequeue", "subref"})
                                  <=> (at[u] = r /\ pc[u] \in {"dequeue", "subref"})
        BY <1>a, <1>b, <2>1
      <3> QED
        BY <1>g, <2>1, <3>1
    <2>3. \A r \in Sessions : flight'[r] = flight[r] \/ flight'[r] = <<>>
      BY <1>b, <2>1
    <2> QED
      BY <1>f, <2>1, <2>2, <2>3 DEF QueueIsUnsent
  <1>22. ASSUME NEW s \in Sessions, Break(s)
        PROVE  QueueIsUnsent'
    <2>1. UNCHANGED <<pc, at, queue, unsent, flight, count, released>>
      BY <1>22 DEF Break
    <2> QED
      BY <1>f, <1>g, <2>1 DEF QueueIsUnsent
  <1>23. ASSUME NEW w \in Workers, NEW s \in Sessions, Receive(w, s)
        PROVE  QueueIsUnsent'
    <2>1. /\ pc[w] = "idle" /\ pc' = [pc EXCEPT ![w] = "onrecv"] /\ at' = [at EXCEPT ![w] = s]
          /\ UNCHANGED <<queue, unsent, count, released, flight>>
      BY <1>23 DEF Receive, Goto
    <2>2. ASSUME NEW r \in Sessions PROVE Sent(r)' = Sent(r)
      <3>1. \A u \in Threads : (at'[u] = r /\ pc'[u] \in {"dequeue", "subref"})
                                  <=> (at[u] = r /\ pc[u] \in {"dequeue", "subref"})
        BY <1>a, <1>b, <2>1
      <3> QED
        BY <1>g, <2>1, <3>1
    <2> QED
      BY <1>f, <2>1, <2>2 DEF QueueIsUnsent
  <1> QED
    BY <1>1, <1>2, <1>3, <1>4, <1>5, <1>6, <1>7, <1>8, <1>9, <1>10, <1>11, <1>12,
       <1>13, <1>14, <1>15, <1>16, <1>17, <1>18, <1>19, <1>20, <1>21, <1>22, <1>23
       DEF Next, Run, PostSend, Leaving, Complete, Threads

LEMMA StepAttended ==
    ASSUME Inv, [Next]_vars
    PROVE  QueueAttended'
  <1> USE DEF pool, sending, session, locals, vars
  <1>a. /\ TypeOK /\ Roles /\ Update \in Threads /\ Workers \subseteq Threads /\ Update \notin Workers
        /\ \A t \in Threads : t = Update \/ t \in Workers
        /\ Null \notin Sessions
        /\ \A w \in Workers : pc[w] = "idle" => at[w] = Null
    BY Finite, ThreadsOK DEF Inv, Threads, Roles
  <1>b. /\ DOMAIN pc = Threads /\ DOMAIN at = Threads /\ isSend \in [Sessions -> BOOLEAN]
        /\ DOMAIN queue = Sessions /\ released \in [Sessions -> BOOLEAN]
    BY <1>a DEF TypeOK
  <1>c. \A s \in Sessions : AttendedAt(s) /\ SenderAt(s)
    BY DEF Inv, QueueAttended, OneSender
  \* A session whose queue keeps whoever attends to it.
  <1>f. ASSUME NEW s \in Sessions, released'[s] = released[s], isSend[s] => isSend'[s],
               queue'[s] # <<>> => queue[s] # <<>>,
               \A t \in Threads : at[t] = s /\ pc[t] \in {"claim", "drain"} => at'[t] = s /\ pc'[t] = pc[t]
        PROVE  AttendedAt(s)'
    <2> SUFFICES ASSUME queue'[s] # <<>>
                 PROVE  \/ ~released'[s] /\ (isSend'[s] \/ \E t \in Threads : at'[t] = s /\ pc'[t] = "claim")
                        \/ released'[s] /\ \E t \in Threads : at'[t] = s /\ pc'[t] = "drain"
      BY DEF AttendedAt
    <2>1. \/ ~released[s] /\ (isSend[s] \/ \E t \in Threads : at[t] = s /\ pc[t] = "claim")
          \/ released[s] /\ \E t \in Threads : at[t] = s /\ pc[t] = "drain"
      BY <1>c, <1>f DEF AttendedAt
    <2> QED
      BY <1>f, <2>1
  \* A session somebody is in is not released.
  <1>g. ASSUME NEW t \in Threads, pc[t] \in Indoors, pc[t] # "drain"
        PROVE  at[t] \in Sessions /\ ~released[at[t]]
    <2>1. at[t] \in Sessions
      BY <1>a, <1>g, RoleFacts
    <2> QED
      BY <1>a, <1>g, <2>1, InsideLive DEF Inv, Inside
  <1>1. CASE UNCHANGED vars
    BY <1>1, <1>f DEF QueueAttended
  <1>2. ASSUME NEW t \in Threads, Claim(t)
        PROVE  QueueAttended'
    <2>0. PICK s \in Sessions : s = at[t]
      BY <1>2, <1>g DEF Claim, Goto, Indoors
    <2> DEFINE mine == queue[s] # <<>> /\ ~isSend[s]
    <2>1. /\ pc[t] = "claim" /\ pc' = [pc EXCEPT ![t] = IF mine THEN "post" ELSE "leave"]
          /\ isSend' = [isSend EXCEPT ![s] = @ \/ mine]
          /\ UNCHANGED <<at, queue, released>>
      BY <1>2, <2>0 DEF Claim, Goto, SendIdle
    <2>2. ~released[s]
      BY <1>g, <2>0, <2>1 DEF Indoors
    <2>3. AttendedAt(s)'
      <3>1. queue[s] # <<>> => isSend'[s]
        BY <1>b, <2>1
      <3> QED
        BY <2>1, <2>2, <3>1 DEF AttendedAt
    <2>4. ASSUME NEW r \in Sessions, r # s PROVE AttendedAt(r)'
      <3>1. isSend'[r] = isSend[r]
        BY <1>b, <2>1, <2>4
      <3> QED
        BY <1>b, <1>f, <2>0, <2>1, <2>4, <3>1
    <2> QED
      BY <2>3, <2>4 DEF QueueAttended
  <1>3. ASSUME NEW t \in Threads, Post(t)
        PROVE  QueueAttended'
    <2>1. UNCHANGED <<isSend, queue, released>>
      BY <1>3 DEF Post
    <2>2. \A r \in Sessions : \A u \in Threads :
             at[u] = r /\ pc[u] \in {"claim", "drain"} => at'[u] = r /\ pc'[u] = pc[u]
      BY <1>3, <1>a, <1>b DEF Post, Goto
    <2> QED
      BY <1>f, <2>1, <2>2 DEF QueueAttended
  <1>4. ASSUME NEW t \in Threads, Leave(t)
        PROVE  QueueAttended'
    <2>0. PICK s \in Sessions : s = at[t]
      BY <1>4, <1>g DEF Leave, Goto, Indoors
    <2> DEFINE last == io[s] = 1
    <2>1. /\ pc[t] = "leave" /\ pc' = [pc EXCEPT ![t] = IF last THEN "drain" ELSE Resume(t)]
          /\ released' = [released EXCEPT ![s] = @ \/ last]
          /\ at' = IF last THEN at ELSE [at EXCEPT ![t] = Null]
          /\ UNCHANGED <<queue, isSend>>
      BY <1>4, <2>0 DEF Leave, Goto
    <2>2. \A r \in Sessions : \A u \in Threads :
             at[u] = r /\ pc[u] \in {"claim", "drain"} => at'[u] = r /\ pc'[u] = pc[u]
      BY <1>b, <2>1
    <2>3. AttendedAt(s)'
      <3>1. CASE last
        <4>1. released'[s] /\ at'[t] = s /\ pc'[t] = "drain"
          BY <1>b, <2>0, <2>1, <3>1
        <4> QED
          BY <4>1 DEF AttendedAt
      <3>2. CASE ~last
        <4>1. released'[s] = released[s]
          BY <1>b, <2>1, <3>2
        <4> QED
          BY <1>f, <2>1, <2>2, <4>1
      <3> QED
        BY <3>1, <3>2
    <2>4. ASSUME NEW r \in Sessions, r # s PROVE AttendedAt(r)'
      <3>1. released'[r] = released[r]
        BY <1>b, <2>1, <2>4
      <3> QED
        BY <1>f, <2>1, <2>2, <3>1
    <2> QED
      BY <2>3, <2>4 DEF QueueAttended
  <1>5. ASSUME NEW t \in Threads, Drain(t)
        PROVE  QueueAttended'
    <2>0. PICK s \in Sessions : s = at[t]
      BY <1>5, <1>a, RoleFacts DEF Drain, Indoors
    <2>1. /\ queue[s] # <<>> /\ queue' = [queue EXCEPT ![s] = Tail(@)]
          /\ UNCHANGED <<pc, at, isSend, released>>
      BY <1>5, <2>0 DEF Drain
    <2>2. \A r \in Sessions : queue'[r] # <<>> => queue[r] # <<>>
      BY <1>b, <2>1
    <2> QED
      BY <1>f, <2>1, <2>2 DEF QueueAttended
  <1>6. ASSUME NEW t \in Threads, Release(t)
        PROVE  QueueAttended'
    <2>0. PICK s \in Sessions : s = at[t]
      BY <1>6, <1>a, RoleFacts DEF Release, Goto, Indoors
    <2>1. /\ pc[t] = "drain" /\ pc' = [pc EXCEPT ![t] = Resume(t)] /\ at' = [at EXCEPT ![t] = Null]
          /\ isSend' = [isSend EXCEPT ![s] = FALSE] /\ queue[s] = <<>>
          /\ UNCHANGED <<queue, released>>
      BY <1>6, <2>0 DEF Release, Goto
    <2>2. AttendedAt(s)'
      BY <2>1 DEF AttendedAt
    <2>3. ASSUME NEW r \in Sessions, r # s PROVE AttendedAt(r)'
      <3>1. isSend'[r] = isSend[r]
        BY <1>b, <2>1, <2>3
      <3> QED
        BY <1>b, <1>f, <2>0, <2>1, <2>3, <3>1
    <2> QED
      BY <2>2, <2>3 DEF QueueAttended
  <1>7. ASSUME NEW w \in Workers, OnRecv(w)
        PROVE  QueueAttended'
    <2>1. UNCHANGED <<isSend, queue, released>>
      BY <1>7 DEF OnRecv
    <2>2. \A r \in Sessions : \A u \in Threads :
             at[u] = r /\ pc[u] \in {"claim", "drain"} => at'[u] = r /\ pc'[u] = pc[u]
      BY <1>7, <1>a, <1>b DEF OnRecv, Goto
    <2> QED
      BY <1>f, <2>1, <2>2 DEF QueueAttended
  <1>8. ASSUME NEW w \in Workers, Forget(w)
        PROVE  QueueAttended'
    <2>1. UNCHANGED <<isSend, queue, released>>
      BY <1>8 DEF Forget
    <2>2. \A r \in Sessions : \A u \in Threads :
             at[u] = r /\ pc[u] \in {"claim", "drain"} => at'[u] = r /\ pc'[u] = pc[u]
      BY <1>8, <1>a, <1>b DEF Forget, Goto
    <2> QED
      BY <1>f, <2>1, <2>2 DEF QueueAttended
  <1>9. ASSUME NEW w \in Workers, PostRecv(w)
        PROVE  QueueAttended'
    <2>1. UNCHANGED <<isSend, queue, released>>
      BY <1>9 DEF PostRecv
    <2>2. \A r \in Sessions : \A u \in Threads :
             at[u] = r /\ pc[u] \in {"claim", "drain"} => at'[u] = r /\ pc'[u] = pc[u]
      BY <1>9, <1>a, <1>b DEF PostRecv, Goto
    <2> QED
      BY <1>f, <2>1, <2>2 DEF QueueAttended
  <1>10. ASSUME NEW w \in Workers, Dequeue(w)
        PROVE  QueueAttended'
    <2>0. PICK s \in Sessions : s = at[w]
      BY <1>10, <1>a, BatchFacts DEF Inv, Dequeue
    <2>1. /\ pc[w] = "dequeue" /\ pc' = [pc EXCEPT ![w] = "subref"] /\ queue' = [queue EXCEPT ![s] = Tail(@)]
          /\ UNCHANGED <<at, isSend, released>>
      BY <1>10, <2>0 DEF Dequeue
    <2>2. isSend[s] /\ ~released[s]
      BY <1>a, <1>c, <1>g, <2>0, <2>1 DEF SenderAt, Owns, Indoors
    <2>3. AttendedAt(s)'
      BY <2>1, <2>2 DEF AttendedAt
    <2>4. ASSUME NEW r \in Sessions, r # s PROVE AttendedAt(r)'
      <3>1. queue'[r] = queue[r]
        BY <1>b, <2>1, <2>4
      <3> QED
        BY <1>b, <1>f, <2>1, <3>1
    <2> QED
      BY <2>3, <2>4 DEF QueueAttended
  <1>11. ASSUME NEW w \in Workers, ForgetSent(w)
        PROVE  QueueAttended'
    <2>1. UNCHANGED <<isSend, queue, released>>
      BY <1>11 DEF ForgetSent
    <2>2. \A r \in Sessions : \A u \in Threads :
             at[u] = r /\ pc[u] \in {"claim", "drain"} => at'[u] = r /\ pc'[u] = pc[u]
      BY <1>11, <1>a, <1>b DEF ForgetSent, Goto
    <2> QED
      BY <1>f, <2>1, <2>2 DEF QueueAttended
  <1>12. ASSUME NEW w \in Workers, SendComplete(w)
        PROVE  QueueAttended'
    <2>0. PICK s \in Sessions : s = at[w]
      BY <1>12, <1>a, <1>g DEF SendComplete, Goto, Indoors
    <2>1. /\ pc[w] = "dequeue" /\ pc' = [pc EXCEPT ![w] = "claim"] /\ w \in Threads
          /\ isSend' = [isSend EXCEPT ![s] = FALSE]
          /\ UNCHANGED <<at, queue, released>>
      BY <1>12, <1>a, <2>0 DEF SendComplete, Goto, SendIdle
    <2>2. ~released[s] /\ at'[w] = s /\ pc'[w] = "claim"
      BY <1>b, <1>g, <2>0, <2>1 DEF Indoors
    <2>3. AttendedAt(s)'
      BY <2>1, <2>2 DEF AttendedAt
    <2>4. ASSUME NEW r \in Sessions, r # s PROVE AttendedAt(r)'
      <3>1. isSend'[r] = isSend[r]
        BY <1>b, <2>1, <2>4
      <3> QED
        BY <1>b, <1>f, <2>1, <3>1
    <2> QED
      BY <2>3, <2>4 DEF QueueAttended
  <1>13. CASE TakeRequest
    <2>1. UNCHANGED <<isSend, queue, released>>
      BY <1>13 DEF TakeRequest
    <2>2. \A r \in Sessions : \A u \in Threads :
             at[u] = r /\ pc[u] \in {"claim", "drain"} => at'[u] = r /\ pc'[u] = pc[u]
      BY <1>13, <1>a, <1>b DEF TakeRequest, Goto
    <2> QED
      BY <1>f, <2>1, <2>2 DEF QueueAttended
  <1>14. CASE NoResponse
    <2>1. UNCHANGED <<isSend, queue, released, at>>
      BY <1>14 DEF NoResponse
    <2>2. \A u \in Threads : pc[u] \in {"claim", "drain"} => pc'[u] = pc[u]
      BY <1>14, <1>a, <1>b DEF NoResponse, Goto
    <2> QED
      BY <1>f, <2>1, <2>2 DEF QueueAttended
  <1>15. CASE Respond
    <2>1. UNCHANGED <<isSend, queue, released>>
      BY <1>15 DEF Respond
    <2>2. \A r \in Sessions : \A u \in Threads :
             at[u] = r /\ pc[u] \in {"claim", "drain"} => at'[u] = r /\ pc'[u] = pc[u]
      BY <1>15, <1>a, <1>b DEF Respond, Goto
    <2> QED
      BY <1>f, <2>1, <2>2 DEF QueueAttended
  <1>16. CASE Enqueue
    <2>0. PICK s \in Sessions : s = at[Update]
      BY <1>16, <1>a, <1>g DEF Enqueue, Goto, Indoors
    <2>1. /\ pc[Update] = "enqueue" /\ pc' = [pc EXCEPT ![Update] = "claim"]
          /\ queue' = [queue EXCEPT ![s] = Append(@, parcel[Update])]
          /\ UNCHANGED <<at, isSend, released>>
      BY <1>16, <2>0 DEF Enqueue, Goto
    <2>2. ~released[s] /\ at'[Update] = s /\ pc'[Update] = "claim"
      BY <1>a, <1>b, <1>g, <2>0, <2>1 DEF Indoors
    <2>3. AttendedAt(s)'
      BY <1>a, <2>1, <2>2 DEF AttendedAt
    <2>4. ASSUME NEW r \in Sessions, r # s PROVE AttendedAt(r)'
      <3>1. queue'[r] = queue[r]
        BY <1>b, <2>1, <2>4
      <3> QED
        BY <1>b, <1>f, <2>1, <3>1
    <2> QED
      BY <2>3, <2>4 DEF QueueAttended
  <1>17. CASE ForgetResponse
    <2>1. UNCHANGED <<isSend, queue, released>>
      BY <1>17 DEF ForgetResponse
    <2>2. \A r \in Sessions : \A u \in Threads :
             at[u] = r /\ pc[u] \in {"claim", "drain"} => at'[u] = r /\ pc'[u] = pc[u]
      BY <1>17, <1>a, <1>b DEF ForgetResponse, Goto
    <2> QED
      BY <1>f, <2>1, <2>2 DEF QueueAttended
  <1>18. CASE Finish
    <2>1. UNCHANGED <<isSend, queue, released>>
      BY <1>18 DEF Finish
    <2>2. \A r \in Sessions : \A u \in Threads :
             at[u] = r /\ pc[u] \in {"claim", "drain"} => at'[u] = r /\ pc'[u] = pc[u]
      BY <1>18, <1>a, <1>b DEF Finish, Goto
    <2> QED
      BY <1>f, <2>1, <2>2 DEF QueueAttended
  <1>19. ASSUME NEW s \in Sessions, Enter(s)
        PROVE  QueueAttended'
    <2>1. UNCHANGED <<isSend, queue, released>>
      BY <1>19 DEF Enter
    <2>2. \A r \in Sessions : \A u \in Threads :
             at[u] = r /\ pc[u] \in {"claim", "drain"} => at'[u] = r /\ pc'[u] = pc[u]
      BY <1>19, <1>a, <1>b DEF Enter
    <2> QED
      BY <1>f, <2>1, <2>2 DEF QueueAttended
  <1>20. ASSUME NEW w \in Workers, NEW s \in Sessions, TakeSend(w, s)
        PROVE  QueueAttended'
    <2>1. UNCHANGED <<isSend, queue, released>>
      BY <1>20 DEF TakeSend
    <2>2. \A r \in Sessions : \A u \in Threads :
             at[u] = r /\ pc[u] \in {"claim", "drain"} => at'[u] = r /\ pc'[u] = pc[u]
      BY <1>20, <1>a, <1>b DEF TakeSend, Goto
    <2> QED
      BY <1>f, <2>1, <2>2 DEF QueueAttended
  <1>21. ASSUME NEW w \in Workers, NEW s \in Sessions, TakeBroken(w, s)
        PROVE  QueueAttended'
    <2>1. UNCHANGED <<isSend, queue, released>>
      BY <1>21 DEF TakeBroken
    <2>2. \A r \in Sessions : \A u \in Threads :
             at[u] = r /\ pc[u] \in {"claim", "drain"} => at'[u] = r /\ pc'[u] = pc[u]
      BY <1>21, <1>a, <1>b DEF TakeBroken, Goto
    <2> QED
      BY <1>f, <2>1, <2>2 DEF QueueAttended
  <1>22. ASSUME NEW s \in Sessions, Break(s)
        PROVE  QueueAttended'
    <2>1. UNCHANGED <<pc, at, isSend, queue, released>>
      BY <1>22 DEF Break
    <2> QED
      BY <1>f, <2>1 DEF QueueAttended
  <1>23. ASSUME NEW w \in Workers, NEW s \in Sessions, Receive(w, s)
        PROVE  QueueAttended'
    <2>1. UNCHANGED <<isSend, queue, released>>
      BY <1>23 DEF Receive
    <2>2. \A r \in Sessions : \A u \in Threads :
             at[u] = r /\ pc[u] \in {"claim", "drain"} => at'[u] = r /\ pc'[u] = pc[u]
      BY <1>23, <1>a, <1>b DEF Receive, Goto
    <2> QED
      BY <1>f, <2>1, <2>2 DEF QueueAttended
  <1> QED
    BY <1>1, <1>2, <1>3, <1>4, <1>5, <1>6, <1>7, <1>8, <1>9, <1>10, <1>11, <1>12,
       <1>13, <1>14, <1>15, <1>16, <1>17, <1>18, <1>19, <1>20, <1>21, <1>22, <1>23
       DEF Next, Run, PostSend, Leaving, Complete, Threads

-----------------------------------------------------------------------------
(* The invariant holds always, and what follows from it.                   *)

LEMMA InitInv == Init => Inv
  <1> SUFFICES ASSUME Init PROVE Inv
    OBVIOUS
  <1> USE DEF Init
  <1>1. TypeOK
    <2>1. 0 \in 0 .. MaxReceives /\ 0 \in 0 .. Batch /\ 0 \in 0 .. 0
      BY ThreadsOK
    <2> QED
      BY <2>1 DEF TypeOK
  <1>2. Roles
    BY ThreadsOK, Finite DEF Roles, WorkerSteps, SendingSteps
  <1>3. FrameCount
    <2>1. {w \in Workers : pc[w] = "onrecv"} = {}
      BY Finite
    <2>2. Cardinality({w \in Workers : pc[w] = "onrecv"}) = 0
      BY <2>1, FS_EmptySet
    <2> QED
      BY <2>2 DEF FrameCount
  <1>4. QueueLength
    <2>1. \A s \in Sessions : Len(queue[s]) = 0 /\ ~Owed(s)
      BY Finite DEF Owed
    <2> QED
      BY <2>1 DEF QueueLength
  <1>5. IoExact
    <2> SUFFICES ASSUME NEW s \in Sessions PROVE IoAt(s)
      BY DEF IoExact
    <2>1. Inside(s) = {}
      BY ThreadsOK DEF Inside
    <2>2. Cardinality(Inside(s)) = 0
      BY <2>1, FS_EmptySet
    <2>3. Reading(s) = 1 /\ Writing(s) = 0 /\ io[s] = 1 /\ released[s] = FALSE
      BY DEF Reading, Writing
    <2> QED
      BY <2>2, <2>3 DEF IoAt
  <1>6. OneReceiver /\ DrainReleased /\ OneSender
    BY ThreadsOK DEF OneReceiver, Receives, DrainReleased, OneSender, SenderAt, Owns
  <1>7. QueueIsUnsent
    <2> SUFFICES ASSUME NEW s \in Sessions PROVE UnsentAt(s)
      BY DEF QueueIsUnsent
    <2>1. Sent(s) = 0
      BY ThreadsOK DEF Sent, Completing
    <2>2. Len(queue[s]) = 0 /\ Len(unsent[s]) = 0 /\ flight[s] = <<>>
      OBVIOUS
    <2> QED
      BY <2>1, <2>2 DEF UnsentAt
  <1>8. QueueAttended
    BY DEF QueueAttended, AttendedAt
  <1>9. RefExact
    <2> SUFFICES ASSUME NEW m \in Messages
                 PROVE  ref[m] = Holders(m) /\ (m \in out <=> ref[m] > 0)
      BY DEF RefExact
    <2>1. Occurs(m, inbox) = 0
      BY OccursNone
    <2>2. Queued(m, queue) = 0
      <3>1. /\ queue \in [Sessions -> Seq(Messages)]
            /\ \A s \in Sessions : Len(queue[s]) <= MaxReceives
        BY ThreadsOK
      <3>2. \A s \in Sessions : \A i \in 1 .. Len(queue[s]) : queue[s][i] # m
        OBVIOUS
      <3> QED
        BY <3>1, <3>2, QueuedZero
    <2>3. Held(m, request) = 0 /\ Held(m, response) = 0 /\ Held(m, parcel) = 0
      BY ThreadsOK, HeldType
    <2> QED
      BY <2>1, <2>2, <2>3 DEF Holders
  <1> QED
    BY <1>1, <1>2, <1>3, <1>4, <1>5, <1>6, <1>7, <1>8, <1>9 DEF Inv

LEMMA StepInv == Inv /\ [Next]_vars => Inv'
  BY StepType, StepRoles, StepFrame, StepLength, StepIo, StepReceiver, StepSender,
     StepUnsent, StepAttended, StepRef DEF Inv

LEMMA AlwaysInv == Spec => []Inv
  BY InitInv, StepInv, PTL DEF Spec

\* Every variable keeps its type: SubRef is called only by one who holds a reference, the
\* frame counters stay in their bounds, and a queue holds messages.
THEOREM Typing == Spec => []TypeOK
  <1>1. Inv => TypeOK
    BY DEF Inv
  <1> QED
    BY <1>1, AlwaysInv, PTL

\* m_lRefCount is at every step the number of threads, entries of m_MsgQ and entries of send
\* queues that will still call SubRef, and a message is in the pool just when there are none.
THEOREM ReferencesCounted == Spec => []RefExact
  <1>1. Inv => RefExact
    BY DEF Inv
  <1> QED
    BY <1>1, AlwaysInv, PTL

\* What the kernel reads during a WSASend stays in use, and holds what was encoded into it when
\* SendPacket queued it: each client gets its responses once and in order.
THEOREM WireStaysIntact == Spec => []WireIntact
  <1>1. Inv => WireIntact
    <2> SUFFICES ASSUME Inv, NEW s \in Sessions, NEW i \in DOMAIN flight[s]
                 PROVE  /\ flight[s][i] \in out
                        /\ i <= Len(unsent[s]) /\ stamp[flight[s][i]] = unsent[s][i]
      BY DEF WireIntact
    <2>1. flight[s] \in Seq(Messages) /\ Len(unsent[s]) \in Nat
      BY DEF Inv, TypeOK
    <2>2. flight[s] # <<>> /\ i \in 1 .. Len(flight[s])
      BY <2>1
    <2>3. /\ ~released[s] /\ Sent(s) = 0
          /\ Len(flight[s]) = count[s] /\ count[s] \in 1 .. Len(unsent[s])
          /\ \A j \in 1 .. count[s] : flight[s][j] = queue[s][j] /\ j \in 1 .. Len(queue[s])
      BY <2>2, FlightFacts DEF Inv
    <2>4. i \in 1 .. Len(unsent[s]) /\ 0 + i = i
      BY <2>1, <2>2, <2>3
    <2>5. HeldIsOut
      BY HeldLive DEF Inv
    <2>6. flight[s][i] = queue[s][i] /\ queue[s][i] \in out
      BY <2>2, <2>3, <2>5 DEF HeldIsOut
    <2>7. stamp[queue[s][0 + i]] = unsent[s][i]
      BY <2>3, <2>4 DEF Inv, QueueIsUnsent, UnsentAt
    <2> QED
      BY <2>4, <2>6, <2>7
  <1> QED
    BY <1>1, AlwaysInv, PTL

\* When no thread has anything to do every message is back in the pool: no thread took another
\* one for the sender and left a response in a queue, and a broken session was emptied.
THEOREM AllMessagesComeBack == Spec => []MessagesComeBack
  <1>1. Inv => MessagesComeBack
    <2> SUFFICES ASSUME Inv, AtRest PROVE out = {}
      BY DEF MessagesComeBack
    <2>1. \A t \in Threads : pc[t] = "idle"
      BY DEF AtRest
    <2>2. \A t \in Threads : /\ at[t] = Null /\ request[t] = Null
                             /\ response[t] = Null /\ parcel[t] = Null
      BY <2>1, Finite DEF Inv, Roles, Threads, SendingSteps
    <2>3. ASSUME NEW s \in Sessions PROVE queue[s] = <<>>
      <3> SUFFICES ASSUME queue[s] # <<>> PROVE FALSE
        OBVIOUS
      <3>1. ~released[s] /\ isSend[s]
        BY <2>1 DEF Inv, QueueAttended, AttendedAt
      <3>2. flight[s] = <<>> /\ (recv[s] => up[s])
        BY DEF AtRest
      <3>3. ~up[s]
        <4>1. isSend[s] => ~up[s] \/ flight[s] # <<>> \/ \E t \in Threads : Owns(t, s)
          BY DEF Inv, OneSender, SenderAt
        <4> QED
          BY <2>1, <3>1, <3>2, <4>1 DEF Owns
      <3>4. Reading(s) = 0 /\ Writing(s) = 0
        BY <3>2, <3>3 DEF Reading, Writing
      <3>5. Inside(s) = {}
        BY <2>2, ThreadsOK DEF Inside
      <3>6. Cardinality(Inside(s)) = 0
        BY <3>5, FS_EmptySet
      <3> QED
        BY <3>1, <3>4, <3>6 DEF Inv, IoExact, IoAt
    <2>4. ASSUME NEW m \in Messages PROVE m \notin out
      <3>1. inbox = <<>>
        BY DEF AtRest
      <3>2. Occurs(m, inbox) = 0
        BY <3>1, OccursNone
      <3>3. Queued(m, queue) = 0
        <4>1. /\ queue \in [Sessions -> Seq(Messages)]
              /\ \A s \in Sessions : Len(queue[s]) <= MaxReceives
          BY Bounded DEF Inv, TypeOK
        <4> QED
          BY <2>3, <4>1, QueuedZero
      <3>4. Held(m, request) = 0 /\ Held(m, response) = 0 /\ Held(m, parcel) = 0
        BY <2>2, ThreadsOK, HeldType
      <3>5. ref[m] = Holders(m) /\ (m \in out <=> ref[m] > 0)
        BY DEF Inv, RefExact
      <3> QED
        BY <3>2, <3>3, <3>4, <3>5 DEF Holders
    <2> QED
      BY <2>4 DEF Inv, TypeOK
  <1> QED
    BY <1>1, AlwaysInv, PTL
=============================================================================
