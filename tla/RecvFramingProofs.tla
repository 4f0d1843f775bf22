------------------------- MODULE RecvFramingProofs -------------------------
(***************************************************************************)
(* The room PostRecv offers is free, and OnRecv is handed the frames of    *)
(* the client whole, once and in order: for every size of the buffer and   *)
(* of the blank, every set of frames and every way to cut the stream.      *)
(***************************************************************************)
EXTENDS RecvFraming, FiniteSetTheorems, TLAPS

-----------------------------------------------------------------------------
(* Positions on the ring.                                                  *)

\* At most one turn is taken off a position.
LEMMA ModOnce ==
    ASSUME NEW x \in Nat, x < 2 * BufferSize
    PROVE  x % BufferSize = Wrapped(x) /\ Wrapped(x) \in Places
  <1>1. BufferSize \in Nat \ {0}
    BY SizesOK
  <1>2. CASE x < BufferSize
    <2>1. x % BufferSize = x
      BY <1>1, <1>2
    <2> QED
      BY <2>1, <1>1, <1>2 DEF Wrapped, Places
  <1>3. CASE x >= BufferSize
    <2>1. x % BufferSize = x - BufferSize
      BY <1>1, <1>3
    <2> QED
      BY <2>1, <1>1, <1>3 DEF Wrapped, Places
  <1> QED
    BY <1>1, <1>2, <1>3

\* What the buffer holds leaves one place at least.
LEMMA UseSize ==
    ASSUME NEW r \in Rings
    PROVE  GetUseSize(r) \in 0 .. BufferSize - 1 /\ GetFreeSize(r) \in Int
  BY SizesOK DEF Rings, Places, GetUseSize, GetFreeSize

\* Written bytes are bytes to read, if there was room for them.
LEMMA WriteUse ==
    ASSUME NEW r \in Rings, NEW n \in Nat, n <= GetFreeSize(r)
    PROVE  /\ MoveWritePos(r, n) \in Rings
           /\ GetUseSize(MoveWritePos(r, n)) = GetUseSize(r) + n
  <1>1. /\ r.read \in Places /\ r.write \in Places /\ n < BufferSize
        /\ BufferSize \in Nat \ {0} /\ BlankSize \in 1 .. BufferSize - 1
    BY SizesOK, UseSize DEF Rings, GetFreeSize
  <1>2. (r.write + n) % BufferSize = Wrapped(r.write + n) /\ Wrapped(r.write + n) \in Places
    <2>1. r.write + n \in Nat /\ r.write + n < 2 * BufferSize
      BY <1>1 DEF Places
    <2> QED
      BY <2>1, ModOnce
  <1>3. MoveWritePos(r, n) = [read |-> r.read, write |-> Wrapped(r.write + n)]
    BY <1>2 DEF MoveWritePos, Rings
  <1>4. MoveWritePos(r, n) \in Rings
    BY <1>1, <1>2, <1>3 DEF Rings
  <1>5. GetUseSize(MoveWritePos(r, n)) = GetUseSize(r) + n
    BY <1>1, <1>3 DEF GetUseSize, GetFreeSize, Wrapped, Places
  <1> QED
    BY <1>4, <1>5

\* Bytes removed are bytes less to read, and no more are removed than there are.
LEMMA RemoveUse ==
    ASSUME NEW r \in Rings, NEW n \in Nat
    PROVE  /\ RemoveData(r, n) \in Rings
           /\ GetUseSize(RemoveData(r, n)) = GetUseSize(r) - Smaller(n, GetUseSize(r))
  <1> DEFINE k == Smaller(n, GetUseSize(r))
  <1>1. /\ r.read \in Places /\ r.write \in Places
        /\ BufferSize \in Nat \ {0} /\ k \in 0 .. GetUseSize(r) /\ GetUseSize(r) \in 0 .. BufferSize - 1
    BY SizesOK, UseSize DEF Rings, Smaller
  <1>2. RemoveData(r, n) = [read |-> Wrapped(r.read + k), write |-> r.write]
    BY DEF RemoveData, Rings
  <1> HIDE DEF k
  <1>3. Wrapped(r.read + k) \in Places
    BY <1>1 DEF Wrapped, Places
  <1>4. RemoveData(r, n) \in Rings
    BY <1>1, <1>2, <1>3 DEF Rings
  <1>5. GetUseSize(RemoveData(r, n)) = GetUseSize(r) - k
    BY <1>1, <1>2 DEF GetUseSize, Wrapped, Places
  <1> QED
    BY <1>4, <1>5 DEF k

-----------------------------------------------------------------------------
(* The offer.                                                              *)

\* The part of the room before the end of the array is some of it, and all of it when the
\* part at the start would not be free.
LEMMA OfferSizes ==
    ASSUME ring \in Rings, GetUseSize(ring) <= BufferSize - BlankSize
    PROVE  LET first == GetNotBrokenPutSize(ring)
               free  == GetFreeSize(ring)
           IN  /\ first \in 0 .. free /\ free \in Nat
               /\ ring.write + first <= BufferSize
               /\ first < free => first = BufferSize - ring.write /\ ring.read <= ring.write
  BY SizesOK DEF Rings, Places, GetUseSize, GetFreeSize, GetNotBrokenPutSize, Smaller

\* The offer is the free room, place by place.
LEMMA OfferIsFree ==
    ASSUME ring \in Rings, GetUseSize(ring) <= BufferSize - BlankSize, offer = Offered
    PROVE  /\ Room = GetFreeSize(ring)
           /\ \A i \in 1 .. Room :
                 /\ OfferedPlace(i) = (ring.write + i - 1) % BufferSize
                 /\ OfferedPlace(i) \notin Unread
  <1> DEFINE first == GetNotBrokenPutSize(ring)
             free  == GetFreeSize(ring)
  <1>1. /\ BufferSize \in Nat \ {0} /\ ring.read \in Places /\ ring.write \in Places
        /\ BlankSize \in 1 .. BufferSize - 1
    BY SizesOK DEF Rings
  <1>2. /\ first \in 0 .. free /\ free \in Nat /\ ring.write + first <= BufferSize
        /\ first < free => first = BufferSize - ring.write /\ ring.read <= ring.write
    BY OfferSizes
  <1>3. /\ offer.at = ring.write /\ offer.first = first
        /\ offer.second = IF first < free THEN free - first ELSE 0
    BY DEF Offered
  <1>4. free = BufferSize - (GetUseSize(ring) + BlankSize) /\ GetUseSize(ring) \in 0 .. BufferSize - 1
    BY UseSize DEF GetFreeSize
  <1> HIDE DEF first, free
  <1>5. Room = free
    BY <1>2, <1>3 DEF Room
  <1>6. ASSUME NEW i \in 1 .. Room
        PROVE  /\ OfferedPlace(i) = Wrapped(ring.write + i - 1)
               /\ ring.write + i - 1 \in Nat /\ ring.write + i - 1 < 2 * BufferSize
    <2>1. ring.write \in Nat /\ ring.write < BufferSize /\ i \in 1 .. free /\ free < BufferSize
      BY <1>1, <1>2, <1>4, <1>5 DEF Places
    <2>2. CASE i <= first
      BY <2>1, <2>2, <1>1, <1>2, <1>3 DEF OfferedPlace, Wrapped
    <2>3. CASE i > first
      BY <2>1, <2>3, <1>1, <1>2, <1>3 DEF OfferedPlace, Wrapped
    <2> QED
      BY <2>1, <2>2, <2>3, <1>2
  <1>7. ASSUME NEW i \in 1 .. Room, NEW j \in 1 .. GetUseSize(ring)
        PROVE  Wrapped(ring.write + i - 1) # Wrapped(ring.read + j - 1)
    BY <1>1, <1>2, <1>4, <1>5 DEF Wrapped, Places, GetUseSize
  <1>8. \A p \in Unread : \E j \in 1 .. GetUseSize(ring) : p = Wrapped(ring.read + j - 1)
    <2>1. Smaller(BufferSize, GetUseSize(ring)) = GetUseSize(ring)
      BY <1>1, <1>4 DEF Smaller
    <2> QED
      BY <2>1 DEF Unread, Peek, Range
  <1>9. \A i \in 1 .. Room : OfferedPlace(i) = (ring.write + i - 1) % BufferSize
    BY <1>6, ModOnce
  <1>10. \A i \in 1 .. Room : OfferedPlace(i) \notin Unread
    BY <1>6, <1>7, <1>8
  <1> QED
    BY <1>5, <1>9, <1>10 DEF free

-----------------------------------------------------------------------------
(* The inductive invariant: the buffer never holds more than the blank     *)
(* leaves room for, what is offered is the room there is, and a completion *)
(* brings no more than was offered.                                        *)

RingInv ==
    /\ ring \in Rings
    /\ GetUseSize(ring) <= BufferSize - BlankSize
    /\ pc = "pending" => offer = Offered
    /\ pc = "complete" => count \in Nat /\ count <= GetFreeSize(ring)

LEMMA InitRing == Init => RingInv
  BY SizesOK DEF Init, RingInv, Rings, Places, ClearBuffer, GetUseSize

LEMMA RingStep == RingInv /\ [Next]_vars => RingInv'
  <1> SUFFICES ASSUME RingInv, [Next]_vars PROVE RingInv'
    OBVIOUS
  <1>0. ASSUME UNCHANGED ring, pc' \notin {"pending", "complete"} PROVE RingInv'
    BY <1>0 DEF RingInv
  <1>1. CASE UNCHANGED vars
    BY <1>1 DEF RingInv, vars, buffer, Offered
  <1>2. CASE Connect
    <2>1. ring' = ClearBuffer /\ pc' = "post"
      BY <1>2 DEF Connect
    <2> QED
      BY <2>1, SizesOK DEF RingInv, Rings, Places, ClearBuffer, GetUseSize
  <1>3. CASE Disconnect
    BY <1>3 DEF Disconnect, RingInv, buffer, Offered
  <1>4. CASE ClientCloses
    BY <1>4, <1>0 DEF ClientCloses, Goto, buffer
  <1>5. CASE ReceiveNothing
    BY <1>5, <1>0 DEF ReceiveNothing, Goto, buffer
  <1>6. CASE Receive
    <2>1. Room = GetFreeSize(ring) /\ GetFreeSize(ring) \in Int
      BY <1>6, OfferIsFree, UseSize DEF Receive, RingInv
    <2>2. PICK n \in 1 .. Room : count' = n
      BY <1>6 DEF Receive
    <2>3. pc' = "complete" /\ ring' = ring
      BY <1>6 DEF Receive
    <2> QED
      BY <2>1, <2>2, <2>3 DEF RingInv
  <1>7. CASE PostRecv
    BY <1>7 DEF PostRecv, RingInv, buffer, Offered
  <1>8. CASE RecvComplete
    <2>1. ring' = MoveWritePos(ring, count) /\ count \in Nat /\ count <= GetFreeSize(ring)
      BY <1>8 DEF RecvComplete, Goto, RingInv
    <2>2. ring' \in Rings /\ GetUseSize(ring') = GetUseSize(ring) + count
      BY <2>1, WriteUse DEF RingInv
    <2>3. GetUseSize(ring') <= BufferSize - BlankSize
      BY <2>1, <2>2, UseSize, SizesOK DEF RingInv, GetFreeSize
    <2> QED
      BY <1>8, <2>2, <2>3 DEF RecvComplete, Goto, RingInv
  <1>9. CASE NoFrame
    BY <1>9, <1>0 DEF NoFrame, Goto, buffer
  <1>10. CASE TakeFrame
    <2> DEFINE rest == RemoveData(ring, HeaderLen)
    <2>1. PICK n \in Announced(Header) : ring' = rest \/ ring' = RemoveData(rest, n)
      BY <1>10 DEF TakeFrame
    <2>2. n \in Nat /\ HeaderLen \in Nat
      BY FramesOK DEF Announced, Lengths
    <2>3. ASSUME NEW r \in Rings, NEW k \in Nat, GetUseSize(r) <= BufferSize - BlankSize
          PROVE  RemoveData(r, k) \in Rings /\ GetUseSize(RemoveData(r, k)) <= BufferSize - BlankSize
      <3>1. GetUseSize(RemoveData(r, k)) <= GetUseSize(r) /\ RemoveData(r, k) \in Rings
        <4>1. GetUseSize(r) \in Nat /\ Smaller(k, GetUseSize(r)) \in Nat
          BY <2>3, UseSize, SizesOK DEF Smaller
        <4> QED
          BY <4>1, RemoveUse
      <3> QED
        BY <3>1, <2>3, UseSize, SizesOK
    <2>4. rest \in Rings /\ GetUseSize(rest) <= BufferSize - BlankSize
      BY <2>2, <2>3 DEF RingInv
    <2> HIDE DEF rest
    <2>5. ring' \in Rings /\ GetUseSize(ring') <= BufferSize - BlankSize
      BY <2>1, <2>2, <2>3, <2>4
    <2>6. pc' \in {"decode", "post"}
      BY <1>10 DEF TakeFrame
    <2> QED
      BY <2>5, <2>6 DEF RingInv
  <1>11. CASE Decode
    BY <1>11, <1>0 DEF Decode, buffer
  <1>12. CASE OnRecv
    BY <1>12, <1>0 DEF OnRecv, Goto, buffer
  <1> QED
    BY <1>1, <1>2, <1>3, <1>4, <1>5, <1>6, <1>7, <1>8, <1>9, <1>10, <1>11, <1>12
    DEF Next, Kernel, Server

-----------------------------------------------------------------------------
(* Induction over the numbers.  The library's theorem of it takes an       *)
(* operator, which the provers cannot instantiate; this one takes a set.   *)

\* A set that holds zero and with each number the next holds all: else adding one would map
\* its part below a number that is missing into that part without zero, which is smaller.
LEMMA Induction ==
    ASSUME NEW T, T \subseteq Nat, 0 \in T, \A n \in T : n + 1 \in T
    PROVE  T = Nat
  <1> SUFFICES ASSUME NEW n \in Nat, n \notin T PROVE FALSE
    OBVIOUS
  <1> DEFINE S == {x \in 0 .. n : x \in T}
  <1>0. 0 \in S
    OBVIOUS
  <1>1. IsFiniteSet(S)
    <2>1. S \in SUBSET (0 .. n)
      OBVIOUS
    <2>2. IsFiniteSet(0 .. n)
      BY FS_Interval
    <2> QED
      BY <2>1, <2>2, FS_Subset
  <1>3. Cardinality(S) \in Nat
    BY <1>1, FS_CardinalityType
  <1>4. ASSUME NEW x \in S PROVE x \in Nat /\ x + 1 \in S \ {0}
    <2>1. x \in Nat /\ x <= n /\ x \in T /\ x # n
      OBVIOUS
    <2>2. x + 1 \in T
      BY <2>1
    <2> QED
      BY <2>1, <2>2
  <1> HIDE DEF S
  <1>2. /\ IsFiniteSet(S \ {0})
        /\ Cardinality(S \ {0}) = Cardinality(S) - 1
    BY <1>0, <1>1, FS_RemoveElement
  <1> DEFINE f == [x \in S |-> x + 1]
  <1>5. PICK x \in S, y \in S : x # y /\ f[x] = f[y]
    <2>1. Cardinality(S \ {0}) < Cardinality(S)
      BY <1>2, <1>3
    <2>2. f \in [S -> S \ {0}]
      BY <1>4
    <2> HIDE DEF f
    <2> QED
      BY <1>1, <1>2, <2>1, <2>2, FS_PigeonHole
  <1> QED
    BY <1>5, <1>4

-----------------------------------------------------------------------------
(* The stream: where each frame begins, and what its bytes are.            *)

\* FlattenSeq is built one sequence at a time.
LEMMA FlatExists ==
    ASSUME NEW seqs
    PROVE  \A n \in Nat : \E f :
              f = [i \in 1 .. n |-> IF i = 1 THEN seqs[i] ELSE f[i - 1] \o seqs[i]]
  <1> DEFINE IsFlat(f, n) == f = [i \in 1 .. n |-> IF i = 1 THEN seqs[i] ELSE f[i - 1] \o seqs[i]]
             T == {n \in Nat : \E f : IsFlat(f, n)}
  <1>1. 0 \in T
    <2>1. IsFlat([i \in 1 .. 0 |-> 0], 0)
      OBVIOUS
    <2> QED
      BY <2>1
  <1>2. ASSUME NEW n \in T PROVE n + 1 \in T
    <2>1. n \in Nat
      OBVIOUS
    <2>2. PICK f : IsFlat(f, n)
      OBVIOUS
    <2> DEFINE g == [i \in 1 .. n + 1 |-> IF i = 1 THEN seqs[i] ELSE f[i - 1] \o seqs[i]]
    <2>3. \A i \in 1 .. n : g[i] = f[i]
      <3> HIDE DEF T
      <3>1. \A i \in 1 .. n : f[i] = IF i = 1 THEN seqs[i] ELSE f[i - 1] \o seqs[i]
        BY <2>2
      <3>2. \A i \in 1 .. n : i \in 1 .. n + 1
        BY <2>1
      <3> QED
        BY <3>1, <3>2
    <2>4. \A i \in 1 .. n + 1 : i # 1 => i - 1 \in 1 .. n
      BY <2>1
    <2>5. \A i \in 1 .. n + 1 : i # 1 => f[i - 1] = g[i - 1]
      BY <2>3, <2>4
    <2>6. \A i \in 1 .. n + 1 : (IF i = 1 THEN seqs[i] ELSE f[i - 1] \o seqs[i])
                            = (IF i = 1 THEN seqs[i] ELSE g[i - 1] \o seqs[i])
      BY <2>5
    <2>7. IsFlat(g, n + 1)
      <3> HIDE DEF T
      <3> QED
        BY <2>6, Zenon
    <2> HIDE DEF g
    <2>8. \E ff : IsFlat(ff, n + 1)
      <3> HIDE DEF IsFlat, T
      <3> QED
        BY <2>7
    <2> HIDE DEF IsFlat
    <2> QED
      BY <2>1, <2>8
  <1> HIDE DEF T
  <1>3. T = Nat
    <2>1. T \subseteq Nat
      BY DEF T
    <2> QED
      BY <1>1, <1>2, <2>1, Induction
  <1> QED
    BY <1>3 DEF T

\* FlattenSeq of sequences over U is the last of sequences over U, each the one before with
\* one more joined to it.
LEMMA Flattened ==
    ASSUME NEW U, NEW seqs \in Seq(Seq(U)), Len(seqs) > 0
    PROVE  \E f : /\ FlattenSeq(seqs) = f[Len(seqs)]
                  /\ f[1] = seqs[1] /\ f[1] \in Seq(U)
                  /\ \A i \in 1 .. Len(seqs) - 1 :
                        f[i] \in Seq(U) => f[i + 1] = f[i] \o seqs[i + 1] /\ f[i + 1] \in Seq(U)
  <1> DEFINE n == Len(seqs)
             Flat == CHOOSE f : f = [i \in 1 .. n |-> IF i = 1 THEN seqs[i] ELSE f[i - 1] \o seqs[i]]
  <1>1. FlattenSeq(seqs) = Flat[n]
    BY DEF FlattenSeq
  <1>2. Flat = [i \in 1 .. n |-> IF i = 1 THEN seqs[i] ELSE Flat[i - 1] \o seqs[i]]
    <2>1. n \in Nat
      OBVIOUS
    <2> QED
      BY <2>1, FlatExists
  <1> HIDE DEF Flat
  <1>3. \A i \in 1 .. n : seqs[i] \in Seq(U)
    OBVIOUS
  <1>4. n \in Nat /\ n >= 1
    OBVIOUS
  <1> HIDE DEF n
  <1>5. Flat[1] = seqs[1]
    BY <1>2, <1>4
  <1>6. ASSUME NEW i \in 1 .. n - 1, Flat[i] \in Seq(U)
        PROVE  Flat[i + 1] = Flat[i] \o seqs[i + 1] /\ Flat[i + 1] \in Seq(U)
    <2>1. i + 1 \in 1 .. n /\ i + 1 # 1 /\ (i + 1) - 1 = i
      BY <1>4
    <2>2. Flat[i + 1] = Flat[i] \o seqs[i + 1]
      BY <1>2, <2>1
    <2> QED
      BY <1>6, <2>1, <2>2, <1>3
  <1> DEFINE P(f) ==
        /\ FlattenSeq(seqs) = f[Len(seqs)]
        /\ f[1] = seqs[1] /\ f[1] \in Seq(U)
        /\ \A i \in 1 .. Len(seqs) - 1 :
              f[i] \in Seq(U) => f[i + 1] = f[i] \o seqs[i + 1] /\ f[i + 1] \in Seq(U)
  <1>7. 1 \in 1 .. n
    BY <1>4
  <1>8. P(Flat)
    BY <1>1, <1>3, <1>7, <1>5, <1>6 DEF n
  <1> QED
    BY <1>8, Zenon

\* What is at which place of a concatenation.
LEMMA Concatenated ==
    ASSUME NEW U, NEW s \in Seq(U), NEW t \in Seq(U)
    PROVE  /\ Len(s) \in Nat /\ Len(t) \in Nat /\ Len(s \o t) = Len(s) + Len(t)
           /\ \A i \in 1 .. Len(s) : (s \o t)[i] = s[i]
           /\ \A i \in 1 .. Len(t) : (s \o t)[Len(s) + i] = t[i]
  OBVIOUS

\* The bytes of the stream of script s on connection c, and where each frame begins.
ClientByte     == [conn : 1 .. MaxConnections, number : 1 .. MaxFrames, frame : Frames, at : Nat]
Size(frame)    == HeaderLen + frame.len
StreamOf(c, s) == FlattenSeq([k \in 1 .. Len(s) |-> FrameBytes(c, k, s[k])])

Layout(c, s, st) ==
    /\ st \in [1 .. Len(s) + 1 -> Nat] /\ st[1] = 0
    /\ \A k \in 1 .. Len(s) : st[k + 1] = st[k] + Size(s[k])
    /\ StreamOf(c, s) \in Seq(ClientByte) /\ Len(StreamOf(c, s)) = st[Len(s) + 1]
    /\ \A k \in 1 .. Len(s) : \A i \in 1 .. Size(s[k]) :
          /\ st[k] + i <= Len(StreamOf(c, s))
          /\ StreamOf(c, s)[st[k] + i] = Byte(c, k, s[k], i)

\* What is in a frame.
LEMMA Sizes ==
    ASSUME NEW frame \in Frames
    PROVE  /\ frame.len \in Nat \ {0} /\ frame.good \in BOOLEAN
           /\ Size(frame) \in Nat /\ HeaderLen \in Nat \ {0}
  BY FramesOK DEF Size

\* The stream of every script is laid out so.
LEMMA StreamLayout ==
    ASSUME NEW c \in 0 .. MaxConnections, NEW s \in Seq(Frames), Len(s) <= MaxFrames,
           c = 0 => s = << >>
    PROVE  \E st : Layout(c, s, st)
  <1> DEFINE n    == Len(s)
             seqs == [k \in 1 .. n |-> FrameBytes(c, k, s[k])]
  <1>0. n \in Nat
    OBVIOUS
  <1>1. CASE n = 0
    <2>1. StreamOf(c, s) = << >>
      <3>1. seqs = << >>
        BY <1>1
      <3>2. Len(seqs) = 0
        BY <3>1
      <3> QED
        BY <3>1, <3>2 DEF StreamOf, FlattenSeq
    <2>2. Layout(c, s, [k \in 1 .. Len(s) + 1 |-> 0])
      BY <2>1, <1>1 DEF Layout
    <2> QED
      BY <2>2
  <1>2. CASE n > 0
    <2>1. \A k \in 1 .. n : /\ seqs[k] \in Seq(ClientByte) /\ Len(seqs[k]) = Size(s[k])
                            /\ \A i \in 1 .. Size(s[k]) : seqs[k][i] = Byte(c, k, s[k], i)
      <3>1. TAKE k \in 1 .. n
      <3>2. /\ k \in 1 .. MaxFrames /\ c \in 1 .. MaxConnections
            /\ s[k] \in Frames /\ Size(s[k]) \in Nat
        <4>1. s # << >>
          BY <1>2
        <4>2. s[k] \in Frames /\ MaxFrames \in Nat /\ MaxConnections \in Nat
          BY FramesOK
        <4> QED
          BY <1>0, <4>1, <4>2, Sizes
      <3>3. seqs[k] = [i \in 1 .. Size(s[k]) |-> Byte(c, k, s[k], i)]
        BY DEF FrameBytes, Size
      <3>4. \A i \in 1 .. Size(s[k]) : Byte(c, k, s[k], i) \in ClientByte
        BY <3>2 DEF Byte, ClientByte
      <3> QED
        BY <3>2, <3>3, <3>4
    <2>2. seqs \in Seq(Seq(ClientByte)) /\ Len(seqs) = n
      <3>1. seqs \in [1 .. n -> Seq(ClientByte)]
        BY <2>1
      <3> QED
        BY <3>1, <1>0
    <2> HIDE DEF seqs
    <2>3. PICK f : /\ FlattenSeq(seqs) = f[Len(seqs)]
                   /\ f[1] = seqs[1] /\ f[1] \in Seq(ClientByte)
                   /\ \A i \in 1 .. Len(seqs) - 1 :
                         f[i] \in Seq(ClientByte)
                            => f[i + 1] = f[i] \o seqs[i + 1] /\ f[i + 1] \in Seq(ClientByte)
      BY <2>2, <1>2, Flattened
    <2>4. StreamOf(c, s) = f[n]
      BY <2>2, <2>3 DEF StreamOf, seqs
    <2> DEFINE st == [k \in 1 .. n + 1 |-> IF k = 1 THEN 0 ELSE Len(f[k - 1])]
               Good(m) == /\ f[m] \in Seq(ClientByte) /\ \A k \in 1 .. m : st[k] \in Nat
                          /\ st[m + 1] \in Nat /\ Len(f[m]) = st[m + 1]
                          /\ st[m + 1] = st[m] + Size(s[m])
                          /\ \A k \in 1 .. m : \A i \in 1 .. Size(s[k]) :
                                /\ st[k] + i <= Len(f[m])
                                /\ f[m][st[k] + i] = Byte(c, k, s[k], i)
    <2>5. Good(1)
      <3>1. /\ f[1] = seqs[1] /\ Len(seqs[1]) = Size(s[1]) /\ Size(s[1]) \in Nat
            /\ \A i \in 1 .. Size(s[1]) : seqs[1][i] = Byte(c, 1, s[1], i)
        <4>1. 1 \in 1 .. n
          BY <1>2, <1>0
        <4> QED
          BY <4>1, <2>1, <2>3, Sizes
      <3>2. st[1] = 0 /\ st[2] = Len(f[1])
        BY <1>2, <1>0
      <3> HIDE DEF st
      <3>3. 1 + 1 = 2 /\ \A k \in 1 .. 1 : k = 1
        OBVIOUS
      <3> QED
        BY <3>1, <3>2, <3>3, <2>3
    <2>6. ASSUME NEW m \in 1 .. n - 1, Good(m) PROVE Good(m + 1)
      <3>1. /\ f[m + 1] = f[m] \o seqs[m + 1] /\ f[m + 1] \in Seq(ClientByte)
            /\ f[m] \in Seq(ClientByte)
        BY <2>6, <2>2, <2>3
      <3>2. /\ m + 1 \in 1 .. n /\ m \in Nat /\ seqs[m + 1] \in Seq(ClientByte) /\ Size(s[m + 1]) \in Nat
            /\ Len(seqs[m + 1]) = Size(s[m + 1])
            /\ \A i \in 1 .. Size(s[m + 1]) : seqs[m + 1][i] = Byte(c, m + 1, s[m + 1], i)
        <4>1. m + 1 \in 1 .. n /\ m \in Nat
          BY <1>0
        <4> QED
          BY <4>1, <2>1, Sizes
      <3>3. /\ Len(f[m]) \in Nat /\ Len(f[m + 1]) = Len(f[m]) + Size(s[m + 1])
            /\ \A i \in 1 .. Len(f[m]) : f[m + 1][i] = f[m][i]
            /\ \A i \in 1 .. Size(s[m + 1]) : f[m + 1][Len(f[m]) + i] = seqs[m + 1][i]
        <4> DEFINE g == f[m] \o seqs[m + 1]
        <4>1. /\ Len(f[m]) \in Nat /\ Len(g) = Len(f[m]) + Len(seqs[m + 1])
              /\ \A i \in 1 .. Len(f[m]) : g[i] = f[m][i]
              /\ \A i \in 1 .. Len(seqs[m + 1]) : g[Len(f[m]) + i] = seqs[m + 1][i]
          <5>1. f[m] \in Seq(ClientByte) /\ seqs[m + 1] \in Seq(ClientByte)
            BY <3>1, <3>2
          <5> HIDE DEF ClientByte, g
          <5>2. \A a, b \in Seq(ClientByte) :
                   /\ Len(a) \in Nat /\ Len(a \o b) = Len(a) + Len(b)
                   /\ \A i \in 1 .. Len(a) : (a \o b)[i] = a[i]
                   /\ \A i \in 1 .. Len(b) : (a \o b)[Len(a) + i] = b[i]
            BY Concatenated
          <5> QED
            BY <5>1, <5>2, Zenon DEF g
        <4>2. f[m + 1] = g /\ Len(seqs[m + 1]) = Size(s[m + 1])
          BY <3>1, <3>2
        <4> HIDE DEF g
        <4> QED
          BY <4>1, <4>2
      <3>4. st[m + 1] = Len(f[m]) /\ st[(m + 1) + 1] = Len(f[m + 1])
        <4>1. m + 1 \in 1 .. n + 1 /\ (m + 1) + 1 \in 1 .. n + 1 /\ m + 1 # 1 /\ (m + 1) + 1 # 1
              /\ (m + 1) - 1 = m /\ ((m + 1) + 1) - 1 = m + 1
          BY <3>2, <1>0
        <4> QED
          BY <4>1
      <3> HIDE DEF st
      <3>5. ASSUME NEW k \in 1 .. m + 1, NEW i \in 1 .. Size(s[k])
            PROVE  st[k] + i <= Len(f[m + 1]) /\ f[m + 1][st[k] + i] = Byte(c, k, s[k], i)
        <4>1. CASE k = m + 1
          <5>1. i \in 1 .. Size(s[m + 1]) /\ st[k] = Len(f[m])
            BY <4>1, <3>4
          <5>2. f[m + 1][st[k] + i] = seqs[m + 1][i]
            BY <5>1, <3>3
          <5>3. seqs[m + 1][i] = Byte(c, k, s[k], i)
            BY <5>1, <3>2, <4>1
          <5> QED
            BY <5>1, <5>2, <5>3, <3>2, <3>3
        <4>2. CASE k # m + 1
          <5>1. k \in 1 .. m
            BY <4>2, <3>2
          <5>2. st[k] + i <= Len(f[m]) /\ f[m][st[k] + i] = Byte(c, k, s[k], i)
            BY <5>1, <2>6
          <5>3. st[k] \in Nat
            BY <5>1, <2>6
          <5>4. i \in Nat /\ i >= 1
            BY Sizes, <3>2, <5>1, <1>0
          <5>5. st[k] + i \in 1 .. Len(f[m])
            BY <5>2, <5>3, <5>4, <3>3
          <5>6. f[m + 1][st[k] + i] = f[m][st[k] + i]
            BY <5>5, <3>3
          <5>7. Len(f[m]) <= Len(f[m + 1])
            BY <3>2, <3>3
          <5>8. st[k] + i \in Nat /\ Len(f[m]) \in Nat /\ Len(f[m + 1]) \in Nat
            <6>1. st[k] + i \in Nat
              BY <5>3, <5>4
            <6>2. Len(f[m]) \in Nat
              BY <3>3
            <6>3. Size(s[m + 1]) \in Nat /\ Len(f[m + 1]) = Len(f[m]) + Size(s[m + 1])
              BY <3>2, <3>3
            <6> QED
              BY <6>1, <6>2, <6>3
          <5>9. st[k] + i <= Len(f[m + 1])
            BY <5>2, <5>7, <5>8
          <5> QED
            BY <5>2, <5>6, <5>9
        <4> QED
          BY <4>1, <4>2
      <3>6. st[m + 1] \in Nat /\ st[(m + 1) + 1] \in Nat
            /\ st[(m + 1) + 1] = st[m + 1] + Size(s[m + 1])
        BY <3>2, <3>3, <3>4
      <3>7. \A k \in 1 .. m + 1 : st[k] \in Nat
        <4>1. \A k \in 1 .. m + 1 : k \in 1 .. m \/ k = m + 1
          BY <3>2
        <4> QED
          BY <4>1, <3>6, <2>6
      <3> QED
        BY <3>1, <3>4, <3>5, <3>6, <3>7
    <2>7. \A m \in 1 .. n : Good(m)
      <3> DEFINE T == {m \in Nat : m + 1 \in 1 .. n => Good(m + 1)}
      <3> HIDE DEF Good
      <3>1. 0 \in T
        BY <2>5
      <3>2. ASSUME NEW m \in T PROVE m + 1 \in T
        <4>1. m \in Nat /\ (m + 1 \in 1 .. n => Good(m + 1))
          OBVIOUS
        <4>2. ASSUME (m + 1) + 1 \in 1 .. n PROVE Good((m + 1) + 1)
          <5>1. m + 1 \in 1 .. n - 1 /\ m + 1 \in 1 .. n
            BY <4>1, <4>2, <1>0
          <5> QED
            BY <5>1, <4>1, <2>6
        <4> QED
          BY <4>1, <4>2
      <3>3. T \subseteq Nat
        OBVIOUS
      <3>4. T = Nat
        <4> HIDE DEF T
        <4> QED
          BY <3>1, <3>2, <3>3, Induction
      <3> TAKE m \in 1 .. n
      <3>5. m - 1 \in Nat /\ (m - 1) + 1 = m
        BY <1>0
      <3>6. m - 1 \in T
        BY <3>4, <3>5
      <3> QED
        BY <3>5, <3>6
    <2>8. n \in 1 .. n
      BY <1>0, <1>2
    <2>9. st \in [1 .. n + 1 -> Nat] /\ st[1] = 0
      <3>1. \A k \in 1 .. n + 1 : st[k] \in Nat
        <4>1. \A k \in 1 .. n + 1 : k \in 1 .. n \/ k = n + 1
          BY <1>0
        <4> HIDE DEF st
        <4> QED
          BY <4>1, <2>7, <2>8
      <3> QED
        BY <3>1, <1>0
    <2> HIDE DEF st
    <2>10. \A k \in 1 .. n : st[k + 1] = st[k] + Size(s[k])
      BY <2>7
    <2>11. Layout(c, s, st)
      BY <2>4, <2>7, <2>8, <2>9, <2>10 DEF Layout
    <2> QED
      BY <2>11
  <1> QED
    BY <1>0, <1>1, <1>2

-----------------------------------------------------------------------------
(* Types.  Before the first connection nothing was sent.                   *)

TypeInv == TypeOK /\ (conn = 0 => sent = << >>)

\* Stream is the stream of the script.
LEMMA StreamIs == Stream = StreamOf(conn, sent) /\ Stream' = StreamOf(conn', sent')
  BY DEF Stream, StreamOf

\* The stream, what is copied out of the array, and the offer have their types.
LEMMA StreamTyped ==
    ASSUME TypeInv
    PROVE  StreamOf(conn, sent) \in Seq(Bytes) /\ Len(Stream) \in Nat
  <1>1. PICK st : Layout(conn, sent, st)
    BY StreamLayout DEF TypeInv, TypeOK
  <1>2. StreamOf(conn, sent) \in Seq(ClientByte) /\ ClientByte \subseteq Bytes
    BY <1>1 DEF Layout, ClientByte, Bytes
  <1>3. StreamOf(conn, sent) \in Seq(Bytes)
    <2> HIDE DEF ClientByte, Bytes
    <2> QED
      BY <1>2
  <1> QED
    BY <1>3, StreamIs

LEMMA PeekTyped ==
    ASSUME TypeInv, NEW r \in Rings, NEW n \in Nat
    PROVE  Read(Peek(r, n)) \in Seq(Bytes)
  <1>1. Smaller(n, GetUseSize(r)) \in Nat
    BY UseSize, SizesOK DEF Smaller
  <1>2. \A i \in 1 .. Smaller(n, GetUseSize(r)) : Wrapped(r.read + i - 1) \in Places
    BY UseSize, SizesOK DEF Smaller, Wrapped, Rings, Places
  <1>3. Read(Peek(r, n)) = [i \in 1 .. Smaller(n, GetUseSize(r)) |-> memory[Wrapped(r.read + i - 1)]]
    BY DEF Read, Peek
  <1>4. memory \in [Places -> Bytes]
    BY DEF TypeInv, TypeOK
  <1>5. \A i \in 1 .. Smaller(n, GetUseSize(r)) : memory[Wrapped(r.read + i - 1)] \in Bytes
    BY <1>2, <1>4
  <1> HIDE DEF Bytes
  <1> QED
    BY <1>1, <1>3, <1>5

LEMMA OfferTyped ==
    ASSUME RingInv
    PROVE  Offered \in [at : Places, first : 0 .. BufferSize, second : 0 .. BufferSize]
  <1>1. /\ GetNotBrokenPutSize(ring) \in 0 .. GetFreeSize(ring) /\ GetFreeSize(ring) \in 0 .. BufferSize
    BY OfferSizes, UseSize, SizesOK DEF RingInv, GetFreeSize
  <1>2. ring.write \in Places /\ BufferSize \in Nat
    BY SizesOK DEF RingInv, Rings
  <1> QED
    BY <1>1, <1>2 DEF Offered

LEMMA InitTypes == Init => TypeInv
  <1> SUFFICES ASSUME Init PROVE TypeInv
    OBVIOUS
  <1>1. conn = 0 /\ sent = << >> /\ MaxConnections \in Nat /\ MaxFrames \in Nat
    BY FramesOK DEF Init
  <1>2. Len(Stream) \in Nat
    <2>1. conn \in 0 .. MaxConnections /\ sent \in Seq(Frames) /\ Len(sent) <= MaxFrames
      BY <1>1
    <2>2. PICK st : Layout(conn, sent, st)
      BY <1>1, <2>1, StreamLayout
    <2> QED
      BY <2>1, <2>2, StreamIs DEF Layout
  <1>3. memory \in [Places -> Bytes]
    BY DEF Init, Bytes
  <1>4. ring \in Rings /\ offer \in [at : Places, first : 0 .. BufferSize, second : 0 .. BufferSize]
    BY SizesOK DEF Init, ClearBuffer, NoOffer, Rings, Places
  <1> QED
    BY <1>1, <1>2, <1>3, <1>4, SizesOK DEF Init, TypeInv, TypeOK, Steps

LEMMA TypeStep == TypeInv /\ RingInv /\ [Next]_vars => TypeInv'
  <1> SUFFICES ASSUME TypeInv, RingInv, [Next]_vars PROVE TypeInv'
    OBVIOUS
  <1> USE DEF Goto, Steps
  <1>0. ASSUME UNCHANGED stream PROVE UNCHANGED <<conn, sent>> /\ UNCHANGED Stream
    BY <1>0, StreamIs DEF stream
  <1>1. CASE UNCHANGED vars
    BY <1>0, <1>1 DEF vars, buffer, TypeInv, TypeOK
  <1>2. CASE Connect
    <2>1. conn' \in 1 .. MaxConnections /\ sent' \in Seq(Frames) /\ Len(sent') <= MaxFrames
      BY <1>2, FramesOK DEF Connect, TypeInv, TypeOK
    <2>2. Len(Stream') \in Nat
      <3>1. conn' \in 0 .. MaxConnections /\ conn' # 0
        BY <2>1, FramesOK
      <3>2. PICK st : Layout(conn', sent', st)
        BY <2>1, <3>1, StreamLayout
      <3> QED
        BY <3>2, StreamIs DEF Layout
    <2>3. ring' \in Rings
      BY <1>2, SizesOK DEF Connect, ClearBuffer, Rings, Places
    <2> QED
      BY <1>2, <2>1, <2>2, <2>3, FramesOK DEF Connect, TypeInv, TypeOK
  <1>3. CASE Disconnect
    BY <1>0, <1>3 DEF Disconnect, buffer, TypeInv, TypeOK
  <1>4. CASE ClientCloses
    BY <1>0, <1>4, SizesOK DEF ClientCloses, buffer, TypeInv, TypeOK, NoOffer, Places
  <1>5. CASE ReceiveNothing
    BY <1>0, <1>5, SizesOK DEF ReceiveNothing, buffer, TypeInv, TypeOK, NoOffer, Places
  <1>6. CASE Receive
    <2>1. PICK n \in 1 .. Room :
             /\ arrived + n <= Len(Stream)
             /\ memory' = [p \in Places |->
                   IF \E i \in 1 .. n : OfferedPlace(i) = p
                   THEN Stream[arrived + CHOOSE i \in 1 .. n : OfferedPlace(i) = p]
                   ELSE memory[p]]
             /\ arrived' = arrived + n
             /\ count' = n
      BY <1>6 DEF Receive
    <2>2. n \in Nat /\ n >= 1 /\ n <= BufferSize
      BY OfferIsFree, <1>6, UseSize, SizesOK DEF RingInv, Receive, GetFreeSize
    <2>3. /\ Stream \in Seq(Bytes) /\ Len(Stream) \in Nat /\ arrived \in Nat
          /\ \A j \in 1 .. Len(Stream) : Stream[j] \in Bytes
      BY StreamTyped, StreamIs DEF TypeInv, TypeOK
    <2>4. \A i \in 1 .. n : Stream[arrived + i] \in Bytes
      <3>1. \A i \in 1 .. n : arrived + i \in 1 .. Len(Stream)
        BY <2>1, <2>2, <2>3
      <3> HIDE DEF Bytes
      <3> QED
        BY <2>3, <3>1, Zenon
    <2>5. memory' \in [Places -> Bytes]
      <3>1. memory \in [Places -> Bytes]
        BY DEF TypeInv, TypeOK
      <3>2. ASSUME NEW p \in Places PROVE memory'[p] \in Bytes
        <4>1. CASE \E i \in 1 .. n : OfferedPlace(i) = p
          <5>1. (CHOOSE i \in 1 .. n : OfferedPlace(i) = p) \in 1 .. n
            BY <4>1
          <5> HIDE DEF Bytes
          <5> QED
            BY <2>1, <2>4, <4>1, <5>1
        <4>2. CASE ~\E i \in 1 .. n : OfferedPlace(i) = p
          BY <2>1, <3>1, <4>2
        <4> QED
          BY <4>1, <4>2
      <3> QED
        BY <2>1, <3>2
    <2>6. arrived' \in 0 .. Len(Stream)
      BY <2>1, <2>2, <2>3
    <2> QED
      BY <1>0, <1>6, <2>1, <2>2, <2>5, <2>6, SizesOK DEF Receive, TypeInv, TypeOK, NoOffer, Places
  <1>7. CASE PostRecv
    BY <1>0, <1>7, OfferTyped, SizesOK DEF PostRecv, buffer, TypeInv, TypeOK, NoOffer, Places
  <1>8. CASE RecvComplete
    <2>1. ring' \in Rings
      BY <1>8, RingStep DEF RingInv
    <2> QED
      BY <1>0, <1>8, <2>1, SizesOK DEF RecvComplete, TypeInv, TypeOK
  <1>9. CASE NoFrame
    BY <1>0, <1>9 DEF NoFrame, buffer, TypeInv, TypeOK
  <1>10. CASE TakeFrame
    <2> DEFINE rest == RemoveData(ring, HeaderLen)
    <2>1. PICK n \in Announced(Header) : message' = Read(Peek(rest, n)) \/ UNCHANGED message
      BY <1>10 DEF TakeFrame
    <2>2. n \in Nat /\ rest \in Rings
      BY RemoveUse, FramesOK DEF Announced, Lengths, RingInv
    <2>3. message' \in Seq(Bytes)
      <3>1. Read(Peek(rest, n)) \in Seq(Bytes)
        <4> HIDE DEF rest
        <4> QED
          BY <2>2, PeekTyped
      <3>2. message \in Seq(Bytes)
        BY DEF TypeInv, TypeOK
      <3> QED
        BY <2>1, <3>1, <3>2
    <2>4. ring' \in Rings
      BY RingStep DEF RingInv
    <2>5. socket' \in {"open", "closed"} /\ pc' \in {"decode", "post"}
      BY <1>10 DEF TakeFrame, TypeInv, TypeOK
    <2> QED
      BY <1>0, <1>10, <2>3, <2>4, <2>5 DEF TakeFrame, TypeInv, TypeOK
  <1>11. CASE Decode
    <2>1. socket' \in {"open", "closed"} /\ pc' \in {"deliver", "post"} /\ message' \in {message, << >>}
      BY <1>11 DEF Decode, TypeInv, TypeOK
    <2>2. message' \in Seq(Bytes)
      <3>1. message \in Seq(Bytes) /\ << >> \in Seq(Bytes)
        BY DEF TypeInv, TypeOK
      <3> QED
        BY <2>1, <3>1
    <2> QED
      BY <1>0, <1>11, <2>1, <2>2 DEF Decode, buffer, TypeInv, TypeOK
  <1>12. CASE OnRecv
    BY <1>0, <1>12 DEF OnRecv, buffer, TypeInv, TypeOK
  <1> QED
    BY <1>1, <1>2, <1>3, <1>4, <1>5, <1>6, <1>7, <1>8, <1>9, <1>10, <1>11, <1>12
    DEF Next, Kernel, Server

-----------------------------------------------------------------------------
(* The buffer and the stream.  While the thread is in step with the        *)
(* stream, the buffer holds what has arrived of the frames not taken.      *)

\* How many frames were cut off the stream.
Taken == Len(handed) + IF pc \in {"decode", "deliver"} THEN 1 ELSE 0

\* What was left in the buffer is no frame.
Waiting ==
    \/ GetUseSize(ring) < HeaderLen
    \/ Taken < Len(sent) /\ GetUseSize(ring) < Size(sent[Taken + 1])

Synced(st) ==
    /\ Layout(conn, sent, st)
    /\ Taken <= Len(sent)
    /\ arrived = st[Taken + 1] + (GetUseSize(ring) + count)
    /\ \A j \in 1 .. GetUseSize(ring) + count :
          memory[Wrapped(ring.read + j - 1)] = StreamOf(conn, sent)[st[Taken + 1] + j]
    /\ pc \in {"post", "pending"} => Waiting

InStep == pc \notin {"free", "gone"} /\ ~(pc = "post" /\ socket = "closed")

FrameInv ==
    /\ Len(handed) <= Len(sent)
    /\ \A k \in 1 .. Len(handed) : sent[k].good /\ handed[k] = Payload(conn, k, sent[k])
    /\ pc # "complete" => count = 0
    /\ pc \in {"decode", "deliver"} => Taken <= Len(sent) /\ message = Payload(conn, Taken, sent[Taken])
    /\ pc = "deliver" => sent[Taken].good
    /\ InStep => \E st : Synced(st)

\* The places after those removed.
LEMMA RemoveShift ==
    ASSUME NEW r \in Rings, NEW n \in Nat, n <= GetUseSize(r)
    PROVE  /\ RemoveData(r, n) \in Rings /\ GetUseSize(RemoveData(r, n)) = GetUseSize(r) - n
           /\ \A j \in 1 .. GetUseSize(r) - n :
                 Wrapped(RemoveData(r, n).read + j - 1) = Wrapped(r.read + (n + j) - 1)
  <1>1. /\ r.read \in Places /\ r.write \in Places /\ BufferSize \in Nat \ {0}
        /\ GetUseSize(r) \in 0 .. BufferSize - 1
    BY SizesOK, UseSize DEF Rings
  <1>2. Smaller(n, GetUseSize(r)) = n
    BY <1>1 DEF Smaller
  <1>3. RemoveData(r, n).read = Wrapped(r.read + n)
    BY <1>2 DEF RemoveData, Rings
  <1>4. \A j \in 1 .. GetUseSize(r) - n :
           Wrapped(Wrapped(r.read + n) + j - 1) = Wrapped(r.read + (n + j) - 1)
    BY <1>1 DEF Wrapped, Places
  <1> QED
    BY <1>2, <1>3, <1>4, RemoveUse

\* What Peek copies when all of it is there.
LEMMA PeekAll ==
    ASSUME NEW r \in Rings, NEW n \in Nat, n <= GetUseSize(r)
    PROVE  Read(Peek(r, n)) = [i \in 1 .. n |-> memory[Wrapped(r.read + i - 1)]]
  <1>1. Smaller(n, GetUseSize(r)) = n
    BY UseSize DEF Smaller
  <1> QED
    BY <1>1 DEF Read, Peek

\* In step with the stream, a header in the buffer is that of the next frame.
LEMMA HeaderIsNext ==
    ASSUME TypeInv, RingInv, NEW st, Synced(st), count = 0, GetUseSize(ring) >= HeaderLen
    PROVE  /\ Taken < Len(sent) /\ Taken \in Nat
           /\ Announced(Header) = {sent[Taken + 1].len}
  <1>1. /\ sent \in Seq(Frames) /\ Len(sent) \in Nat /\ handed \in Seq(Seq(Bytes)) /\ arrived \in 0 .. Len(Stream)
        /\ HeaderLen \in Nat \ {0} /\ GetUseSize(ring) \in Nat /\ ring \in Rings
    BY FramesOK, UseSize, SizesOK DEF TypeInv, TypeOK, RingInv
  <1>2. Taken \in Nat
    BY <1>1 DEF Taken
  <1>3. Taken < Len(sent)
    <2>1. arrived = st[Taken + 1] + GetUseSize(ring) /\ Taken <= Len(sent)
      BY <1>1 DEF Synced, Layout
    <2>2. st \in [1 .. Len(sent) + 1 -> Nat] /\ Len(Stream) = st[Len(sent) + 1]
      BY StreamIs DEF Synced, Layout
    <2>3. st[Taken + 1] \in Nat
      <3>1. Taken + 1 \in 1 .. Len(sent) + 1
        BY <1>1, <1>2, <2>1
      <3> HIDE DEF Taken
      <3> QED
        BY <2>2, <3>1
    <2>4. st[Taken + 1] # st[Len(sent) + 1]
      BY <1>1, <2>1, <2>2, <2>3
    <2> QED
      BY <1>1, <1>2, <2>1, <2>4
  <1> DEFINE k == Taken + 1
             frame == sent[k]
  <1>4. k \in 1 .. Len(sent) /\ frame \in Frames
    BY <1>1, <1>2, <1>3
  <1>5. \A i \in 1 .. HeaderLen : memory[Wrapped(ring.read + i - 1)] = Byte(conn, k, frame, i)
    <2>1. TAKE i \in 1 .. HeaderLen
    <2>2. i \in 1 .. GetUseSize(ring) + count /\ i \in 1 .. Size(frame)
      BY <1>1, <1>4, Sizes DEF Size
    <2> QED
      BY <1>4, <2>2 DEF Synced, Layout
  <1>6. Header = [i \in 1 .. HeaderLen |-> Byte(conn, k, frame, i)]
    <2>1. Header = [i \in 1 .. HeaderLen |-> memory[Wrapped(ring.read + i - 1)]]
      BY <1>1, PeekAll DEF Header
    <2> HIDE DEF k, frame
    <2> QED
      BY <1>5, <2>1
  <1> HIDE DEF k, frame
  <1>7. Header[1] = Byte(conn, k, frame, 1) /\ \A i \in 1 .. HeaderLen : Header[i] = Byte(conn, k, frame, i)
    BY <1>1, <1>6
  <1>8. IsHeader(Header)
    BY <1>7 DEF IsHeader, Byte
  <1>9. Announced(Header) = {frame.len}
    BY <1>4, <1>7, <1>8 DEF Announced, Lengths, Byte
  <1> QED
    BY <1>2, <1>3, <1>9 DEF frame, k

\* The next frame, of which every byte is there, is cut off whole.
LEMMA FrameIsNext ==
    ASSUME TypeInv, RingInv, NEW st, Synced(st), count = 0, Taken < Len(sent), Taken \in Nat,
           GetUseSize(ring) >= Size(sent[Taken + 1])
    PROVE  LET n    == sent[Taken + 1].len
               rest == RemoveData(ring, HeaderLen)
               new  == RemoveData(rest, n)
           IN  /\ Read(Peek(rest, n)) = Payload(conn, Taken + 1, sent[Taken + 1])
               /\ GetUseSize(new) = GetUseSize(ring) - Size(sent[Taken + 1])
               /\ st[(Taken + 1) + 1] = st[Taken + 1] + Size(sent[Taken + 1])
               /\ \A j \in 1 .. GetUseSize(new) :
                     memory[Wrapped(new.read + j - 1)]
                        = StreamOf(conn, sent)[st[(Taken + 1) + 1] + j]
  <1> DEFINE k     == Taken + 1
             frame == sent[k]
             n     == frame.len
             rest  == RemoveData(ring, HeaderLen)
             new   == RemoveData(rest, n)
             use   == GetUseSize(ring)
  <1>1. /\ sent \in Seq(Frames) /\ Len(sent) \in Nat /\ use \in Nat /\ ring \in Rings
    BY UseSize, SizesOK DEF TypeInv, TypeOK, RingInv
  <1>2. /\ k \in 1 .. Len(sent) /\ frame \in Frames /\ HeaderLen \in Nat \ {0} /\ n \in Nat \ {0}
        /\ Size(frame) = HeaderLen + n /\ use >= HeaderLen + n
    BY <1>1, Sizes DEF Size
  <1> HIDE DEF frame, n, k
  <1>3. /\ rest \in Rings /\ GetUseSize(rest) = use - HeaderLen
        /\ \A j \in 1 .. use - HeaderLen :
              Wrapped(rest.read + j - 1) = Wrapped(ring.read + (HeaderLen + j) - 1)
    <2>1. HeaderLen <= use /\ HeaderLen \in Nat
      BY <1>1, <1>2
    <2> QED
      BY <1>1, <2>1, RemoveShift
  <1> HIDE DEF rest
  <1>4. /\ GetUseSize(new) = use - HeaderLen - n
        /\ \A j \in 1 .. use - HeaderLen - n :
              Wrapped(new.read + j - 1) = Wrapped(rest.read + (n + j) - 1)
    <2>1. n <= GetUseSize(rest) /\ n \in Nat
      BY <1>1, <1>2, <1>3
    <2>2. GetUseSize(rest) - n = use - HeaderLen - n
      BY <1>3
    <2> QED
      BY <1>3, <2>1, <2>2, RemoveShift
  <1> HIDE DEF new
  <1>5. /\ st[k + 1] = st[k] + Size(frame) /\ st[k] \in Nat
        /\ \A i \in 1 .. Size(frame) : StreamOf(conn, sent)[st[k] + i] = Byte(conn, k, frame, i)
    <2>1. Layout(conn, sent, st)
      BY DEF Synced
    <2>2. st \in [1 .. Len(sent) + 1 -> Nat] /\ k \in 1 .. Len(sent) + 1
      BY <1>1, <1>2, <2>1 DEF Layout
    <2>3. \A j \in 1 .. Len(sent) : st[j + 1] = st[j] + Size(sent[j])
      BY <2>1 DEF Layout
    <2>4. \A i \in 1 .. Size(sent[k]) : StreamOf(conn, sent)[st[k] + i] = Byte(conn, k, sent[k], i)
      BY <1>2, <2>1 DEF Layout
    <2> QED
      BY <1>2, <2>2, <2>3, <2>4 DEF frame
  <1>6. \A j \in 1 .. use : memory[Wrapped(ring.read + j - 1)] = StreamOf(conn, sent)[st[k] + j]
    <2>1. use + count = use
      BY <1>1
    <2> QED
      BY <2>1 DEF Synced, k
  <1> HIDE DEF use
  <1>7. Read(Peek(rest, n)) = Payload(conn, k, frame)
    <2>1. Read(Peek(rest, n)) = [i \in 1 .. n |-> memory[Wrapped(rest.read + i - 1)]]
      <3>1. n <= GetUseSize(rest) /\ n \in Nat
        BY <1>1, <1>2, <1>3
      <3> QED
        BY <1>3, <3>1, PeekAll
    <2>2. \A i \in 1 .. n : memory[Wrapped(rest.read + i - 1)] = Byte(conn, k, frame, HeaderLen + i)
      <3>1. TAKE i \in 1 .. n
      <3>2. /\ i \in 1 .. use - HeaderLen /\ HeaderLen + i \in 1 .. use
            /\ HeaderLen + i \in 1 .. Size(frame)
        BY <1>1, <1>2
      <3>3. Wrapped(rest.read + i - 1) = Wrapped(ring.read + (HeaderLen + i) - 1)
        BY <1>3, <3>2
      <3> QED
        BY <1>5, <1>6, <3>2, <3>3
    <2> QED
      BY <2>1, <2>2 DEF Payload, n
  <1>8. ASSUME NEW j \in 1 .. GetUseSize(new)
        PROVE  memory[Wrapped(new.read + j - 1)] = StreamOf(conn, sent)[st[k + 1] + j]
    <2>1. /\ j \in 1 .. use - HeaderLen - n /\ n + j \in 1 .. use - HeaderLen
          /\ HeaderLen + (n + j) \in 1 .. use
      BY <1>1, <1>2, <1>4
    <2>2. Wrapped(new.read + j - 1) = Wrapped(ring.read + (HeaderLen + (n + j)) - 1)
      BY <1>3, <1>4, <2>1
    <2>3. st[k] + (HeaderLen + (n + j)) = st[k + 1] + j
      BY <1>2, <1>5, <2>1
    <2>4. memory[Wrapped(ring.read + (HeaderLen + (n + j)) - 1)]
             = StreamOf(conn, sent)[st[k] + (HeaderLen + (n + j))]
      BY <1>6, <2>1
    <2> QED
      BY <2>2, <2>3, <2>4
  <1>9. GetUseSize(new) = use - Size(frame)
    BY <1>1, <1>2, <1>4
  <1> QED
    BY <1>5, <1>7, <1>8, <1>9 DEF k, frame, n, rest, new, use

LEMMA InitFrame == Init => FrameInv
  BY DEF Init, FrameInv, InStep

\* A step that leaves the frames taken, the bytes and the stream alone.
LEMMA Unmoved ==
    ASSUME NEW st, Synced(st),
           UNCHANGED <<conn, sent, arrived, ring, memory, count>>, Taken' = Taken,
           pc' \in {"post", "pending"} => Waiting
    PROVE  Synced(st)'
  BY DEF Synced, Waiting

\* What the kernel puts into the room offered follows the bytes that were there.
LEMMA ReceiveSynced ==
    ASSUME TypeInv, RingInv, NEW st, Synced(st), count = 0, Receive, Taken' = Taken
    PROVE  Synced(st)'
  <1>1. PICK n \in 1 .. Room :
           /\ arrived + n <= Len(Stream)
           /\ memory' = [p \in Places |->
                 IF \E i \in 1 .. n : OfferedPlace(i) = p
                 THEN Stream[arrived + CHOOSE i \in 1 .. n : OfferedPlace(i) = p]
                 ELSE memory[p]]
           /\ arrived' = arrived + n
           /\ count' = n
    BY DEF Receive
  <1> DEFINE use == GetUseSize(ring)
             base == st[Taken + 1]
  <1>2. /\ Room = GetFreeSize(ring)
        /\ \A i \in 1 .. Room : /\ OfferedPlace(i) = (ring.write + i - 1) % BufferSize
                                /\ OfferedPlace(i) \notin Unread
    BY OfferIsFree DEF RingInv, Receive
  <1>3. /\ use \in Nat /\ n \in Nat /\ use + n < BufferSize /\ BufferSize \in Nat \ {0}
        /\ ring.read \in Places /\ ring.write \in Places
    BY <1>2, UseSize, SizesOK DEF RingInv, Rings, GetFreeSize
  <1>4. /\ arrived = base + use /\ base \in Nat /\ arrived \in Nat
        /\ \A j \in 1 .. use : memory[Wrapped(ring.read + j - 1)] = StreamOf(conn, sent)[base + j]
    <2>1. use + count = use
      BY <1>3
    <2>2. /\ arrived = base + use
          /\ \A j \in 1 .. use : memory[Wrapped(ring.read + j - 1)] = StreamOf(conn, sent)[base + j]
      BY <2>1 DEF Synced
    <2>3. Taken + 1 \in 1 .. Len(sent) + 1
      BY DEF TypeInv, TypeOK, Synced, Taken
    <2>4. base \in Nat
      BY <2>3 DEF Synced, Layout
    <2> QED
      BY <1>3, <2>2, <2>4
  <1>5. \A i \in 1 .. n : /\ OfferedPlace(i) = Wrapped(ring.read + (use + i) - 1)
                          /\ OfferedPlace(i) \in Places
    <2>1. TAKE i \in 1 .. n
    <2>2. i \in 1 .. Room /\ ring.write + i - 1 \in Nat /\ ring.write + i - 1 < 2 * BufferSize
      BY <1>2, <1>3, UseSize, SizesOK DEF GetFreeSize, Places, RingInv
    <2>3. OfferedPlace(i) = Wrapped(ring.write + i - 1) /\ OfferedPlace(i) \in Places
      BY <1>2, <2>2, ModOnce
    <2>4. Wrapped(ring.write + i - 1) = Wrapped(ring.read + (use + i) - 1)
      BY <1>3 DEF Wrapped, Places, GetUseSize
    <2> QED
      BY <2>3, <2>4
  <1>6. \A j \in 1 .. use : /\ Wrapped(ring.read + j - 1) \in Places
                            /\ \A i \in 1 .. n : OfferedPlace(i) # Wrapped(ring.read + j - 1)
    <2>1. TAKE j \in 1 .. use
    <2>2. Wrapped(ring.read + j - 1) \in Places
      BY <1>3 DEF Wrapped, Places
    <2>3. Wrapped(ring.read + j - 1) \in Unread
      <3>1. Smaller(BufferSize, use) = use
        BY <1>3 DEF Smaller
      <3>2. Peek(ring, BufferSize) = [i \in 1 .. use |-> Wrapped(ring.read + i - 1)]
        BY <3>1 DEF Peek
      <3> QED
        BY <3>2 DEF Unread, Range
    <2>4. \A i \in 1 .. n : i \in 1 .. Room
      BY <1>2, <1>3, SizesOK DEF GetFreeSize
    <2> QED
      BY <1>2, <2>2, <2>3, <2>4
  <1>7. \A i, k \in 1 .. n : OfferedPlace(i) = OfferedPlace(k) => i = k
    <2>1. TAKE i, k \in 1 .. n
    <2>2. Wrapped(ring.read + (use + i) - 1) = Wrapped(ring.read + (use + k) - 1) => i = k
      BY <1>3 DEF Wrapped, Places
    <2> QED
      BY <1>5, <2>2
  <1> HIDE DEF use, base
  <1>8. ASSUME NEW j \in 1 .. use + n
        PROVE  memory'[Wrapped(ring.read + j - 1)] = StreamOf(conn, sent)[base + j]
    <2>1. CASE j <= use
      <3>1. j \in 1 .. use
        BY <2>1, <1>3
      <3>2. memory'[Wrapped(ring.read + j - 1)] = memory[Wrapped(ring.read + j - 1)]
        BY <1>1, <1>6, <3>1
      <3> QED
        BY <1>4, <3>1, <3>2
    <2>2. CASE j > use
      <3> DEFINE i == j - use
                 p == Wrapped(ring.read + j - 1)
      <3>1. i \in 1 .. n /\ use + i = j
        BY <2>2, <1>3
      <3>2. OfferedPlace(i) = p /\ p \in Places
        BY <1>5, <3>1
      <3> HIDE DEF p, i
      <3>3. (CHOOSE h \in 1 .. n : OfferedPlace(h) = p) = i
        BY <1>7, <3>1, <3>2
      <3>4. memory'[p] = Stream[arrived + i]
        BY <1>1, <3>1, <3>2, <3>3
      <3>5. arrived + i = base + j
        BY <1>3, <1>4, <3>1
      <3> QED
        BY <3>4, <3>5, StreamIs DEF p
    <2> QED
      BY <1>3, <2>1, <2>2
  <1>9. arrived' = base + (use + n)
    BY <1>1, <1>3, <1>4
  <1>10. /\ conn' = conn /\ sent' = sent /\ ring' = ring /\ count' = n /\ pc' = "complete"
    BY <1>1 DEF Receive, stream
  <1> QED
    BY <1>8, <1>9, <1>10 DEF Synced, use, base

LEMMA FrameStep == TypeInv /\ RingInv /\ FrameInv /\ [Next]_vars => FrameInv'
  <1> SUFFICES ASSUME TypeInv, RingInv, FrameInv, [Next]_vars PROVE FrameInv'
    OBVIOUS
  <1> USE DEF Goto
  <1>a. /\ sent \in Seq(Frames) /\ Len(sent) \in Nat /\ Len(handed) \in Nat /\ handed \in Seq(Seq(Bytes))
        /\ Taken \in Nat
    BY DEF TypeInv, TypeOK, Taken
  <1>1. CASE UNCHANGED vars
    <2>1. Taken' = Taken /\ InStep' = InStep
      BY <1>1 DEF vars, Taken, InStep
    <2>2. \A st : Synced(st) => Synced(st)'
      BY <1>1, <2>1 DEF vars, stream, buffer, Synced, Waiting
    <2> QED
      BY <1>1, <2>1, <2>2 DEF vars, stream, FrameInv
  <1>2. CASE Connect
    <2>1. /\ conn' \in 0 .. MaxConnections /\ conn' # 0 /\ sent' \in Seq(Frames) /\ Len(sent') <= MaxFrames
          /\ Len(sent') \in Nat
      BY <1>2, FramesOK DEF Connect, TypeInv, TypeOK
    <2>2. PICK st : Layout(conn', sent', st)
      BY <2>1, StreamLayout
    <2>3. /\ handed' = << >> /\ arrived' = 0 /\ pc' = "post" /\ ring' = ClearBuffer /\ count' = 0
      BY <1>2 DEF Connect, FrameInv
    <2>4. GetUseSize(ring') = 0 /\ Taken' = 0
      BY <2>3 DEF GetUseSize, ClearBuffer, Taken
    <2>5. st[1] = 0
      BY <2>2 DEF Layout
    <2>6. Synced(st)'
      <3>1. Waiting'
        BY <2>4, FramesOK DEF Waiting
      <3>2. arrived' = st[Taken' + 1] + (GetUseSize(ring') + count')
        BY <2>3, <2>4, <2>5
      <3>3. 1 .. GetUseSize(ring') + count' = {}
        BY <2>3, <2>4
      <3> QED
        BY <2>1, <2>2, <2>4, <3>1, <3>2, <3>3 DEF Synced
    <2> QED
      BY <2>1, <2>3, <2>6 DEF FrameInv
  <1>3. CASE Disconnect
    <2>1. /\ UNCHANGED <<conn, sent, arrived, ring, memory, count, handed, message, pc>> /\ socket' = "closed"
      BY <1>3 DEF Disconnect, stream, buffer
    <2>2. Taken' = Taken /\ (InStep' => InStep)
      BY <1>3, <2>1 DEF Taken, InStep, Disconnect
    <2>3. \A st : Synced(st) => Synced(st)'
      BY <2>1, <2>2, Unmoved DEF Synced
    <2> QED
      BY <2>1, <2>2, <2>3 DEF FrameInv
  <1>4. CASE ClientCloses
    BY <1>4 DEF ClientCloses, stream, buffer, FrameInv, InStep
  <1>5. CASE ReceiveNothing
    BY <1>5 DEF ReceiveNothing, stream, buffer, FrameInv, InStep
  <1>6. CASE Receive
    <2>1. /\ UNCHANGED <<conn, sent, ring, handed, message>> /\ pc = "pending" /\ pc' = "complete"
      BY <1>6 DEF Receive, stream
    <2>2. Taken' = Taken /\ InStep /\ count = 0
      BY <2>1 DEF Taken, InStep, FrameInv
    <2>3. \A st : Synced(st) => Synced(st)'
      BY <1>6, <2>2, ReceiveSynced
    <2> QED
      BY <2>1, <2>2, <2>3 DEF FrameInv
  <1>7. CASE PostRecv
    <2>1. /\ UNCHANGED <<conn, sent, arrived, ring, memory, count, handed, message, socket>> /\ pc = "post"
          /\ pc' \in {"pending", "gone"} /\ (socket = "closed" => pc' = "gone")
      BY <1>7 DEF PostRecv, stream, buffer
    <2>2. Taken' = Taken /\ (InStep' => InStep)
      BY <2>1 DEF Taken, InStep
    <2>3. \A st : Synced(st) => Synced(st)'
      BY <2>1, <2>2, Unmoved DEF Synced
    <2> QED
      BY <2>1, <2>2, <2>3 DEF FrameInv
  <1>8. CASE RecvComplete
    <2>1. /\ UNCHANGED <<conn, sent, arrived, memory, handed, message>>
          /\ pc = "complete" /\ pc' = "loop" /\ count' = 0 /\ ring' = MoveWritePos(ring, count)
          /\ count \in Nat /\ count <= GetFreeSize(ring)
      BY <1>8 DEF RecvComplete, stream, RingInv
    <2>2. Taken' = Taken /\ InStep
      BY <2>1 DEF Taken, InStep
    <2>3. /\ GetUseSize(ring') = GetUseSize(ring) + count /\ GetUseSize(ring) \in Nat
          /\ ring'.read = ring.read
      BY <2>1, WriteUse, UseSize, SizesOK DEF RingInv, MoveWritePos, Rings
    <2>4. GetUseSize(ring') + count' = GetUseSize(ring) + count
      BY <2>1, <2>3
    <2>5. \A st : Synced(st) => Synced(st)'
      BY <2>1, <2>2, <2>3, <2>4 DEF Synced
    <2> QED
      BY <2>1, <2>2, <2>5 DEF FrameInv
  <1>9. CASE NoFrame
    <2>1. /\ UNCHANGED <<conn, sent, arrived, ring, memory, count, handed, message>>
          /\ pc = "loop" /\ pc' = "post"
      BY <1>9 DEF NoFrame, stream, buffer
    <2>2. Taken' = Taken /\ InStep /\ count = 0
      BY <2>1 DEF Taken, InStep, FrameInv
    <2>3. ASSUME NEW st, Synced(st) PROVE Synced(st)'
      <3>1. Waiting
        <4>1. CASE GetUseSize(ring) < HeaderLen
          BY <4>1 DEF Waiting
        <4>2. CASE GetUseSize(ring) >= HeaderLen /\ \E n \in Announced(Header) : ~FrameIsThere(n)
          <5>1. Taken < Len(sent) /\ ~FrameIsThere(sent[Taken + 1].len)
            BY <2>2, <2>3, <4>2, HeaderIsNext
          <5>2. sent[Taken + 1] \in Frames
            BY <1>a, <5>1
          <5> QED
            BY <5>1, <5>2, Sizes, UseSize DEF FrameIsThere, Waiting, Size, RingInv
        <4> QED
          BY <1>9, <4>1, <4>2 DEF NoFrame
      <3> QED
        BY <2>1, <2>2, <2>3, <3>1, Unmoved
    <2> QED
      BY <2>1, <2>2, <2>3 DEF FrameInv
  <1>10. CASE TakeFrame
    <2> DEFINE frame == sent[Taken + 1]
               rest  == RemoveData(ring, HeaderLen)
               new   == RemoveData(rest, frame.len)
               got   == Read(Peek(rest, frame.len))
    <2>1. /\ UNCHANGED <<conn, sent, arrived, memory, count, handed>>
          /\ pc = "loop" /\ GetUseSize(ring) >= HeaderLen
      BY <1>10 DEF TakeFrame, stream
    <2>2. InStep /\ count = 0 /\ Taken = Len(handed)
      BY <1>a, <2>1 DEF Taken, InStep, FrameInv
    <2>3. PICK st : Synced(st)
      BY <2>2 DEF FrameInv
    <2>4. Taken < Len(sent) /\ Announced(Header) = {frame.len}
      BY <2>1, <2>2, <2>3, HeaderIsNext
    <2>5. /\ FrameIsThere(frame.len)
          /\ IF Len(got) = frame.len
             THEN message' = got /\ ring' = new /\ pc' = "decode"
             ELSE ring' = rest /\ socket' = "closed" /\ pc' = "post"
      <3> HIDE DEF frame
      <3> QED
        BY <1>10, <2>4 DEF TakeFrame
    <2>6. frame \in Frames /\ frame.len \in Nat /\ GetUseSize(ring) >= Size(frame)
      <3>1. frame \in Frames
        BY <1>a, <2>4
      <3> QED
        BY <2>5, <3>1, Sizes DEF FrameIsThere, Size
    <2>7. /\ got = Payload(conn, Taken + 1, frame)
          /\ GetUseSize(new) = GetUseSize(ring) - Size(frame)
          /\ st[(Taken + 1) + 1] = st[Taken + 1] + Size(frame)
          /\ \A j \in 1 .. GetUseSize(new) :
                memory[Wrapped(new.read + j - 1)] = StreamOf(conn, sent)[st[(Taken + 1) + 1] + j]
      BY <1>a, <2>2, <2>3, <2>4, <2>6, FrameIsNext
    <2>8. Len(got) = frame.len
      BY <2>6, <2>7 DEF Payload
    <2>9. message' = got /\ ring' = new /\ pc' = "decode"
      BY <2>5, <2>8
    <2>10. Taken' = Taken + 1 /\ InStep' /\ Taken + 1 <= Len(sent)
      BY <1>a, <2>1, <2>2, <2>4, <2>9 DEF Taken, InStep
    <2> HIDE DEF frame, rest, new, got
    <2>11. Synced(st)'
      <3>1. arrived = st[Taken + 1] + GetUseSize(ring) /\ GetUseSize(ring) \in Nat
        BY <2>2, <2>3, UseSize, SizesOK DEF Synced, RingInv
      <3>2. st[Taken + 1] \in Nat /\ Size(frame) \in Nat
        <4>1. Taken + 1 \in 1 .. Len(sent) + 1
          BY <1>a, <2>4
        <4> QED
          BY <2>3, <2>6, <4>1, Sizes DEF Synced, Layout
      <3>3. arrived' = st[Taken' + 1] + (GetUseSize(ring') + count')
        BY <2>1, <2>2, <2>7, <2>9, <2>10, <3>1, <3>2
      <3>4. GetUseSize(ring') + count' = GetUseSize(new)
        BY <2>1, <2>2, <2>7, <2>9, <3>1, <3>2
      <3>5. \A j \in 1 .. GetUseSize(ring') + count' :
               memory'[Wrapped(ring'.read + j - 1)] = StreamOf(conn', sent')[st[Taken' + 1] + j]
        BY <2>1, <2>7, <2>9, <2>10, <3>4
      <3> QED
        BY <2>1, <2>3, <2>9, <2>10, <3>3, <3>5 DEF Synced
    <2>12. message' = Payload(conn', Taken', sent'[Taken'])
      BY <2>1, <2>7, <2>9, <2>10 DEF frame
    <2> QED
      BY <2>1, <2>2, <2>9, <2>10, <2>11, <2>12 DEF FrameInv
  <1>11. CASE Decode
    <2>1. /\ UNCHANGED <<conn, sent, arrived, ring, memory, count, handed>> /\ pc = "decode"
      BY <1>11 DEF Decode, stream, buffer
    <2>2. /\ InStep /\ Taken = Len(handed) + 1 /\ Taken <= Len(sent) /\ count = 0
          /\ message = Payload(conn, Taken, sent[Taken])
      BY <2>1 DEF Taken, InStep, FrameInv
    <2>3. Verdicts = {sent[Taken].good}
      <3> DEFINE frame == sent[Taken]
      <3>1. frame \in Frames
        BY <1>a, <2>2
      <3>2. frame.len \in Nat \ {0}
        BY <3>1, Sizes
      <3> HIDE DEF frame
      <3>3. message[1] = Byte(conn, Taken, frame, HeaderLen + 1)
        BY <2>2, <3>2 DEF Payload, frame
      <3>4. /\ message[1].conn = conn /\ message[1].number = Taken /\ message[1].frame = frame
        BY <3>3 DEF Byte
      <3> QED
        BY <2>2, <3>4 DEF Verdicts, frame
    <2>4. CASE sent[Taken].good /\ pc' = "deliver" /\ UNCHANGED <<socket, message>>
      <3>1. Taken' = Taken
        BY <2>1, <2>4 DEF Taken
      <3>2. \A st : Synced(st) => Synced(st)'
        BY <2>1, <2>4, <3>1, Unmoved
      <3> QED
        BY <2>1, <2>2, <2>4, <3>1, <3>2 DEF FrameInv
    <2>5. CASE pc' = "post" /\ socket' = "closed"
      BY <2>1, <2>2, <2>5 DEF FrameInv, InStep
    <2> QED
      BY <1>11, <2>3, <2>4, <2>5 DEF Decode
  <1>12. CASE OnRecv
    <2>1. /\ UNCHANGED <<conn, sent, arrived, ring, memory, count>> /\ pc = "deliver" /\ pc' = "loop"
          /\ handed' = Append(handed, message)
      BY <1>12 DEF OnRecv, stream, buffer
    <2>2. /\ InStep /\ Taken = Len(handed) + 1 /\ Taken <= Len(sent) /\ count = 0
          /\ message = Payload(conn, Taken, sent[Taken]) /\ sent[Taken].good
      BY <2>1 DEF Taken, InStep, FrameInv
    <2>3. /\ Len(handed') = Len(handed) + 1 /\ handed'[Len(handed) + 1] = message
          /\ \A k \in 1 .. Len(handed) : handed'[k] = handed[k]
      BY <1>a, <2>1
    <2>4. Taken' = Taken
      BY <1>a, <2>1, <2>2, <2>3 DEF Taken
    <2>5. \A st : Synced(st) => Synced(st)'
      BY <2>1, <2>4, Unmoved
    <2>6. \A k \in 1 .. Len(handed') : sent'[k].good /\ handed'[k] = Payload(conn', k, sent'[k])
      <3>1. \A k \in 1 .. Len(handed') : k \in 1 .. Len(handed) \/ k = Taken
        BY <1>a, <2>2, <2>3
      <3> QED
        BY <2>1, <2>2, <2>3, <3>1 DEF FrameInv
    <2> QED
      BY <2>1, <2>2, <2>3, <2>5, <2>6 DEF FrameInv
  <1> QED
    BY <1>1, <1>2, <1>3, <1>4, <1>5, <1>6, <1>7, <1>8, <1>9, <1>10, <1>11, <1>12
    DEF Next, Kernel, Server

-----------------------------------------------------------------------------
(* The theorems.                                                           *)

LEMMA AlwaysInStep == Spec => [](TypeInv /\ RingInv /\ FrameInv)
  <1>1. Init => TypeInv /\ RingInv /\ FrameInv
    BY InitTypes, InitRing, InitFrame
  <1>2. TypeInv /\ RingInv /\ FrameInv /\ [Next]_vars => (TypeInv /\ RingInv /\ FrameInv)'
    BY TypeStep, RingStep, FrameStep
  <1> QED
    BY <1>1, <1>2, PTL DEF Spec

\* Every variable of the receive path keeps its type: the positions stay inside the array and
\* no more bytes arrive than were sent.
THEOREM TypeCorrect == Spec => []TypeOK
  <1>1. TypeInv => TypeOK
    BY DEF TypeInv
  <1> QED
    BY <1>1, AlwaysInStep, PTL

\* What PostRecv gives WSARecv to write to is the free room of the buffer and nothing else,
\* wherever the data and the blank lie.
THEOREM RoomCorrect == Spec => []RoomIsFree
  <1>1. RingInv => RoomIsFree
    BY OfferIsFree DEF RingInv, RoomIsFree
  <1> QED
    BY <1>1, InitRing, RingStep, PTL DEF Spec

\* PostRecv has no room to offer only when the frame RecvComplete waits for is longer than the
\* buffer can hold: no client whose frames fit is dropped for sending fast.
THEOREM FullOnlyIfTooLong == Spec => []FullIsTooLong
  <1>1. TypeInv /\ RingInv /\ FrameInv => FullIsTooLong
    <2> SUFFICES ASSUME TypeInv, RingInv, FrameInv, pc = "pending", Room = 0
                 PROVE  /\ Len(handed) < Len(sent)
                        /\ HeaderLen + sent[Len(handed) + 1].len > BufferSize - BlankSize
      BY DEF FullIsTooLong
    <2>1. PICK st : Synced(st)
      BY DEF FrameInv, InStep
    <2>2. Waiting /\ Taken = Len(handed)
      BY <2>1 DEF Synced, Taken, TypeInv, TypeOK
    <2>3. GetUseSize(ring) = BufferSize - BlankSize
      BY OfferIsFree, UseSize, SizesOK DEF RingInv, GetFreeSize
    <2>4. HeaderLen <= BufferSize - BlankSize /\ HeaderLen \in Nat
      BY FramesOK
    <2>5. Len(handed) < Len(sent) /\ GetUseSize(ring) < Size(sent[Len(handed) + 1])
      BY <2>2, <2>3, <2>4, SizesOK DEF Waiting
    <2>6. sent[Len(handed) + 1] \in Frames
      BY <2>5 DEF TypeInv, TypeOK
    <2> QED
      BY <2>3, <2>5, <2>6, Sizes DEF Size
  <1> QED
    BY <1>1, AlwaysInStep, PTL

\* FramingSpec: however the stream is cut into completions and wherever it wraps, OnRecv gets
\* the frames of the connection whole, once and in order, and none after one that is bad.
THEOREM ImplementsFrames == Spec => FramingSpec
  <1> DEFINE Sent == [k \in DOMAIN sent |->
                        [good |-> sent[k].good, payload |-> Payload(conn, k, sent[k])]]
  <1>1. Init => Promise!Init
    <2> SUFFICES ASSUME Init PROVE Promise!Init
      OBVIOUS
    <2>1. DOMAIN sent = {} /\ Sent = << >>
      BY DEF Init
    <2> QED
      BY <2>1 DEF Init, Promise!Init
  <1>2. TypeInv /\ RingInv /\ FrameInv /\ [Next]_vars => [Promise!Next]_(Promise!vars)
    <2> SUFFICES ASSUME TypeInv, RingInv, FrameInv, [Next]_vars
                 PROVE  Promise!Next \/ UNCHANGED <<Sent, handed>>
      BY DEF Promise!vars
    <2> USE DEF Goto
    <2>a. /\ sent \in Seq(Frames) /\ Len(sent) \in Nat /\ Len(handed) \in Nat
      BY DEF TypeInv, TypeOK
    <2>b. ASSUME UNCHANGED <<conn, sent>> PROVE UNCHANGED Sent
      BY <2>b
    <2>1. CASE Connect
      <3>1. conn' \in 1 .. MaxConnections /\ sent' \in Seq(Frames) /\ Len(sent') <= MaxFrames
            /\ handed' = << >>
        BY <2>1, FramesOK DEF Connect, TypeInv, TypeOK
      <3>2. Sent' \in Seq([good : BOOLEAN, payload : {Payload(c, k, frame) :
                c \in 1 .. MaxConnections, k \in 1 .. MaxFrames, frame \in Frames}])
        <4> DEFINE P == {Payload(c, k, frame) :
                            c \in 1 .. MaxConnections, k \in 1 .. MaxFrames, frame \in Frames}
        <4>1. Len(sent') \in Nat /\ DOMAIN sent' = 1 .. Len(sent') /\ MaxFrames \in Nat
          BY <3>1, FramesOK
        <4>2. ASSUME NEW k \in 1 .. Len(sent')
              PROVE  sent'[k].good \in BOOLEAN /\ Payload(conn', k, sent'[k]) \in P
          <5>1. sent'[k] \in Frames /\ k \in 1 .. MaxFrames
            BY <3>1, <4>1
          <5> QED
            BY <3>1, <5>1, Sizes
        <4> HIDE DEF P
        <4>3. Sent' \in [1 .. Len(sent') -> [good : BOOLEAN, payload : P]]
          BY <4>1, <4>2
        <4> HIDE DEF Sent
        <4>4. Sent' \in Seq([good : BOOLEAN, payload : P])
          <5> DEFINE Q == [good : BOOLEAN, payload : P]
          <5> HIDE DEF Q
          <5>1. \A f : f \in [1 .. Len(sent') -> Q] => f \in Seq(Q)
            BY <4>1
          <5> QED
            BY <4>3, <5>1 DEF Q
        <4> QED
          BY <4>4 DEF P
      <3> QED
        BY <3>1, <3>2 DEF Promise!Next, Promise!Open
    <2>2. CASE OnRecv
      <3>1. /\ UNCHANGED <<conn, sent>> /\ pc = "deliver" /\ handed' = Append(handed, message)
        BY <2>2 DEF OnRecv, stream
      <3>2. /\ Taken = Len(handed) + 1 /\ Taken <= Len(sent) /\ sent[Taken].good
            /\ message = Payload(conn, Taken, sent[Taken])
        BY <3>1 DEF Taken, FrameInv
      <3>3. Taken \in DOMAIN sent
        BY <2>a, <3>2
      <3>4. /\ Sent[Taken].good = sent[Taken].good /\ Sent[Taken].payload = message
            /\ Len(Sent) = Len(sent)
        <4>1. Sent[Taken] = [good |-> sent[Taken].good, payload |-> Payload(conn, Taken, sent[Taken])]
          BY <3>3
        <4>2. DOMAIN Sent = 1 .. Len(sent)
          BY <2>a
        <4> HIDE DEF Sent
        <4>3. Len(Sent) = Len(sent)
          BY <2>a, <4>2
        <4>4. Sent[Taken].good = sent[Taken].good /\ Sent[Taken].payload = Payload(conn, Taken, sent[Taken])
          BY <4>1
        <4> QED
          BY <3>2, <4>3, <4>4
      <3>5. UNCHANGED Sent
        BY <2>b, <3>1
      <3> HIDE DEF Sent
      <3>6. /\ Len(handed) < Len(Sent) /\ Sent[Len(handed) + 1].good
            /\ handed' = Append(handed, Sent[Len(handed) + 1].payload)
        BY <2>a, <3>1, <3>2, <3>4
      <3>7. Promise!Hand
        BY <3>5, <3>6 DEF Promise!Hand, Sent
      <3> QED
        BY <3>7 DEF Promise!Next
    <2>3. CASE ~Connect /\ ~OnRecv
      <3>1. UNCHANGED <<conn, sent, handed>>
        BY <2>3 DEF vars, stream, Next, Kernel, Server, Disconnect, ClientCloses, Receive,
           ReceiveNothing, PostRecv, RecvComplete, NoFrame, TakeFrame, Decode
      <3> QED
        BY <2>b, <3>1
    <2> QED
      BY <2>1, <2>2, <2>3
  <1> QED
    BY <1>1, <1>2, AlwaysInStep, PTL DEF Spec, FramingSpec, Promise!Spec
=============================================================================
