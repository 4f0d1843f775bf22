----------------------------- MODULE RingBuffer -----------------------------
(***************************************************************************)
(* RingBuffer: the receive buffer of a session, a circular array of        *)
(* _bufferSize bytes of which BLANK_SIZE always stay empty.  The operators *)
(* take the pair of positions and give the pair after the call; what is in *)
(* the array is the business of the caller.                                *)
(*                                                                         *)
(* Put, Get and GetNotBrokenGetSize, which the program never calls, are    *)
(* left out.                                                               *)
(***************************************************************************)
EXTENDS Integers

CONSTANTS
    BufferSize,   \* _bufferSize: 40008 in the code
    BlankSize     \* BLANK_SIZE: 8 in the code

ASSUME SizesOK == BufferSize \in Nat /\ BlankSize \in 1 .. BufferSize - 1

Places == 0 .. BufferSize - 1

\* _readPos and _writePos.
Rings == [read : Places, write : Places]

Smaller(a, b) == IF a <= b THEN a ELSE b

\* A position after the last place is the first one again.
Wrapped(place) == IF place >= BufferSize THEN place - BufferSize ELSE place

ClearBuffer == [read |-> 0, write |-> 0]

GetUseSize(r) ==
    IF r.read <= r.write THEN r.write - r.read ELSE BufferSize - r.read + r.write

GetFreeSize(r) == BufferSize - (GetUseSize(r) + BlankSize)

\* Faulty variant: forgets that the blank may lie at the end of the array.
NoBlankAtEnd(r) ==
    IF r.write < r.read THEN r.read - r.write - BlankSize ELSE BufferSize - r.write

\* How much fits without going past the end of the array: the blank lies before the read
\* position, so part of it lies at the end when the read position is among the first places.
GetNotBrokenPutSize(r) ==
    IF r.write < r.read THEN r.read - r.write - BlankSize
    ELSE BufferSize - r.write - (BlankSize - Smaller(r.read, BlankSize))

\* Faulty variant: the write position runs past the end of the array.
MoveUnwrapped(r, n) == [r EXCEPT !.write = @ + n]

MoveWritePos(r, n) == [r EXCEPT !.write = (@ + n) % BufferSize]

RemoveData(r, n) == [r EXCEPT !.read = Wrapped(@ + Smaller(n, GetUseSize(r)))]

\* The places Peek copies, in the order it copies them.
Peek(r, n) == [i \in 1 .. Smaller(n, GetUseSize(r)) |-> Wrapped(r.read + i - 1)]
=============================================================================
