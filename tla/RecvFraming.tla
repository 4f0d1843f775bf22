----------------------------- MODULE RecvFraming -----------------------------
(***************************************************************************)
(* How one session slot receives: PostRecv offers the free room of the     *)
(* receive buffer to the kernel, the kernel puts there whatever part of    *)
(* the client's byte stream has arrived, and RecvComplete cuts the bytes   *)
(* into frames, decodes each and hands it to OnRecv.  A session has one    *)
(* receive outstanding, so one thread at a time works on the buffer; what  *)
(* varies is how the stream is cut into completions, where the buffer      *)
(* wraps, and when the connection ends and the slot is used again.         *)
(*                                                                         *)
(* A byte is what it means: its connection, its frame, the number of the   *)
(* frame and its place in the frame.  Payloads fit a CMessage.             *)
(***************************************************************************)
EXTENDS RingBuffer, Sequences, FiniteSets, SequencesExt

CONSTANTS
    HeaderLen,       \* dfMESSAGE_HEADER_LEN and sizeof(st_PACKET_HEADER): 5 in the code
    Frames,          \* the frames clients send: whether they decode, the payload length
    Scripts,         \* the sequences of frames clients send over one connection
    MaxFrames,       \* bound: their length
    MaxConnections   \* bound: connections that use the slot, one after the other

ASSUME FramesOK ==
    /\ HeaderLen \in Nat \ {0} /\ HeaderLen <= BufferSize - BlankSize
    /\ Frames \subseteq [good : BOOLEAN, len : Nat \ {0}]
    /\ Scripts \subseteq Seq(Frames) /\ \A script \in Scripts : Len(script) <= MaxFrames
    /\ MaxFrames \in Nat /\ MaxConnections \in Nat

VARIABLES
    conn,      \* which connection uses the slot
    sent,      \* the frames its client sends over it, in order: [good, len]
    arrived,   \* how many bytes of its stream the kernel has put in the buffer
    socket,    \* "open"; "closed" by DisconnectSession or a reset
    ring,      \* _readPos and _writePos of RecvBuffer
    memory,    \* what is in the array of RecvBuffer
    offer,     \* the WSABUFs of the receive that is outstanding: one from a place, and what is
               \* left from the start of the array: [at, first, second]
    count,     \* cbTransferred of the completion being worked on
    message,   \* payload of the CMessage being worked on
    handed,    \* history: what OnRecv was given over this connection
    pc         \* where the thread that works on the receive is

stream == <<conn, sent>>
buffer == <<ring, memory>>
vars   == <<stream, arrived, socket, buffer, offer, count, message, handed, pc>>

Steps  == {"free", "post", "pending", "complete", "loop", "decode", "deliver", "gone"}

\* The bytes of a frame, the k-th of connection c, header first; and those of its payload.
Byte(c, k, frame, i)    == [conn |-> c, number |-> k, frame |-> frame, at |-> i]
FrameBytes(c, k, frame) == [i \in 1 .. HeaderLen + frame.len |-> Byte(c, k, frame, i)]
Payload(c, k, frame)    == [i \in 1 .. frame.len |-> Byte(c, k, frame, HeaderLen + i)]

NoOffer == [at |-> 0, first |-> 0, second |-> 0]

NoByte == Byte(0, 0, [good |-> FALSE, len |-> 0], 0)
Stream == FlattenSeq([k \in 1 .. Len(sent) |-> FrameBytes(conn, k, sent[k])])
Room   == offer.first + offer.second

\* The bytes at the given places of the array.
Read(places) == [i \in DOMAIN places |-> memory[places[i]]]

Goto(from, to) == pc = from /\ pc' = to

Init ==
    /\ conn = 0 /\ sent = <<>> /\ arrived = 0
    /\ socket = "closed"
    /\ ring = ClearBuffer /\ memory = [p \in Places |-> NoByte]
    /\ offer = NoOffer /\ count = 0 /\ message = <<>> /\ handed = <<>>
    /\ pc = "free"

-----------------------------------------------------------------------------
(* The network and the kernel.                                             *)

\* The i-th place of the offered room, in the order the kernel fills it.
OfferedPlace(i) == IF i <= offer.first THEN offer.at + i - 1 ELSE i - offer.first - 1

\* The kernel completes the receive with some of the bytes that have come.
Receive ==
    /\ pc = "pending" /\ socket = "open"
    /\ \E n \in 1 .. Room :
          /\ arrived + n <= Len(Stream)
          /\ memory' = [p \in Places |->
                IF \E i \in 1 .. n : OfferedPlace(i) = p
                THEN Stream[arrived + CHOOSE i \in 1 .. n : OfferedPlace(i) = p]
                ELSE memory[p]]
          /\ arrived' = arrived + n
          /\ count' = n
    /\ offer' = NoOffer
    /\ pc' = "complete"
    /\ UNCHANGED <<stream, socket, ring, message, handed>>

\* The receive completes with no byte: the socket is closed, or no room was offered for the
\* bytes that came.  The worker gives up the receive's reference and the session ends.
ReceiveNothing ==
    /\ Goto("pending", "gone")
    /\ \/ socket = "closed"
       \/ Room = 0 /\ arrived < Len(Stream)
    /\ offer' = NoOffer
    /\ UNCHANGED <<stream, arrived, socket, buffer, count, message, handed>>

\* So it does when the client closes after its last frame.  A client that closes before is
\* one whose connection is reset.
ClientCloses ==
    /\ Goto("pending", "gone")
    /\ arrived = Len(Stream)
    /\ offer' = NoOffer
    /\ UNCHANGED <<stream, arrived, socket, buffer, count, message, handed>>

-----------------------------------------------------------------------------
(* The server.                                                             *)

\* Faulty variant: a slot used again keeps the positions of its last connection.
ConnectUncleared ==
    /\ pc \in {"free", "gone"} /\ pc' = "post"
    /\ conn < MaxConnections
    /\ conn' = conn + 1
    /\ sent' \in Scripts /\ arrived' = 0 /\ handed' = <<>>
    /\ socket' = "open"
    /\ UNCHANGED <<ring, memory, offer, count, message>>

\* InsertSession clears the positions, not the array.
Connect ==
    /\ pc \in {"free", "gone"} /\ pc' = "post"
    /\ conn < MaxConnections
    /\ conn' = conn + 1
    /\ sent' \in Scripts /\ arrived' = 0 /\ handed' = <<>>
    /\ socket' = "open"
    /\ ring' = ClearBuffer
    /\ UNCHANGED <<memory, offer, count, message>>

\* Some other thread calls Disconnect, or the connection is reset, which looks the same from
\* here: no receive succeeds any more, and what has not been received is lost.
Disconnect ==
    /\ pc \notin {"free", "gone"} /\ socket = "open"
    /\ socket' = "closed"
    /\ UNCHANGED <<stream, arrived, buffer, offer, count, message, handed, pc>>

\* One WSABUF up to the end of the array, and one from its start if there is room left.
Offered ==
    LET first == GetNotBrokenPutSize(ring)
        free  == GetFreeSize(ring)
    IN  [at |-> ring.write, first |-> first,
         second |-> IF first < free THEN free - first ELSE 0]

\* WSARecv fails on a socket that was closed, and the session ends.
PostRecv ==
    /\ pc = "post"
    /\ IF socket = "open"
       THEN offer' = Offered /\ pc' = "pending"
       ELSE offer' = NoOffer /\ pc' = "gone"
    /\ UNCHANGED <<stream, arrived, socket, buffer, count, message, handed>>

RecvComplete ==
    /\ Goto("complete", "loop")
    /\ ring' = MoveWritePos(ring, count)
    /\ count' = 0
    /\ UNCHANGED <<stream, arrived, socket, memory, offer, message, handed>>

\* The payload length a header announces.  Bytes that are no header may announce anything.
Lengths           == {frame.len : frame \in Frames}
IsHeader(bytes)   == LET b == bytes[1] IN
                     \A i \in 1 .. HeaderLen : bytes[i] = Byte(b.conn, b.number, b.frame, i)
Announced(header) == {n \in Lengths : IsHeader(header) => n = header[1].frame.len}

\* Faulty variant: a frame that ends where the data ends is not taken.
FrameIsInside(n) == GetUseSize(ring) > HeaderLen + n

\* The test of the loop, when the header announces n bytes.
FrameIsThere(n) == GetUseSize(ring) >= HeaderLen + n

\* What the loop finds in a header of which every byte is there.
Header == Read(Peek(ring, HeaderLen))

\* The loop ends: less than a header, or less than the frame its header announces.
NoFrame ==
    /\ Goto("loop", "post")
    /\ \/ GetUseSize(ring) < HeaderLen
       \/ GetUseSize(ring) >= HeaderLen /\ \E n \in Announced(Header) : ~FrameIsThere(n)
    /\ UNCHANGED <<stream, arrived, socket, buffer, offer, count, message, handed>>

\* The header is removed, the payload copied to a new CMessage and removed.
TakeFrame ==
    /\ pc = "loop" /\ GetUseSize(ring) >= HeaderLen
    /\ \E n \in Announced(Header) :
          LET rest == RemoveData(ring, HeaderLen)
              got  == Read(Peek(rest, n))
          IN  /\ FrameIsThere(n)
              /\ IF Len(got) = n
                 THEN /\ message' = got
                      /\ ring' = RemoveData(rest, n)
                      /\ pc' = "decode"
                      /\ UNCHANGED socket
                 ELSE /\ ring' = rest
                      /\ socket' = "closed"
                      /\ pc' = "post"
                      /\ UNCHANGED message
    /\ UNCHANGED <<stream, arrived, memory, offer, count, handed>>

\* Whether a payload decodes is up to the client that encoded it; what is no payload may
\* pass the checksum or not.
Verdicts ==
    LET byte == message[1]
    IN  IF message = Payload(byte.conn, byte.number, byte.frame)
        THEN {byte.frame.good} ELSE BOOLEAN

\* SetDecodingCode; when it fails the session is disconnected and the loop left.
Decode ==
    /\ pc = "decode"
    /\ \E good \in Verdicts :
          IF good
          THEN pc' = "deliver" /\ UNCHANGED <<socket, message>>
          ELSE pc' = "post" /\ socket' = "closed" /\ message' = <<>>
    /\ UNCHANGED <<stream, arrived, buffer, offer, count, handed>>

\* Faulty variant: one frame for each completion.
OnRecvOnce ==
    /\ Goto("deliver", "post")
    /\ handed' = Append(handed, message)
    /\ message' = <<>>
    /\ UNCHANGED <<stream, arrived, socket, buffer, offer, count>>

\* OnRecv, and the worker's SubRef.
OnRecv ==
    /\ Goto("deliver", "loop")
    /\ handed' = Append(handed, message)
    /\ message' = <<>>
    /\ UNCHANGED <<stream, arrived, socket, buffer, offer, count>>

Server == PostRecv \/ RecvComplete \/ NoFrame \/ TakeFrame \/ Decode \/ OnRecv
Kernel == Receive \/ ReceiveNothing

Next == Connect \/ Disconnect \/ ClientCloses \/ Kernel \/ Server

Spec == Init /\ [][Next]_vars

\* The workers keep running, and the bytes a client sends reach the kernel in the end.
FairSpec == Spec /\ WF_vars(Server) /\ WF_vars(Kernel)

-----------------------------------------------------------------------------
(* Properties.                                                             *)

Bytes ==
    {NoByte} \cup [conn : 1 .. MaxConnections, number : 1 .. MaxFrames, frame : Frames, at : Nat]

\* Every variable keeps its type; in particular the positions stay inside the array and no more
\* bytes arrive than were sent.
TypeOK ==
    /\ conn \in 0 .. MaxConnections
    /\ sent \in Seq(Frames) /\ Len(sent) <= MaxFrames
    /\ arrived \in 0 .. Len(Stream)
    /\ socket \in {"open", "closed"}
    /\ ring \in Rings
    /\ memory \in [Places -> Bytes]
    /\ offer \in [at : Places, first : 0 .. BufferSize, second : 0 .. BufferSize]
    /\ count \in 0 .. BufferSize
    /\ message \in Seq(Bytes)
    /\ handed \in Seq(Seq(Bytes))
    /\ pc \in Steps

\* The places that hold bytes nobody has taken yet.
Unread == Range(Peek(ring, BufferSize))

\* What the kernel may write to (the WSABUFs of PostRecv) is all of the free room and
\* nothing else: it follows the write position round the array, stays inside it, and
\* leaves every unread byte and the blank alone.
RoomIsFree ==
    pc = "pending" =>
        /\ Room = GetFreeSize(ring)
        /\ \A i \in 1 .. Room :
              /\ OfferedPlace(i) = (ring.write + i - 1) % BufferSize
              /\ OfferedPlace(i) \notin Unread

\* A receive with no room at all, which ends the session, is posted only when the frame
\* the server waits for is longer than the buffer can ever hold: a client whose frames fit
\* is never dropped because it sends faster than the server takes.
FullIsTooLong ==
    pc = "pending" /\ Room = 0 =>
        /\ Len(handed) < Len(sent)
        /\ HeaderLen + sent[Len(handed) + 1].len > BufferSize - BlankSize

\* However the stream is cut and wherever it wraps, OnRecv gets the client's frames whole,
\* once and in order, nothing after a frame that does not decode, and no byte of an earlier
\* connection of the slot.
Promise == INSTANCE FrameStream WITH
    Payloads <- {Payload(c, k, frame) :
                    c \in 1 .. MaxConnections, k \in 1 .. MaxFrames, frame \in Frames},
    sent <- [k \in DOMAIN sent |->
                [good |-> sent[k].good, payload |-> Payload(conn, k, sent[k])]]

FramingSpec == Promise!Spec

Fits(frame) == frame.good /\ HeaderLen + frame.len <= BufferSize - BlankSize

\* A frame that was sent, and that follows only frames that decode and fit the buffer, is
\* handed over, unless the server closes the connection or the network resets it.
FramesArrive ==
    \A c \in 1 .. MaxConnections, k \in 1 .. MaxFrames :
        (conn = c /\ k <= Len(sent) /\ \A j \in 1 .. k : Fits(sent[j]))
            ~> (conn # c \/ Len(handed) >= k \/ socket = "closed")
=============================================================================
