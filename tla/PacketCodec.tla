---------------------------- MODULE PacketCodec ----------------------------
(***************************************************************************)
(* SetEncodingCode and SetDecodingCode of CMessage: the sender adds up the *)
(* payload and scrambles checksum and payload in place, each byte with the *)
(* one before; the receiver, who gets packet code, length and random key   *)
(* in the clear, takes the scrambling back and adds up what it finds.  One *)
(* step for each turn of a loop.  Place 0 is the checksum, the last byte   *)
(* of the header, and the payload follows it.                              *)
(*                                                                         *)
(* A sum of chars keeps its low byte whether chars are signed or not, and  *)
(* so does an exclusive or: bytes are numbers below Base.  m_bIsEncoded,   *)
(* which lets a message be encoded once only, is `stamp' in SendPath.      *)
(***************************************************************************)
EXTENDS Integers

CONSTANTS
    Base,          \* 256 in the code
    MaxLen,        \* bound: the length of a payload
    ByteXor(_, _), \* ^ on bytes
    FixKey         \* dfFIX_KEY, modulo Base

Byte == 0 .. Base - 1

ASSUME BaseOK == Base \in Nat \ {0} /\ MaxLen \in Nat /\ FixKey \in Byte
ASSUME XorOK  == \A a, b \in Byte : ByteXor(a, b) \in Byte /\ ByteXor(ByteXor(a, b), b) = a

VARIABLES
    len,      \* header.wLen
    key,      \* header.byRandKey
    plain,    \* history: the payload before it was encoded
    sent,     \* the sender's buffer, checksum and payload
    got,      \* the receiver's buffer
    valid,    \* whether header.byCode arrives as dfPACKET_CODE
    i,        \* the loops' i
    sum,      \* cCheckSum, iCheck
    last,     \* E_n while encoding, P_before while decoding
    wire,     \* P_n while encoding, E_n while decoding: the scrambled byte before
    pc,       \* the loop that runs, or the result
    sums,     \* history: the sums of the sender's first loop
    mixed     \* history: the values of E_n while encoding

header  == <<len, key, valid>>
history == <<plain, sums, mixed>>
vars    == <<header, sent, got, i, sum, last, wire, pc, history>>

Places == 0 .. len

\* What a byte is mixed with: the value before, a key and the place, kept to a byte.
Mask(before, k) == (before + k + i + 1) % Base

Init ==
    /\ len \in 0 .. MaxLen /\ key \in Byte /\ valid \in BOOLEAN
    /\ plain \in [1 .. len -> Byte]
    /\ sent = [j \in Places |-> IF j = 0 THEN 0 ELSE plain[j]]
    /\ got = [j \in Places |-> 0]
    /\ i = 0 /\ sum = 0 /\ last = 0 /\ wire = 0
    /\ pc = "sum"
    /\ sums = [j \in Places |-> 0]
    /\ mixed = [j \in 0 .. len + 1 |-> 0]

-----------------------------------------------------------------------------
(* SetEncodingCode.                                                        *)

SumUp ==
    /\ pc = "sum" /\ i < len
    /\ sum' = (sum + sent[i + 1]) % Base
    /\ sums' = [sums EXCEPT ![i + 1] = (sum + sent[i + 1]) % Base]
    /\ i' = i + 1
    /\ UNCHANGED <<header, sent, got, last, wire, pc, plain, mixed>>

PutChecksum ==
    /\ pc = "sum" /\ i = len
    /\ sent' = [sent EXCEPT ![0] = sum]
    /\ pc' = "encode"
    /\ i' = 0
    /\ UNCHANGED <<header, got, sum, last, wire, history>>

EncodeByte ==
    /\ pc = "encode" /\ i <= len
    /\ LET E == ByteXor(sent[i], Mask(last, key))
           P == ByteXor(E, Mask(wire, FixKey))
       IN  /\ sent' = [sent EXCEPT ![i] = P]
           /\ last' = E /\ wire' = P
           /\ mixed' = [mixed EXCEPT ![i + 1] = E]
    /\ i' = i + 1
    /\ UNCHANGED <<header, got, sum, pc, plain, sums>>

\* The packet arrives in the buffer of another CMessage.
Transmit ==
    /\ pc = "encode" /\ i = len + 1
    /\ got' = sent
    /\ pc' = "code"
    /\ i' = 0 /\ sum' = 0 /\ last' = 0 /\ wire' = 0
    /\ UNCHANGED <<header, sent, history>>

-----------------------------------------------------------------------------
(* SetDecodingCode.                                                        *)

TestCode ==
    /\ pc = "code"
    /\ pc' = IF valid THEN "decode" ELSE "rejected"
    /\ UNCHANGED <<header, sent, got, i, sum, last, wire, history>>

\* Faulty variant: the two values carried along are taken for each other.
DecodeByteSwapped ==
    /\ pc = "decode" /\ i <= len
    /\ LET P == ByteXor(got[i], Mask(wire, FixKey))
       IN  /\ got' = [got EXCEPT ![i] = ByteXor(P, Mask(last, key))]
           /\ last' = got[i] /\ wire' = P
    /\ i' = i + 1
    /\ UNCHANGED <<header, sent, sum, pc, history>>

DecodeByte ==
    /\ pc = "decode" /\ i <= len
    /\ LET P == ByteXor(got[i], Mask(wire, FixKey))
       IN  /\ got' = [got EXCEPT ![i] = ByteXor(P, Mask(last, key))]
           /\ wire' = got[i] /\ last' = P
    /\ i' = i + 1
    /\ UNCHANGED <<header, sent, sum, pc, history>>

Decoded ==
    /\ pc = "decode" /\ i = len + 1
    /\ pc' = "check" /\ i' = 0
    /\ UNCHANGED <<header, sent, got, sum, last, wire, history>>

CheckUp ==
    /\ pc = "check" /\ i < len
    /\ sum' = (sum + got[i + 1]) % Base
    /\ i' = i + 1
    /\ UNCHANGED <<header, sent, got, last, wire, pc, history>>

TestChecksum ==
    /\ pc = "check" /\ i = len
    /\ pc' = IF got[0] = sum THEN "accepted" ELSE "rejected"
    /\ UNCHANGED <<header, sent, got, i, sum, last, wire, history>>

Next ==
    \/ SumUp \/ PutChecksum \/ EncodeByte \/ Transmit
    \/ TestCode \/ DecodeByte \/ Decoded \/ CheckUp \/ TestChecksum

Spec == Init /\ [][Next]_vars

-----------------------------------------------------------------------------
(* Properties.                                                             *)

\* Every variable keeps its type: sums and masks stay bytes.
TypeOK ==
    /\ len \in 0 .. MaxLen /\ key \in Byte /\ valid \in BOOLEAN
    /\ plain \in [1 .. len -> Byte]
    /\ sent \in [Places -> Byte] /\ got \in [Places -> Byte]
    /\ i \in 0 .. len + 1
    /\ {sum, last, wire} \subseteq Byte
    /\ pc \in {"sum", "encode", "code", "decode", "check", "accepted", "rejected"}
    /\ sums \in [Places -> Byte] /\ mixed \in [0 .. len + 1 -> Byte]

\* What SetEncodingCode made of a payload, SetDecodingCode turns back into it and accepts,
\* whatever the payload, its length and the random key; it rejects only the wrong packet code.
\* Each byte is mixed with the one before it, scrambled on one side and not yet on the other:
\* the two loops must carry the same two values along.
RoundTrip ==
    /\ pc = "rejected" => ~valid
    /\ pc = "accepted" => valid /\ \A j \in 1 .. len : got[j] = plain[j]
=============================================================================
