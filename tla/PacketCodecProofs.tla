------------------------- MODULE PacketCodecProofs -------------------------
(***************************************************************************)
(* What SetEncodingCode did to a packet SetDecodingCode undoes, for every  *)
(* length, payload and pair of keys, and for every exclusive-or like       *)
(* operator on bytes.                                                      *)
(***************************************************************************)
EXTENDS PacketCodec, TLAPS

-----------------------------------------------------------------------------
(* The inductive invariant: what the buffers hold of the sender's values.  *)

\* The byte at place j before it was scrambled.
Clear(j) == IF j = 0 THEN sums[len] ELSE plain[j]

\* The scrambled byte before place j.
Before(j) == IF j = 0 THEN 0 ELSE sent[j - 1]

MaskAt(before, k, j) == (before + k + j + 1) % Base

\* The first n bytes of the payload have been added up.
SummedTo(n) ==
    /\ sums[0] = 0
    /\ \A j \in 0 .. n - 1 : sums[j + 1] = (sums[j] + plain[j + 1]) % Base

\* The first n places have been scrambled.
EncodedTo(n) ==
    /\ mixed[0] = 0
    /\ \A j \in 0 .. n - 1 :
          /\ mixed[j + 1] = ByteXor(Clear(j), MaskAt(mixed[j], key, j))
          /\ sent[j] = ByteXor(mixed[j + 1], MaskAt(Before(j), FixKey, j))

SumInv ==
    pc = "sum" =>
        /\ i <= len /\ SummedTo(i) /\ sum = sums[i]
        /\ mixed[0] = 0 /\ last = 0 /\ wire = 0
        /\ \A j \in 1 .. len : sent[j] = plain[j]

EncodeInv ==
    pc = "encode" =>
        /\ SummedTo(len) /\ EncodedTo(i)
        /\ last = mixed[i] /\ wire = Before(i)
        /\ \A j \in i .. len : sent[j] = Clear(j)

EncodedInv == pc \notin {"sum", "encode"} => SummedTo(len) /\ EncodedTo(len + 1)

CodeInv == pc = "code" => got = sent /\ i = 0 /\ sum = 0 /\ last = 0 /\ wire = 0

DecodeInv ==
    pc = "decode" =>
        /\ valid /\ sum = 0
        /\ last = mixed[i] /\ wire = Before(i)
        /\ \A j \in 0 .. i - 1 : got[j] = Clear(j)
        /\ \A j \in i .. len : got[j] = sent[j]

CheckInv ==
    pc = "check" =>
        /\ valid /\ i <= len /\ sum = sums[i]
        /\ \A j \in Places : got[j] = Clear(j)

IInv ==
    /\ TypeOK /\ SumInv /\ EncodeInv /\ EncodedInv
    /\ CodeInv /\ DecodeInv /\ CheckInv /\ RoundTrip

-----------------------------------------------------------------------------
(* Bytes.                                                                  *)

\* What ends with % 256 is a byte.
LEMMA ModByte ==
    ASSUME NEW x \in Int PROVE x % Base \in Byte
  BY BaseOK DEF Byte

\* The mask of a place is a byte.
LEMMA MaskByte ==
    ASSUME NEW b \in Byte, NEW k \in Byte, NEW j \in Nat PROVE MaskAt(b, k, j) \in Byte
  <1>1. b + k + j + 1 \in Int
    BY BaseOK DEF Byte
  <1> QED
    BY <1>1, ModByte DEF MaskAt

\* A mask applied twice gives the byte back.
LEMMA MaskTwice ==
    ASSUME NEW a \in Byte, NEW b \in Byte PROVE ByteXor(a, b) \in Byte /\ ByteXor(ByteXor(a, b), b) = a
  BY XorOK

\* The code of zero length and the key of zero are bytes.
LEMMA Constants == 0 \in Byte /\ FixKey \in Byte /\ Base \in Nat \ {0} /\ MaxLen \in Nat
  BY BaseOK DEF Byte

-----------------------------------------------------------------------------
(* The sender.                                                             *)

LEMMA InitStep == Init => IInv
  BY Constants
  DEF Init, IInv, TypeOK, SumInv, EncodeInv, EncodedInv, CodeInv, DecodeInv, CheckInv, RoundTrip,
      SummedTo, EncodedTo, Places, Byte

\* One more byte is in the sum.
LEMMA SumUpStep == IInv /\ SumUp => IInv'
  <1> SUFFICES ASSUME IInv, SumUp PROVE IInv'
    OBVIOUS
  <1> USE Constants DEF IInv, TypeOK, SumUp, header, history
  <1>1. /\ i \in 0 .. len - 1 /\ len \in Nat /\ i + 1 \in Places /\ i + 1 \in 1 .. len
        /\ sent[i + 1] = plain[i + 1] /\ sum = sums[i] /\ sum \in Byte /\ sent[i + 1] \in Byte
    BY DEF Places, SumInv
  <1>0. (sum + sent[i + 1]) % Base \in Byte
    <2>1. sum + sent[i + 1] \in Int
      BY SMTT(30), <1>1 DEF Byte
    <2> QED
      BY <2>1, ModByte
  <1>2. TypeOK'
    BY <1>0, <1>1 DEF Places
  <1>3. SummedTo(i)'
    <2>1. sums'[0] = 0 /\ sums'[i + 1] = (sums[i] + plain[i + 1]) % Base
      BY <1>1 DEF SumInv, SummedTo, Places
    <2>2. \A j \in 0 .. i : sums'[j] = sums[j]
      BY <1>1 DEF Places
    <2>3. \A j \in 0 .. i - 1 : sums[j + 1] = (sums[j] + plain[j + 1]) % Base
      BY DEF SumInv, SummedTo
    <2>4. ASSUME NEW j \in 0 .. i' - 1
          PROVE  sums'[j + 1] = (sums'[j] + plain'[j + 1]) % Base
      <3>1. CASE j = i
        BY <3>1, <2>1, <2>2, <1>1
      <3>2. CASE j \in 0 .. i - 1
        BY <3>2, <2>2, <2>3, <1>1
      <3> QED
        BY <3>1, <3>2, <1>1
    <2> QED
      BY <2>1, <2>4 DEF SummedTo
  <1>4. SumInv'
    <2>1. sum' = sums'[i']
      BY <1>1 DEF Places
    <2>2. i' <= len' /\ mixed'[0] = 0 /\ last' = 0 /\ wire' = 0
      BY <1>1 DEF SumInv
    <2>3. \A j \in 1 .. len' : sent'[j] = plain'[j]
      BY DEF SumInv
    <2> QED
      BY <2>1, <2>2, <2>3, <1>3 DEF SumInv
  <1> QED
    BY <1>2, <1>4 DEF EncodeInv, EncodedInv, CodeInv, DecodeInv, CheckInv, RoundTrip

\* The checksum is in its place, the first the encoding takes.
LEMMA PutChecksumStep == IInv /\ PutChecksum => IInv'
  <1> SUFFICES ASSUME IInv, PutChecksum PROVE IInv'
    OBVIOUS
  <1> USE Constants DEF IInv, TypeOK, PutChecksum, header, history
  <1>1. TypeOK'
    BY DEF Places
  <1>2. SummedTo(len)' /\ EncodedTo(0)'
    BY DEF SumInv, SummedTo, EncodedTo
  <1>3. \A j \in 0 .. len : sent'[j] = Clear(j)'
    BY DEF SumInv, Clear, Places
  <1>4. EncodeInv'
    BY <1>2, <1>3 DEF EncodeInv, SumInv, Before
  <1> QED
    BY <1>1, <1>4 DEF SumInv, EncodedInv, CodeInv, DecodeInv, CheckInv, RoundTrip

\* One more byte is scrambled; what it was mixed with is carried along.
LEMMA EncodeByteStep == IInv /\ EncodeByte => IInv'
  <1> SUFFICES ASSUME IInv, EncodeByte PROVE IInv'
    OBVIOUS
  <1> USE Constants DEF IInv, TypeOK, EncodeByte, header, history
  <1> DEFINE E == ByteXor(sent[i], Mask(last, key))
             P == ByteXor(E, Mask(wire, FixKey))
  <1>1. i \in 0 .. len /\ i \in Places /\ i \in Nat /\ len \in Nat
    BY DEF Places
  <1>2. Mask(last, key) = MaskAt(last, key, i) /\ Mask(wire, FixKey) = MaskAt(wire, FixKey, i)
    BY DEF Mask, MaskAt
  <1>3. Mask(last, key) \in Byte /\ Mask(wire, FixKey) \in Byte
    BY <1>1, <1>2, MaskByte
  <1>4. E \in Byte /\ P \in Byte
    BY <1>1, <1>3, MaskTwice
  <1>5. sent' = [sent EXCEPT ![i] = P] /\ mixed' = [mixed EXCEPT ![i + 1] = E] /\ last' = E /\ wire' = P
    OBVIOUS
  <1> HIDE DEF E, P, EncodeByte
  <1>6. /\ pc = "encode" /\ i' = i + 1
        /\ UNCHANGED <<len, key, valid, got, sum, pc, plain, sums>>
    BY DEF EncodeByte
  <1>7. TypeOK'
    BY <1>1, <1>4, <1>5, <1>6 DEF Places
  <1>8. \A j \in Places : Clear(j)' = Clear(j)
    BY <1>6 DEF Clear
  <1>9. \A j \in 0 .. i : Before(j)' = Before(j)
    BY <1>1, <1>5 DEF Before, Places
  <1>10. E = ByteXor(Clear(i), MaskAt(mixed[i], key, i)) /\ P = ByteXor(E, MaskAt(Before(i), FixKey, i))
    BY <1>1, <1>2, <1>6 DEF E, P, EncodeInv
  <1>11. \A j \in 0 .. i - 1 : sent'[j] = sent[j] /\ mixed'[j] = mixed[j] /\ mixed'[j + 1] = mixed[j + 1]
    BY <1>1, <1>5 DEF Places
  <1>12. /\ mixed'[0] = mixed[0] /\ mixed'[i] = mixed[i]
         /\ mixed'[i + 1] = E /\ sent'[i] = P
    BY <1>1, <1>5 DEF Places
  <1>13. EncodedTo(i)'
    <2>1. mixed'[0] = 0
      BY <1>6, <1>12 DEF EncodeInv, EncodedTo
    <2>2. ASSUME NEW j \in 0 .. i' - 1
          PROVE  /\ mixed'[j + 1] = ByteXor(Clear(j)', MaskAt(mixed'[j], key', j))
                 /\ sent'[j] = ByteXor(mixed'[j + 1], MaskAt(Before(j)', FixKey, j))
      <3>1. j \in Places /\ j \in 0 .. i /\ (j = i \/ j \in 0 .. i - 1)
        BY <1>1, <1>6 DEF Places
      <3>2. Clear(j)' = Clear(j) /\ Before(j)' = Before(j) /\ key' = key
        BY <3>1, <1>6, <1>8, <1>9
      <3>3. CASE j = i
        BY <3>2, <3>3, <1>10, <1>12
      <3>4. CASE j \in 0 .. i - 1
        <4>1. /\ mixed[j + 1] = ByteXor(Clear(j), MaskAt(mixed[j], key, j))
              /\ sent[j] = ByteXor(mixed[j + 1], MaskAt(Before(j), FixKey, j))
          BY <3>4, <1>6 DEF EncodeInv, EncodedTo
        <4> QED
          BY <4>1, <3>2, <3>4, <1>11
      <3> QED
        BY <3>1, <3>3, <3>4
    <2>3. \A j : MaskAt(mixed'[j], key', j) = MaskAt(mixed[j], key, j)'
      BY DEF MaskAt
    <2>4. \A j : MaskAt(Before(j)', FixKey, j) = MaskAt(Before(j), FixKey, j)'
      BY DEF MaskAt
    <2> QED
      BY <2>1, <2>2, <2>3, <2>4 DEF EncodedTo
  <1>14. EncodeInv'
    <2>1. SummedTo(len)'
      BY <1>6 DEF EncodeInv, SummedTo
    <2>2. last' = mixed'[i'] /\ wire' = Before(i)'
      BY <1>1, <1>5, <1>6, <1>12 DEF Before
    <2>3. \A j \in i + 1 .. len : sent'[j] = Clear(j)'
      BY <1>1, <1>5, <1>6, <1>8 DEF EncodeInv, Places
    <2> QED
      BY <2>1, <2>2, <2>3, <1>6, <1>13 DEF EncodeInv
  <1> QED
    BY <1>6, <1>7, <1>14 DEF SumInv, EncodedInv, CodeInv, DecodeInv, CheckInv, RoundTrip

-----------------------------------------------------------------------------
(* The receiver.                                                           *)

\* The whole packet is scrambled when it is sent.
LEMMA TransmitStep == IInv /\ Transmit => IInv'
  <1> SUFFICES ASSUME IInv, Transmit PROVE IInv'
    OBVIOUS
  <1> USE Constants DEF IInv, TypeOK, Transmit, header, history
  <1>1. TypeOK'
    BY DEF Places
  <1>2. SummedTo(len)' /\ EncodedTo(len + 1)'
    BY DEF EncodeInv, SummedTo, EncodedTo, MaskAt, Clear, Before
  <1> QED
    BY <1>1, <1>2 DEF SumInv, EncodeInv, EncodedInv, CodeInv, DecodeInv, CheckInv, RoundTrip

\* What the sender's steps left does not change while the receiver works.
LEMMA EncodedStays ==
    ASSUME IInv, pc \notin {"sum", "encode"}, pc' \notin {"sum", "encode"},
           UNCHANGED <<header, sent, history>>
    PROVE  /\ SumInv' /\ EncodeInv' /\ EncodedInv'
           /\ \A j : Clear(j)' = Clear(j) /\ Before(j)' = Before(j)
  <1>1. \A j : Clear(j)' = Clear(j) /\ Before(j)' = Before(j)
    BY DEF Clear, Before, header, history
  <1>2. SummedTo(len)' /\ EncodedTo(len + 1)'
    BY DEF IInv, EncodedInv, SummedTo, EncodedTo, MaskAt, Clear, Before, header, history
  <1> QED
    BY <1>1, <1>2 DEF SumInv, EncodeInv, EncodedInv

LEMMA TestCodeStep == IInv /\ TestCode => IInv'
  <1> SUFFICES ASSUME IInv, TestCode PROVE IInv'
    OBVIOUS
  <1>1. /\ pc = "code" /\ pc' = IF valid THEN "decode" ELSE "rejected"
        /\ UNCHANGED <<header, sent, got, i, sum, last, wire, history>>
    BY DEF TestCode
  <1>2. /\ SumInv' /\ EncodeInv' /\ EncodedInv'
        /\ \A j : Clear(j)' = Clear(j) /\ Before(j)' = Before(j)
    BY <1>1, EncodedStays
  <1>3. TypeOK'
    BY <1>1 DEF IInv, TypeOK, Places, header, history
  <1>4. DecodeInv'
    <2>1. SUFFICES ASSUME pc' = "decode" PROVE DecodeInv'
      BY DEF DecodeInv
    <2>2. /\ valid /\ i = 0 /\ sum = 0 /\ last = 0 /\ wire = 0 /\ got = sent
          /\ mixed[0] = 0 /\ UNCHANGED <<valid, i, sum, last, wire, got, sent, mixed, len>>
      BY <2>1, <1>1 DEF IInv, CodeInv, EncodedInv, EncodedTo, header, history
    <2> QED
      BY <2>2 DEF DecodeInv, Before
  <1>5. CodeInv' /\ CheckInv' /\ RoundTrip'
    BY <1>1 DEF CodeInv, CheckInv, RoundTrip, header
  <1> QED
    BY <1>2, <1>3, <1>4, <1>5 DEF IInv

\* One more byte is clear: the two exclusive ors find the sender's masks.
LEMMA DecodeByteStep == IInv /\ DecodeByte => IInv'
  <1> SUFFICES ASSUME IInv, DecodeByte PROVE IInv'
    OBVIOUS
  <1> DEFINE P == ByteXor(got[i], Mask(wire, FixKey))
             C == ByteXor(P, Mask(last, key))
  <1>1. /\ pc = "decode" /\ i \in 0 .. len /\ i' = i + 1 /\ pc' = pc
        /\ got' = [got EXCEPT ![i] = C] /\ wire' = got[i] /\ last' = P
        /\ UNCHANGED <<header, sent, sum, history>>
    BY DEF DecodeByte, IInv, TypeOK
  <1>2. /\ SumInv' /\ EncodeInv' /\ EncodedInv'
        /\ \A j : Clear(j)' = Clear(j) /\ Before(j)' = Before(j)
    BY <1>1, EncodedStays
  <1>3. /\ last = mixed[i] /\ wire = Before(i) /\ got[i] = sent[i]
        /\ mixed[i + 1] = ByteXor(Clear(i), MaskAt(mixed[i], key, i))
        /\ sent[i] = ByteXor(mixed[i + 1], MaskAt(Before(i), FixKey, i))
        /\ {last, wire, key, mixed[i + 1], Clear(i)} \subseteq Byte
    <2>1. len \in Nat /\ i \in 0 .. (len + 1) - 1 /\ i \in Places /\ i + 1 \in 0 .. len + 1
      BY <1>1, Constants DEF IInv, TypeOK, Places
    <2>2. last = mixed[i] /\ wire = Before(i) /\ got[i] = sent[i]
      BY <1>1 DEF IInv, DecodeInv
    <2>3. /\ mixed[i + 1] = ByteXor(Clear(i), MaskAt(mixed[i], key, i))
          /\ sent[i] = ByteXor(mixed[i + 1], MaskAt(Before(i), FixKey, i))
      BY <1>1, <2>1 DEF IInv, EncodedInv, EncodedTo
    <2>4. {last, wire, key, mixed[i + 1], Clear(i)} \subseteq Byte
      BY <2>1 DEF IInv, TypeOK, Clear, Places
    <2> QED
      BY <2>2, <2>3, <2>4
  <1>4. Mask(last, key) = MaskAt(last, key, i) /\ Mask(wire, FixKey) = MaskAt(wire, FixKey, i)
    BY DEF Mask, MaskAt
  <1>5. Mask(last, key) \in Byte /\ Mask(wire, FixKey) \in Byte
    <2>1. i \in Nat /\ last \in Byte /\ wire \in Byte /\ key \in Byte /\ FixKey \in Byte
      BY <1>1, <1>3, Constants
    <2> QED
      BY <2>1, <1>4, MaskByte
  <1>6. P = mixed[i + 1]
    BY <1>3, <1>4, <1>5, MaskTwice
  <1>7. C = Clear(i)
    BY <1>3, <1>4, <1>5, <1>6, MaskTwice
  <1> HIDE DEF P, C
  <1>8. TypeOK'
    BY <1>1, <1>3, <1>6, <1>7, Constants DEF IInv, TypeOK, Places, header, history
  <1>9. DecodeInv'
    <2>1. valid' /\ sum' = 0
      BY <1>1 DEF IInv, DecodeInv, header
    <2>2. last' = mixed'[i'] /\ wire' = Before(i)'
      BY <1>1, <1>3, <1>6 DEF Before, history
    <2>3. \A j \in 0 .. i' - 1 : got'[j] = Clear(j)'
      BY <1>1, <1>2, <1>7 DEF IInv, TypeOK, DecodeInv, Places
    <2>4. \A j \in i' .. len' : got'[j] = sent'[j]
      BY <1>1 DEF IInv, TypeOK, DecodeInv, Places, header
    <2> QED
      BY <2>1, <2>2, <2>3, <2>4 DEF DecodeInv
  <1> QED
    BY <1>1, <1>2, <1>8, <1>9 DEF IInv, CodeInv, CheckInv, RoundTrip

LEMMA DecodedStep == IInv /\ Decoded => IInv'
  <1> SUFFICES ASSUME IInv, Decoded PROVE IInv'
    OBVIOUS
  <1>1. /\ pc = "decode" /\ i = len + 1 /\ pc' = "check" /\ i' = 0
        /\ UNCHANGED <<header, sent, got, sum, last, wire, history>>
    BY DEF Decoded
  <1>2. /\ SumInv' /\ EncodeInv' /\ EncodedInv'
        /\ \A j : Clear(j)' = Clear(j) /\ Before(j)' = Before(j)
    BY <1>1, EncodedStays
  <1>3. TypeOK'
    BY <1>1, Constants DEF IInv, TypeOK, Places, header, history
  <1>4. CheckInv'
    BY <1>1, <1>2 DEF IInv, TypeOK, DecodeInv, CheckInv, EncodedInv, SummedTo, Places, header, history
  <1> QED
    BY <1>1, <1>2, <1>3, <1>4 DEF IInv, CodeInv, DecodeInv, RoundTrip

\* One more byte is in the receiver's sum, which is the sender's so far.
LEMMA CheckUpStep == IInv /\ CheckUp => IInv'
  <1> SUFFICES ASSUME IInv, CheckUp PROVE IInv'
    OBVIOUS
  <1>1. /\ pc = "check" /\ pc' = pc /\ i < len /\ i' = i + 1 /\ sum' = (sum + got[i + 1]) % Base
        /\ UNCHANGED <<header, sent, got, last, wire, history>>
    BY DEF CheckUp
  <1>2. /\ SumInv' /\ EncodeInv' /\ EncodedInv'
        /\ \A j : Clear(j)' = Clear(j) /\ Before(j)' = Before(j)
    BY <1>1, EncodedStays
  <1>3. i \in 0 .. len - 1 /\ i + 1 \in Places /\ i + 1 # 0 /\ len \in Nat
    BY <1>1, Constants DEF IInv, TypeOK, Places
  <1>4. sum' = sums[i + 1]
    <2>1. got[i + 1] = plain[i + 1] /\ sum = sums[i]
      BY <1>1, <1>3 DEF IInv, CheckInv, Clear
    <2>2. sums[i + 1] = (sums[i] + plain[i + 1]) % Base
      BY <1>1, <1>3 DEF IInv, EncodedInv, SummedTo
    <2> QED
      BY <1>1, <2>1, <2>2
  <1>5. TypeOK'
    BY <1>1, <1>3, <1>4 DEF IInv, TypeOK, Places, header, history
  <1>6. CheckInv'
    BY <1>1, <1>2, <1>3, <1>4 DEF IInv, CheckInv, Places, header, history
  <1> QED
    BY <1>1, <1>2, <1>5, <1>6 DEF IInv, CodeInv, DecodeInv, RoundTrip

\* The checksum that arrived is the sender's sum, and so is the receiver's.
LEMMA TestChecksumStep == IInv /\ TestChecksum => IInv'
  <1> SUFFICES ASSUME IInv, TestChecksum PROVE IInv'
    OBVIOUS
  <1>1. /\ pc = "check" /\ i = len /\ pc' = IF got[0] = sum THEN "accepted" ELSE "rejected"
        /\ UNCHANGED <<header, sent, got, i, sum, last, wire, history>>
    BY DEF TestChecksum
  <1>2. /\ SumInv' /\ EncodeInv' /\ EncodedInv'
        /\ \A j : Clear(j)' = Clear(j) /\ Before(j)' = Before(j)
    BY <1>1, EncodedStays
  <1>3. TypeOK'
    BY <1>1 DEF IInv, TypeOK, Places, header, history
  <1>4. len \in Nat /\ got[0] = sum /\ valid
    BY <1>1, Constants DEF IInv, TypeOK, CheckInv, Clear, Places
  <1>5. \A j \in 1 .. len : got[j] = plain[j]
    BY <1>1, <1>4 DEF IInv, CheckInv, Clear, Places
  <1>6. RoundTrip'
    BY <1>1, <1>4, <1>5 DEF RoundTrip, header, history
  <1> QED
    BY <1>1, <1>2, <1>3, <1>4, <1>6 DEF IInv, CodeInv, DecodeInv, CheckInv

-----------------------------------------------------------------------------
(* The theorem.                                                            *)

LEMMA NextStep == IInv /\ [Next]_vars => IInv'
  <1> SUFFICES ASSUME IInv, [Next]_vars PROVE IInv'
    OBVIOUS
  <1>1. CASE UNCHANGED vars
    BY <1>1 DEF vars, header, history, IInv, TypeOK, SumInv, EncodeInv, EncodedInv, CodeInv,
                DecodeInv, CheckInv, RoundTrip, SummedTo, EncodedTo, MaskAt, Clear, Before, Places
  <1>2. CASE Next
    BY <1>2, SumUpStep, PutChecksumStep, EncodeByteStep, TransmitStep, TestCodeStep,
       DecodeByteStep, DecodedStep, CheckUpStep, TestChecksumStep DEF Next
  <1> QED
    BY <1>1, <1>2

\* SetEncodingCode and SetDecodingCode keep the types: the sums and masks stay bytes.
THEOREM TypeCorrect == Spec => []TypeOK
  <1>1. IInv => TypeOK
    BY DEF IInv
  <1> QED
    BY <1>1, InitStep, NextStep, PTL DEF Spec

\* A packet that arrives as it was sent is accepted and read as it was written, and it is
\* rejected for its packet code only.
THEOREM DecodingUndoesEncoding == Spec => []RoundTrip
  <1>1. IInv => RoundTrip
    BY DEF IInv
  <1> QED
    BY <1>1, InitStep, NextStep, PTL DEF Spec
=============================================================================
