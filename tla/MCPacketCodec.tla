--------------------------- MODULE MCPacketCodec ---------------------------
(* Small instances of PacketCodec.                                         *)
EXTENDS PacketCodec, Bitwise

BitXor(a, b) == a ^^ b
=============================================================================
