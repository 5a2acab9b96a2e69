--------------------------- MODULE LegacyPacket ---------------------------
(***************************************************************************)
(* The packet of the legacy protocol, shared by the parser and the          *)
(* composer.  A packet is a sequence of bytes:                              *)
(*                                                                          *)
(*    first           ? # #  id(2)  size(4)  data ...                       *)
(*    subsequential   ?  data ...                                           *)
(***************************************************************************)
EXTENDS Naturals, Sequences

CONSTANT PacketSize      \* PROTOCOL_LEGACY_PACKET_SIZE, 64 in the code

OffsetId == 3
OffsetLen == 5
OffsetData == 9

ASSUME PacketAssumption == PacketSize \in Nat /\ PacketSize > OffsetData

DataFirst == PacketSize - 3 - 2 - 4
DataSubseq == PacketSize - 1

HeaderMagic == <<63, 35, 35>>        \* "?##"

Byte == 0..255

\* uint16_t and uint32_t: the most significant byte is a byte.
IsUInt16(n) == n \in Nat /\ n \div 256 \in Byte
IsUInt32(n) == n \in Nat /\ n \div 16777216 \in Byte

\* message_parsed
Message == [id : Nat, size : Nat, protobuf_data : Seq(Byte)]

\* A field of the wire, most significant byte first, and last.
BigEndian16(n) == <<n \div 256, n % 256>>
BigEndian32(n) ==
  <<n \div 16777216, (n \div 65536) % 256, (n \div 256) % 256, n % 256>>

LittleEndian16(p, at) == p[at + 1] + 256 * p[at + 2]
LittleEndian32(p, at) ==
  p[at + 1] + 256 * p[at + 2] + 65536 * p[at + 3] + 16777216 * p[at + 4]

\* msg_struct::reset
EmptyMessage == [id |-> 0, size |-> 0, protobuf_data |-> <<>>]
=============================================================================
