------------------------------ MODULE Parser ------------------------------
(***************************************************************************)
(* protocol::parser: one step is one call of parse_legacy with a packet as  *)
(* read_host leaves it, which may be shorter than PacketSize.               *)
(*                                                                          *)
(* parse_legacy looks at the first bytes without asking how many there are: *)
(* a byte behind the packet is one of JunkBytes.                            *)
(***************************************************************************)
EXTENDS LegacyPacket, SequencesExt

CONSTANTS
  Packets,      \* what parse_legacy is called with
  JunkBytes,    \* what may lie in memory behind a packet
  MaxCalls      \* bound: calls of parse_legacy

ASSUME ParserAssumption ==
  /\ Packets \subseteq Seq(Byte)
  /\ JunkBytes \subseteq Byte
  /\ MaxCalls \in Nat

VARIABLES
  message_composed_pack,
  parsed,
  ret,          \* what the last call returned
  crashed,      \* an exception left parse_legacy, and nothing catches it
  calls

vars == <<message_composed_pack, parsed, ret, crashed, calls>>

Init ==
  /\ message_composed_pack = <<>>
  /\ parsed = EmptyMessage
  /\ ret = TRUE /\ crashed = FALSE /\ calls = 0

\* What a read of byte i of raw finds.
Seen(raw, junk) == [i \in 1..OffsetData |-> IF i <= Len(raw) THEN raw[i] ELSE junk]

\* std::equal over three bytes, whatever the length of raw.
StartsMessage(raw, junk) ==
  \A i \in 1..Len(HeaderMagic) : Seen(raw, junk)[i] = HeaderMagic[i]

\* Mutant: the informed size is not looked at.
FitsAnySize(raw) == Len(raw) - 1 <= DataSubseq

\* "make sure parsed + new data won't overflow informed total size"
FitsInformedSize(raw) == Len(raw) - 1 + DataSubseq <= parsed.size

Call == ~crashed /\ calls < MaxCalls /\ calls' = calls + 1

----------------------------------------------------------------------------
\* Mutant: the parser is not reset by a new message.
ParseFirstNoReset(raw, junk) ==
  LET seen == Seen(raw, junk)
  IN /\ StartsMessage(raw, junk) /\ Len(raw) >= OffsetData
     /\ message_composed_pack' = Append(message_composed_pack, raw)
     /\ parsed' = [id |-> LittleEndian16(seen, OffsetId),
                   size |-> LittleEndian32(seen, OffsetLen),
                   protobuf_data |-> SubSeq(raw, OffsetData + 1, Len(raw))]
     /\ ret' = TRUE
     /\ UNCHANGED crashed

\* Mutant: the size kept is what is still to come.
ParseFirstRemaining(raw, junk) ==
  LET seen == Seen(raw, junk)
  IN /\ StartsMessage(raw, junk) /\ Len(raw) >= OffsetData
     /\ message_composed_pack' = <<raw>>
     /\ parsed' = [id |-> LittleEndian16(seen, OffsetId),
                   size |-> LittleEndian32(seen, OffsetLen) - DataFirst,
                   protobuf_data |-> SubSeq(raw, OffsetData + 1, Len(raw))]
     /\ ret' = TRUE
     /\ UNCHANGED crashed

\* reset(), then everything behind the header is data, padding included; assign()
\* throws when the packet is shorter than its header.
ParseFirst(raw, junk) ==
  LET seen == Seen(raw, junk)
      size == LittleEndian32(seen, OffsetLen)
  IN /\ StartsMessage(raw, junk)
     /\ message_composed_pack' = <<raw>>
     /\ parsed' = [id |-> LittleEndian16(seen, OffsetId),
                   size |-> size,
                   protobuf_data |->
                     IF size = 0 THEN <<>> ELSE SubSeq(raw, OffsetData + 1, Len(raw))]
     /\ IF size # 0 /\ Len(raw) < OffsetData
          THEN crashed' = TRUE /\ UNCHANGED ret
          ELSE ret' = TRUE /\ UNCHANGED crashed

\* Mutant: the header byte is copied with the data.
ParseSubsequentialWhole(raw, junk) ==
  /\ ~StartsMessage(raw, junk)
  /\ Len(raw) > 0 /\ raw[1] = HeaderMagic[1]
  /\ FitsInformedSize(raw)
  /\ message_composed_pack' = Append(message_composed_pack, raw)
  /\ parsed' = [parsed EXCEPT !.protobuf_data = @ \o raw]
  /\ ret' = TRUE
  /\ UNCHANGED crashed

ParseSubsequential(raw, junk) ==
  /\ ~StartsMessage(raw, junk)
  /\ Len(raw) > 0 /\ raw[1] = HeaderMagic[1]
  /\ FitsInformedSize(raw)
  /\ message_composed_pack' = Append(message_composed_pack, raw)
  /\ parsed' = [parsed EXCEPT !.protobuf_data = @ \o Tail(raw)]
  /\ ret' = TRUE
  /\ UNCHANGED crashed

WrongHeader(raw, junk) ==
  /\ ~StartsMessage(raw, junk)
  /\ Len(raw) > 0 /\ (raw[1] # HeaderMagic[1] \/ ~FitsInformedSize(raw))
  /\ ret' = FALSE
  /\ UNCHANGED <<message_composed_pack, parsed, crashed>>

\* msg_raw.at(0) of an empty packet throws.
Throw(raw, junk) ==
  /\ ~StartsMessage(raw, junk) /\ Len(raw) = 0
  /\ crashed' = TRUE
  /\ UNCHANGED <<message_composed_pack, parsed, ret>>

Parse(raw, junk) ==
  /\ Call
  /\ \/ ParseFirst(raw, junk)
     \/ ParseSubsequential(raw, junk)
     \/ WrongHeader(raw, junk)
     \/ Throw(raw, junk)

Next == \E raw \in Packets, junk \in JunkBytes : Parse(raw, junk)

Spec == Init /\ [][Next]_vars

----------------------------------------------------------------------------
\* Every variable has its type.
TypeOK ==
  /\ message_composed_pack \in Seq(Seq(Byte))
  /\ parsed \in Message
  /\ ret \in BOOLEAN /\ crashed \in BOOLEAN
  /\ calls \in 0..MaxCalls

\* The data packet i of a pack stands for, of a message that announced size.
Payload(pack, size, i) ==
  IF i > 1 THEN Tail(pack[i])
  ELSE IF size = 0 THEN <<>>
  ELSE SubSeq(pack[1], OffsetData + 1, Len(pack[1]))

\* The two things the parser keeps agree: the data is that of the packets, in
\* order, whatever was rejected or restarted between them.
ParsedIsPack ==
  parsed.protobuf_data =
    FlattenSeq([i \in DOMAIN message_composed_pack |->
                  Payload(message_composed_pack, parsed.size, i)])

\* The message was begun by raw: its id and size are those of raw's header.
BegunBy(raw, message) ==
  \E junk \in JunkBytes :
    /\ StartsMessage(raw, junk)
    /\ message.id = LittleEndian16(Seen(raw, junk), OffsetId)
    /\ message.size = LittleEndian32(Seen(raw, junk), OffsetLen)

\* The message announced a packet of data at least, and raw did not start another.
ContinuedBy(raw, message) ==
  /\ raw[1] = HeaderMagic[1]
  /\ \E junk \in JunkBytes : ~StartsMessage(raw, junk)
  /\ DataSubseq <= message.size

\* What the parser keeps is one message: its first packet has the header that id and
\* size were read from, no packet behind it starts a message, and without a first
\* packet, or behind one that announced less than a packet of data, none is kept.
\* A packet from elsewhere may be among the others: see NoOverflow.
OneMessage ==
  IF message_composed_pack = <<>> THEN parsed = EmptyMessage
  ELSE /\ BegunBy(message_composed_pack[1], parsed)
       /\ \A k \in 2..Len(message_composed_pack) :
            ContinuedBy(message_composed_pack[k], parsed)

\* The comment on the second branch: the data never gets longer than the size
\* the message announced, when a subsequential packet is added to it.
NoOverflow ==
  [][Len(message_composed_pack') > Len(message_composed_pack)
       /\ message_composed_pack # <<>>
     => Len(parsed'.protobuf_data) <= parsed'.size]_vars
=============================================================================
