----------------------------- MODULE Composer -----------------------------
(***************************************************************************)
(* protocol::composer: one call of compose_legacy is a step for the checks  *)
(* and the first packet, a step for every further packet, and the return.   *)
(***************************************************************************)
EXTENDS LegacyPacket

CONSTANTS
  Messages,     \* what compose_legacy is called with
  JunkBytes,    \* what may lie in memory behind protobuf_data
  MaxCalls      \* bound: calls of compose_legacy

ASSUME ComposerAssumption ==
  /\ Messages \subseteq Message
  /\ \A m \in Messages : IsUInt16(m.id) /\ IsUInt32(m.size)
  /\ JunkBytes \subseteq Byte
  /\ MaxCalls \in Nat

VARIABLES
  message_composed_pack,
  parsed,
  allocated,    \* parsed.protobuf_data has owned memory: begin() is not null
  pc,           \* "idle", "loop" or, after a read behind the data, "crashed"
  ret,          \* what the last call returned
  calls

vars == <<message_composed_pack, parsed, allocated, pc, ret, calls>>

Init ==
  /\ message_composed_pack = <<>>
  /\ parsed = EmptyMessage
  /\ allocated = FALSE
  /\ pc = "idle" /\ ret = TRUE /\ calls = 0

Header(m) == HeaderMagic \o BigEndian16(m.id) \o BigEndian32(m.size)

\* The first packet takes DataFirst bytes from begin(), of however many there
\* are; junk is what it finds behind them.
FirstPacket(m, junk) ==
  [i \in 1..PacketSize |->
     IF i <= OffsetData THEN Header(m)[i]
     ELSE IF i - OffsetData <= Len(m.protobuf_data)
          THEN m.protobuf_data[i - OffsetData]
          ELSE junk]

\* Mutant: the bytes are counted in packets, headers included.
BytesComposedInPackets == DataFirst + (Len(message_composed_pack) - 1) * PacketSize

\* protobuf_data_bytes_composed
BytesComposed == DataFirst + (Len(message_composed_pack) - 1) * DataSubseq

\* Mutant: the last packet is not filled.
SubsequentialPacketShort ==
  <<HeaderMagic[1]>>
    \o SubSeq(parsed.protobuf_data, BytesComposed + 1,
              IF BytesComposed + DataSubseq <= Len(parsed.protobuf_data)
              THEN BytesComposed + DataSubseq ELSE Len(parsed.protobuf_data))

\* Mutant: what does not fit is left as it was in the packet before.
SubsequentialPacketStale ==
  [i \in 1..PacketSize |->
     IF i = 1 THEN HeaderMagic[1]
     ELSE IF BytesComposed + i - 1 <= Len(parsed.protobuf_data)
          THEN parsed.protobuf_data[BytesComposed + i - 1]
          ELSE message_composed_pack[Len(message_composed_pack)][i]]

\* The next DataSubseq bytes, filled with 0x00 after the last one.
SubsequentialPacket ==
  [i \in 1..PacketSize |->
     IF i = 1 THEN HeaderMagic[1]
     ELSE IF BytesComposed + i - 1 <= Len(parsed.protobuf_data)
          THEN parsed.protobuf_data[BytesComposed + i - 1]
          ELSE 0]

----------------------------------------------------------------------------
\* The size does not agree with the data: nothing is reset.
Reject ==
  /\ pc = "idle" /\ calls < MaxCalls
  /\ \E m \in Messages : Len(m.protobuf_data) # m.size
  /\ ret' = FALSE
  /\ calls' = calls + 1
  /\ UNCHANGED <<message_composed_pack, parsed, allocated, pc>>

\* A vector that has once held data keeps its memory when it becomes empty, and a
\* new one has none: there is nothing to copy from, and the call does not get here.
Begin(m) ==
  /\ pc = "idle" /\ calls < MaxCalls
  /\ Len(m.protobuf_data) = m.size
  /\ m.size # 0 \/ allocated
  /\ calls' = calls + 1
  /\ parsed' = m
  /\ allocated' = TRUE
  /\ \E junk \in JunkBytes : message_composed_pack' = <<FirstPacket(m, junk)>>
  /\ pc' = "loop"
  /\ UNCHANGED ret

\* The read behind the data faults.
Crash ==
  /\ pc = "idle" /\ calls < MaxCalls
  /\ \E m \in Messages :
       Len(m.protobuf_data) = m.size /\ m.size < DataFirst /\ parsed' = m
  /\ calls' = calls + 1
  /\ message_composed_pack' = <<>>
  /\ pc' = "crashed"
  /\ UNCHANGED <<allocated, ret>>

\* Mutant: another packet although all bytes are processed.
ComposeNextOneMore ==
  /\ pc = "loop" /\ BytesComposed <= Len(parsed.protobuf_data)
  /\ message_composed_pack' = Append(message_composed_pack, SubsequentialPacket)
  /\ UNCHANGED <<parsed, allocated, pc, ret, calls>>

\* Mutant: the packet is built and never pushed.
ComposeNextNotPushed ==
  /\ pc = "loop" /\ BytesComposed < Len(parsed.protobuf_data)
  /\ UNCHANGED vars

ComposeNext ==
  /\ pc = "loop" /\ BytesComposed < Len(parsed.protobuf_data)
  /\ message_composed_pack' = Append(message_composed_pack, SubsequentialPacket)
  /\ UNCHANGED <<parsed, allocated, pc, ret, calls>>

Finish ==
  /\ pc = "loop" /\ BytesComposed >= Len(parsed.protobuf_data)
  /\ pc' = "idle" /\ ret' = TRUE
  /\ UNCHANGED <<message_composed_pack, parsed, allocated, calls>>

Next ==
  \/ Reject
  \/ \E m \in Messages : Begin(m)
  \/ Crash
  \/ ComposeNext
  \/ Finish

Spec == Init /\ [][Next]_vars

----------------------------------------------------------------------------
\* Every variable has its type; a packet is PacketSize bytes.
TypeOK ==
  /\ message_composed_pack \in Seq([1..PacketSize -> Byte])
  /\ parsed \in Message
  /\ allocated \in BOOLEAN
  /\ pc \in {"idle", "loop", "crashed"}
  /\ ret \in BOOLEAN
  /\ calls \in 0..MaxCalls

\* The byte of the message that byte j of the data of packet k carries.
Position(k, j) == IF k = 1 THEN j ELSE DataFirst + (k - 2) * DataSubseq + j

DataByte(k, j) ==
  message_composed_pack[k][j + (IF k = 1 THEN OffsetData ELSE 1)]

DataIn(k) == 1..(IF k = 1 THEN DataFirst ELSE DataSubseq)

\* Every packet composed so far carries the bytes of the message that belong at
\* its place: none is skipped, repeated or taken from an earlier message, also
\* after a call that was rejected.
PackCarriesData ==
  \A k \in DOMAIN message_composed_pack : \A j \in DataIn(k) :
    Position(k, j) <= Len(parsed.protobuf_data) =>
      DataByte(k, j) = parsed.protobuf_data[Position(k, j)]

\* A packet is added only for data that the packets before it left over: a
\* message that ends with a packet has no empty packet behind it.
NoEmptyPacket ==
  \A k \in DOMAIN message_composed_pack :
    k > 1 => Position(k, 1) <= Len(parsed.protobuf_data)

\* A finished call has put every byte of the message into a packet, the bytes at the
\* ends of packets included: the loop's count of processed bytes never runs ahead of
\* what the packets hold.
NothingLeftOut ==
  pc = "idle" /\ message_composed_pack # <<>> =>
    \A b \in DOMAIN parsed.protobuf_data :
      \E k \in DOMAIN message_composed_pack : \E j \in DataIn(k) :
        Position(k, j) = b /\ DataByte(k, j) = parsed.protobuf_data[b]

\* "fill 0x00 if last pack not full": behind the first packet, what follows the
\* message in its last packet is zeroes and never a byte of another packet.
PaddingIsZero ==
  \A k \in DOMAIN message_composed_pack : \A j \in DataIn(k) :
    k > 1 /\ Position(k, j) > Len(parsed.protobuf_data) => DataByte(k, j) = 0

\* A call of compose_legacy returns: the loop ends.
Terminates == pc = "loop" ~> pc = "idle"
=============================================================================
