----------------------------- MODULE Dialogue -----------------------------
(***************************************************************************)
(* The service and its parser: what the routine gives parse_legacy is the   *)
(* buffer the driver filled, so that a packet that was cleared, overwritten  *)
(* or read twice shows in the message.                                      *)
(*                                                                          *)
(* The packets that UsbService numbers have contents here, any bytes, and    *)
(* the length of a header at least.                                         *)
(***************************************************************************)
EXTENDS UsbService

CONSTANTS
  PacketSize,
  JunkBytes,
  HostPackets    \* what the host sends, first packet first

VARIABLES message_composed_pack, parsed, ret, crashed

parserVars == <<message_composed_pack, parsed, ret, crashed>>
dialogueVars == <<vars, parserVars>>

P == INSTANCE Parser WITH
       Packets <- {HostPackets[i] : i \in 1..MaxSend}, MaxCalls <- MaxSend,
       calls <- Len(processed)

\* The memory of buf_read_host: zeroes, or a packet.
Contents(b) == IF b = 0 THEN [i \in 1..PacketSize |-> 0] ELSE HostPackets[b]

DialogueInit == Init /\ P!Init

\* parse_legacy is called on what the buffer holds; an exception ends the process.
DialogueNext ==
  /\ ~crashed
  /\ Next
  /\ IF processed' = processed
       THEN UNCHANGED parserVars
       ELSE \E junk \in JunkBytes : P!Parse(Contents(buf), junk)

DialogueSpec == DialogueInit /\ [][DialogueNext]_dialogueVars /\ Fairness

----------------------------------------------------------------------------
StartsMessage(i) == P!StartsMessage(HostPackets[i], 0)

\* The size that packet i announces, as the parser reads it.
SizeAt(i) == P!LittleEndian32(HostPackets[i], P!OffsetLen)

\* The last message begun in the first n packets begins in packet i.
Begins(i, n) == StartsMessage(i) /\ \A j \in (i + 1)..n : ~StartsMessage(j)

\* No packet is shorter than a header: the parser throws at one that is, or takes its
\* fields from what lies behind it.
ASSUME HostAssumption ==
  /\ PacketSize \in Nat /\ PacketSize > P!OffsetData
  /\ JunkBytes \subseteq P!Byte
  /\ \A i \in 1..MaxSend :
       /\ HostPackets[i] \in Seq(P!Byte)
       /\ Len(HostPackets[i]) \in P!OffsetData..PacketSize

\* The data in packet i for a message of that size: all that is behind a header, unless
\* the message has none, and all of a further packet, if the size has room for it.
DataOf(i, size) ==
  IF StartsMessage(i)
    THEN IF size = 0 THEN <<>>
         ELSE SubSeq(HostPackets[i], P!OffsetData + 1, Len(HostPackets[i]))
    ELSE IF /\ HostPackets[i][1] = P!HeaderMagic[1]
            /\ Len(HostPackets[i]) - 1 + P!DataSubseq <= size
           THEN Tail(HostPackets[i]) ELSE <<>>

\* What the packets from first to n hold of the message that first begins.
DataFrom(first, n) ==
  [k \in 1..(n - first + 1) |-> DataOf(first + k - 1, SizeAt(first))]

\* From the host's memory to the parser's: whatever was reset, refused or interrupted
\* on the way, the parser holds the message the host has begun last, up to the last
\* packet the device took and the routine parsed, and none before the first.
MessageArrives ==
  LET n == Len(processed)
  IN /\ (\A i \in 1..n : ~StartsMessage(i)) => parsed.protobuf_data = <<>>
     /\ \A first \in 1..n : Begins(first, n) =>
          parsed.protobuf_data = FlattenSeq(DataFrom(first, n))
=============================================================================
