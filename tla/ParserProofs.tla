--------------------------- MODULE ParserProofs ---------------------------
(***************************************************************************)
(* Parser for every set of packets, every size of packet and every content  *)
(* of the memory behind a packet: its types, that it keeps one message,     *)
(* and how the data is laid out.                                            *)
(***************************************************************************)
EXTENDS Parser, FlattenProofs

\* The packets are sequences of bytes, and what lies behind them are bytes.
LEMMA Inputs ==
  /\ \A raw \in Packets : raw \in Seq(Byte)
  /\ \A junk \in JunkBytes : junk \in Byte
BY ParserAssumption

\* A read of any byte of the header finds a byte.
LEMMA SeenBytes ==
  ASSUME NEW raw \in Packets, NEW junk \in JunkBytes, NEW i \in 1..OffsetData
  PROVE  Seen(raw, junk)[i] \in Byte
<1>1. raw \in Seq(Byte) /\ junk \in Byte
  BY Inputs
<1>2. CASE i <= Len(raw)
  BY <1>1, <1>2 DEF Seen, OffsetData
<1>3. CASE ~(i <= Len(raw))
  BY <1>1, <1>3 DEF Seen, OffsetData
<1> QED BY <1>2, <1>3

\* The fields of a header, whatever its bytes, are numbers.
LEMMA FieldsAreNumbers ==
  ASSUME NEW raw \in Packets, NEW junk \in JunkBytes
  PROVE  /\ LittleEndian16(Seen(raw, junk), OffsetId) \in Nat
         /\ LittleEndian32(Seen(raw, junk), OffsetLen) \in Nat
<1> DEFINE seen == Seen(raw, junk)
<1>1. ASSUME NEW i \in 1..9 PROVE seen[i] \in Nat
  <2>1. seen[i] \in Byte
    BY SeenBytes DEF OffsetData
  <2> QED BY <2>1 DEF Byte
<1> HIDE DEF seen
<1>2. LittleEndian16(seen, OffsetId) \in Nat
  BY <1>1 DEF LittleEndian16, OffsetId
<1>3. LittleEndian32(seen, OffsetLen) \in Nat
  <2>1. seen[6] \in Nat /\ seen[7] \in Nat /\ seen[8] \in Nat /\ seen[9] \in Nat
    BY <1>1
  <2> QED BY <2>1 DEF LittleEndian32, OffsetLen
<1> QED BY <1>2, <1>3 DEF seen

\* What stands behind the first bytes of a packet are bytes.
LEMMA RestOfPacket ==
  ASSUME NEW raw \in Seq(Byte), NEW n \in Nat
  PROVE  SubSeq(raw, n + 1, Len(raw)) \in Seq(Byte)
OBVIOUS

\* The numbers and the sequences of the state.
LEMMA StateTypes ==
  ASSUME TypeOK
  PROVE  /\ parsed.size \in Nat /\ parsed.id \in Nat
         /\ parsed.protobuf_data \in Seq(Byte) /\ Len(parsed.protobuf_data) \in Nat
         /\ message_composed_pack \in Seq(Seq(Byte)) /\ Len(message_composed_pack) \in Nat
BY DEF TypeOK, Message

LEMMA SubseqIsPositive == DataSubseq \in Nat /\ DataSubseq > 0
BY PacketAssumption DEF DataSubseq, OffsetData

\* A packet that fits is no longer than what the message announced.
LEMMA FitsOnlyLarge ==
  ASSUME TypeOK, NEW raw \in Seq(Byte), Len(raw) > 0, FitsInformedSize(raw)
  PROVE  parsed.size >= DataSubseq
<1>1. Len(raw) \in Nat
  OBVIOUS
<1> QED BY <1>1, StateTypes, SubseqIsPositive DEF FitsInformedSize

\* A new parser has its types.
LEMMA InitTypes == Init => TypeOK
<1>1. <<>> \in Seq(Byte) /\ <<>> \in Seq(Seq(Byte))
  OBVIOUS
<1>2. EmptyMessage \in Message
  BY <1>1 DEF EmptyMessage, Message
<1>3. 0 \in 0..MaxCalls
  BY ParserAssumption
<1> QED BY <1>1, <1>2, <1>3 DEF Init, TypeOK

\* Every branch of parse_legacy keeps the types.
LEMMA NextTypes == TypeOK /\ [Next]_vars => TypeOK'
<1> SUFFICES ASSUME TypeOK, [Next]_vars PROVE TypeOK'
  OBVIOUS
<1>1. CASE UNCHANGED vars
  BY <1>1 DEF vars, TypeOK
<1>2. ASSUME NEW raw \in Packets, NEW junk \in JunkBytes, Parse(raw, junk)
      PROVE  TypeOK'
  <2>1. raw \in Seq(Byte) /\ calls' \in 0..MaxCalls
    BY <1>2, Inputs, ParserAssumption DEF Parse, Call, TypeOK
  <2>2. CASE ParseFirst(raw, junk)
    <3> DEFINE size == LittleEndian32(Seen(raw, junk), OffsetLen)
               data == IF size = 0 THEN <<>> ELSE SubSeq(raw, OffsetData + 1, Len(raw))
    <3>1. data \in Seq(Byte)
      BY <2>1, RestOfPacket DEF OffsetData
    <3>2. parsed' = [id |-> LittleEndian16(Seen(raw, junk), OffsetId), size |-> size,
                     protobuf_data |-> data]
      BY <2>2 DEF ParseFirst
    <3>3. parsed' \in Message
      BY <3>1, <3>2, FieldsAreNumbers DEF Message
    <3>4. message_composed_pack' \in Seq(Seq(Byte))
      BY <2>1, <2>2 DEF ParseFirst
    <3>5. ret' \in BOOLEAN /\ crashed' \in BOOLEAN
      BY <2>2 DEF ParseFirst, TypeOK
    <3> QED BY <2>1, <3>3, <3>4, <3>5 DEF TypeOK
  <2>3. CASE ParseSubsequential(raw, junk)
    <3>1. Tail(raw) \in Seq(Byte)
      BY <2>1, <2>3 DEF ParseSubsequential
    <3>2. parsed.protobuf_data \o Tail(raw) \in Seq(Byte)
      BY <3>1 DEF TypeOK, Message
    <3>4. parsed' = [parsed EXCEPT !.protobuf_data = parsed.protobuf_data \o Tail(raw)]
      BY <2>3 DEF ParseSubsequential
    <3>5. parsed' \in Message
      BY <3>2, <3>4 DEF TypeOK, Message
    <3>3. message_composed_pack' \in Seq(Seq(Byte))
      BY <2>1, <2>3 DEF ParseSubsequential, TypeOK
    <3> QED BY <2>1, <2>3, <3>3, <3>5 DEF ParseSubsequential, TypeOK
  <2>4. CASE WrongHeader(raw, junk)
    BY <2>1, <2>4 DEF WrongHeader, TypeOK
  <2>5. CASE Throw(raw, junk)
    BY <2>1, <2>5 DEF Throw, TypeOK
  <2> QED BY <1>2, <2>2, <2>3, <2>4, <2>5 DEF Parse
<1> QED BY <1>1, <1>2 DEF Next

\* The parser is well typed whatever it is called with and whatever lies in
\* memory behind a short packet.
THEOREM ParserTypes == Spec => []TypeOK
BY InitTypes, NextTypes, PTL DEF Spec

----------------------------------------------------------------------------
\* The first packet of a message: the pack is that packet, and its header is what was read.
LEMMA FirstIsAlone ==
  ASSUME NEW raw \in Packets, NEW junk \in JunkBytes, ParseFirst(raw, junk)
  PROVE  OneMessage'
<1>1. message_composed_pack' = <<raw>> /\ StartsMessage(raw, junk)
  BY DEF ParseFirst
<1>2. /\ parsed'.id = LittleEndian16(Seen(raw, junk), OffsetId)
      /\ parsed'.size = LittleEndian32(Seen(raw, junk), OffsetLen)
  BY DEF ParseFirst
<1>3. BegunBy(raw, parsed')
  BY <1>1, <1>2 DEF BegunBy
<1>4. <<raw>> # <<>> /\ <<raw>>[1] = raw /\ 2..Len(<<raw>>) = {}
  OBVIOUS
<1> QED BY <1>1, <1>3, <1>4 DEF OneMessage

\* A packet behind a first one, of a message that has room for it.
LEMMA NextIsJoined ==
  ASSUME TypeOK, OneMessage, NEW raw \in Packets, NEW junk \in JunkBytes,
         ParseSubsequential(raw, junk)
  PROVE  /\ message_composed_pack # <<>> /\ Len(raw) > 0
         /\ OneMessage'
<1> DEFINE pack == message_composed_pack
           n == Len(pack)
           more == Append(pack, raw)
<1>1. raw \in Seq(Byte) /\ Len(raw) > 0
  BY Inputs DEF ParseSubsequential
<1>2. parsed.size >= DataSubseq
  BY <1>1, FitsOnlyLarge DEF ParseSubsequential
<1>3. pack # <<>>
  BY <1>2, SubseqIsPositive DEF OneMessage, EmptyMessage
<1>4. /\ parsed'.size = parsed.size /\ parsed'.id = parsed.id
      /\ message_composed_pack' = more
  BY DEF ParseSubsequential, TypeOK, Message
<1>5. /\ n \in Nat /\ n > 0
      /\ more # <<>> /\ Len(more) = n + 1 /\ more[n + 1] = raw
      /\ \A k \in 1..n : more[k] = pack[k]
  <2>1. pack \in Seq(Seq(Byte)) /\ n \in Nat
    BY StateTypes
  <2>2. n > 0
    BY <1>3, <2>1
  <2> HIDE DEF pack
  <2> QED BY <1>1, <2>1, <2>2
<1>6. ContinuedBy(raw, parsed')
  BY <1>2, <1>4, StateTypes, SubseqIsPositive DEF ParseSubsequential, ContinuedBy
<1>7. BegunBy(pack[1], parsed')
  BY <1>3, <1>4 DEF OneMessage, BegunBy
<1>8. \A k \in 2..n : ContinuedBy(pack[k], parsed')
  BY <1>3, <1>4 DEF OneMessage, ContinuedBy
<1> HIDE DEF pack, n, more
<1>9. BegunBy(more[1], parsed') /\ \A k \in 2..(n + 1) : ContinuedBy(more[k], parsed')
  <2>1. 1 \in 1..n /\ \A k \in 2..(n + 1) : k = n + 1 \/ (k \in 1..n /\ k \in 2..n)
    BY <1>5
  <2> QED BY <1>5, <1>6, <1>7, <1>8, <2>1
<1>10. OneMessage'
  BY <1>4, <1>5, <1>9 DEF OneMessage
<1> QED BY <1>1, <1>3, <1>10 DEF pack

LEMMA NextOneMessage == TypeOK /\ OneMessage /\ [Next]_vars => OneMessage'
<1> SUFFICES ASSUME TypeOK, OneMessage, [Next]_vars PROVE OneMessage'
  OBVIOUS
<1>1. CASE UNCHANGED <<message_composed_pack, parsed>>
  BY <1>1 DEF OneMessage
<1>2. ASSUME NEW raw \in Packets, NEW junk \in JunkBytes, Parse(raw, junk)
      PROVE  OneMessage'
  <2>1. CASE WrongHeader(raw, junk) \/ Throw(raw, junk)
    BY <1>1, <2>1 DEF WrongHeader, Throw
  <2> QED BY <1>2, <2>1, FirstIsAlone, NextIsJoined DEF Parse
<1> QED BY <1>1, <1>2 DEF Next, vars

\* Whatever the packets are and whatever lies behind them, what the parser keeps is one
\* message, with the header of its first packet.
THEOREM KeepsOneMessage == Spec => []OneMessage
<1>1. Init => OneMessage
  BY DEF Init, OneMessage
<1> QED BY InitTypes, NextTypes, NextOneMessage, <1>1, PTL DEF Spec
----------------------------------------------------------------------------
\* The data of message p is cut into pieces, one for each packet of the pack, in
\* order: the i-th lies behind cut[i - 1], ends at cut[i], and is the payload.
Piece(cut, pack, p, i) ==
  /\ cut[i] = cut[i - 1] + Len(Payload(pack, p.size, i))
  /\ \A j \in 1..Len(Payload(pack, p.size, i)) :
       p.protobuf_data[cut[i - 1] + j] = Payload(pack, p.size, i)[j]

CutAt(cut, pack, p) ==
  /\ cut \in [0..Len(pack) -> 0..Len(p.protobuf_data)]
  /\ cut[0] = 0
  /\ cut[Len(pack)] = Len(p.protobuf_data)
  /\ \A i \in 1..Len(pack) : Piece(cut, pack, p, i)

LaidOut == \E cut : CutAt(cut, message_composed_pack, parsed)

\* A payload is a sequence of bytes.
LEMMA PayloadType ==
  ASSUME NEW pack \in Seq(Seq(Byte)), NEW size \in Nat, NEW i \in 1..Len(pack)
  PROVE  /\ Payload(pack, size, i) \in Seq(Byte)
         /\ Len(Payload(pack, size, i)) \in Nat
<1>1. pack[i] \in Seq(Byte) /\ i \in Nat
  OBVIOUS
<1>2. CASE i > 1
  <2>1. Payload(pack, size, i) = SubSeq(pack[i], 2, Len(pack[i]))
    BY <1>2 DEF Payload
  <2>2. SubSeq(pack[i], 1 + 1, Len(pack[i])) \in Seq(Byte)
    BY <1>1, RestOfPacket
  <2> QED BY <2>1, <2>2
<1>3. CASE i = 1
  BY <1>1, <1>3, RestOfPacket DEF Payload, OffsetData
<1> QED BY <1>1, <1>2, <1>3

\* A first packet: one piece, from the first byte to the last.
LEMMA FirstLaysOut ==
  ASSUME NEW raw \in Seq(Byte), NEW p \in Message,
         p.protobuf_data = Payload(<<raw>>, p.size, 1)
  PROVE  \E cut : CutAt(cut, <<raw>>, p)
<1> DEFINE d == p.protobuf_data
           cut == [k \in 0..1 |-> IF k = 0 THEN 0 ELSE Len(d)]
<1>1. Len(<<raw>>) = 1
  OBVIOUS
<1>2. d \in Seq(Byte) /\ Len(d) \in Nat
  BY DEF Message
<1>3. /\ cut \in [0..1 -> 0..Len(d)] /\ cut[0] = 0 /\ cut[1] = Len(d)
      /\ \A j \in 1..Len(d) : cut[0] + j = j
  BY <1>2
<1> HIDE DEF cut
<1>4. Piece(cut, <<raw>>, p, 1)
  BY <1>2, <1>3 DEF Piece
<1>5. \A i \in 1..1 : i = 1
  OBVIOUS
<1>6. CutAt(cut, <<raw>>, p)
  BY <1>1, <1>3, <1>4, <1>5 DEF CutAt
<1> QED BY <1>6

\* A subsequential packet behind at least one other: one piece more, behind the
\* data so far.
LEMMA SubsequentialLaysOut ==
  ASSUME NEW pack \in Seq(Seq(Byte)), NEW p \in Message, pack # <<>>,
         NEW cut, CutAt(cut, pack, p), NEW raw \in Seq(Byte), Len(raw) > 0
  PROVE  \E more : CutAt(more, Append(pack, raw),
                         [p EXCEPT !.protobuf_data = p.protobuf_data \o Tail(raw)])
<1> DEFINE n == Len(pack)
           d == p.protobuf_data
           t == Tail(raw)
           pack2 == Append(pack, raw)
           p2 == [p EXCEPT !.protobuf_data = d \o t]
           more == [k \in 0..(n + 1) |-> IF k = n + 1 THEN Len(d) + Len(t) ELSE cut[k]]
<1>1. /\ t \in Seq(Byte) /\ Len(t) \in Nat
      /\ d \in Seq(Byte) /\ Len(d) \in Nat /\ n \in Nat /\ n >= 1
  BY DEF Message
<1>2. /\ Len(pack2) = n + 1 /\ pack2[n + 1] = raw /\ pack2[1] = pack[1]
      /\ \A i \in 1..n : pack2[i] = pack[i]
  BY <1>1
<1>3. p2.protobuf_data = d \o t /\ p2.size = p.size
  BY DEF Message
<1>4. /\ Len(d \o t) = Len(d) + Len(t)
      /\ \A k \in 1..Len(d) : (d \o t)[k] = d[k]
      /\ \A k \in 1..Len(t) : (d \o t)[Len(d) + k] = t[k]
  BY <1>1
<1>5. Payload(pack2, p2.size, n + 1) = t
  BY <1>1, <1>2 DEF Payload
<1>6. ASSUME NEW i \in 1..n
      PROVE  /\ Payload(pack2, p2.size, i) = Payload(pack, p.size, i)
             /\ Len(Payload(pack, p.size, i)) \in Nat
  <2>1. p.size \in Nat
    BY DEF Message
  <2> QED BY <1>2, <1>3, <2>1, PayloadType DEF Payload
<1>7. /\ cut \in [0..n -> 0..Len(d)] /\ cut[0] = 0 /\ cut[n] = Len(d)
      /\ \A i \in 1..n : Piece(cut, pack, p, i)
  BY DEF CutAt
<1> HIDE DEF t, n, pack2, p2, d
<1>8. /\ more \in [0..(n + 1) -> 0..(Len(d) + Len(t))]
      /\ more[0] = 0 /\ more[n + 1] = Len(d) + Len(t)
      /\ \A i \in 0..n : more[i] = cut[i]
  <2>1. 0 \in 0..n /\ n + 1 \notin 0..n /\ n + 1 \in 0..(n + 1)
    BY <1>1
  <2>2. \A i \in 0..n : i \in 0..(n + 1) /\ i # n + 1
    BY <1>1
  <2>3. \A i \in 0..n : cut[i] \in 0..(Len(d) + Len(t))
    BY <1>1, <1>7
  <2> QED BY <1>1, <1>7, <2>1, <2>2, <2>3
<1> HIDE DEF more
<1>9. Piece(more, pack2, p2, n + 1)
  <2>1. more[(n + 1) - 1] = Len(d)
    BY <1>1, <1>7, <1>8
  <2> QED BY <1>3, <1>4, <1>5, <1>8, <2>1 DEF Piece
<1>10. ASSUME NEW i \in 1..n PROVE Piece(more, pack2, p2, i)
  <2>0. i \in 0..n /\ i - 1 \in 0..n
    BY <1>1
  <2>1. /\ more[i] = cut[i] /\ more[i - 1] = cut[i - 1]
        /\ cut[i - 1] \in Nat /\ cut[i] \in 0..Len(d)
    BY <1>1, <1>7, <1>8, <2>0
  <2>2. /\ cut[i] = cut[i - 1] + Len(Payload(pack, p.size, i))
        /\ \A j \in 1..Len(Payload(pack, p.size, i)) :
             d[cut[i - 1] + j] = Payload(pack, p.size, i)[j]
    BY <1>7 DEF Piece, d
  <2>3. ASSUME NEW j \in 1..Len(Payload(pack, p.size, i))
        PROVE  cut[i - 1] + j \in 1..Len(d)
    <3> DEFINE l == Len(Payload(pack, p.size, i))
               c == cut[i - 1]
    <3>1. l \in Nat /\ c \in Nat /\ c + l <= Len(d) /\ j \in 1..l
      BY <1>1, <1>6, <2>1, <2>2
    <3> HIDE DEF l, c
    <3>2. c + j \in 1..Len(d)
      BY <1>1, <3>1
    <3> QED BY <3>2 DEF c
  <2>4. Payload(pack2, p2.size, i) = Payload(pack, p.size, i)
    BY <1>6
  <2>5. \A j \in 1..Len(Payload(pack, p.size, i)) :
          p2.protobuf_data[cut[i - 1] + j] = Payload(pack, p.size, i)[j]
    BY <1>3, <1>4, <2>2, <2>3
  <2> QED BY <2>1, <2>2, <2>4, <2>5 DEF Piece
<1>11. CutAt(more, pack2, p2)
  <2>1. \A i \in 1..(n + 1) : i = n + 1 \/ i \in 1..n
    BY <1>1
  <2> QED BY <1>2, <1>3, <1>4, <1>8, <1>9, <1>10, <2>1 DEF CutAt
<1> QED BY <1>11 DEF pack2, p2, d, t

\* One call.  A packet is only added behind a first one, since a message that has
\* not begun has no room for it (OneMessage).
LEMMA NextLaysOut ==
  TypeOK /\ TypeOK' /\ OneMessage /\ LaidOut /\ [Next]_vars => LaidOut'
<1> SUFFICES ASSUME TypeOK, TypeOK', OneMessage, LaidOut, [Next]_vars
             PROVE  LaidOut'
  OBVIOUS
<1>1. CASE UNCHANGED <<message_composed_pack, parsed>>
  BY <1>1 DEF LaidOut
<1>2. ASSUME NEW raw \in Packets, NEW junk \in JunkBytes, Parse(raw, junk)
      PROVE  LaidOut'
  <2>1. raw \in Seq(Byte) /\ parsed \in Message /\ parsed' \in Message
    BY Inputs DEF TypeOK
  <2>2. CASE ParseFirst(raw, junk)
    <3>1. /\ message_composed_pack' = <<raw>>
          /\ parsed'.protobuf_data = Payload(<<raw>>, parsed'.size, 1)
      BY <2>2 DEF ParseFirst, Payload
    <3> QED BY <2>1, <3>1, FirstLaysOut DEF LaidOut
  <2>3. CASE ParseSubsequential(raw, junk)
    <3>1. Len(raw) > 0 /\ message_composed_pack # <<>>
      BY <2>3, NextIsJoined
    <3>2. PICK cut : CutAt(cut, message_composed_pack, parsed)
      BY DEF LaidOut
    <3>3. /\ message_composed_pack' = Append(message_composed_pack, raw)
          /\ parsed' = [parsed EXCEPT !.protobuf_data = parsed.protobuf_data \o Tail(raw)]
      BY <2>3 DEF ParseSubsequential
    <3> QED BY <2>1, <3>1, <3>2, <3>3, StateTypes, SubsequentialLaysOut DEF LaidOut
  <2>4. CASE WrongHeader(raw, junk) \/ Throw(raw, junk)
    BY <1>1, <2>4 DEF WrongHeader, Throw
  <2> QED BY <1>2, <2>2, <2>3, <2>4 DEF Parse
<1> QED BY <1>1, <1>2 DEF Next, vars

\* Whatever was rejected, restarted or thrown at between them, the data is that of
\* the packets of the pack, one after another, without a gap or an overlap.
THEOREM DataIsLaidOut == Spec => []LaidOut
<1>1. Init => LaidOut
  <2> DEFINE cut == [k \in {0} |-> 0]
  <2>1. 0..0 = {0} /\ 1..0 = {} /\ Len(<<>>) = 0
    OBVIOUS
  <2>2. CutAt(cut, <<>>, EmptyMessage)
    BY <2>1 DEF CutAt, EmptyMessage
  <2> QED BY <2>2 DEF Init, LaidOut
<1>2. Init => OneMessage
  BY DEF Init, OneMessage
<1> QED
  BY InitTypes, NextTypes, NextOneMessage, NextLaysOut, <1>1, <1>2, PTL DEF Spec
----------------------------------------------------------------------------
(* The data of the pack, flattened. *)

\* What ParsedIsPack flattens.
Payloads(pack, size) == [i \in DOMAIN pack |-> Payload(pack, size, i)]

\* One payload for each packet.
LEMMA PayloadsType ==
  ASSUME NEW pack \in Seq(Seq(Byte)), NEW size \in Nat
  PROVE  /\ Payloads(pack, size) \in Seq(Seq(Byte))
         /\ Len(Payloads(pack, size)) = Len(pack)
         /\ \A i \in 1..Len(pack) : Payloads(pack, size)[i] = Payload(pack, size, i)
<1>1. \A i \in 1..Len(pack) : Payload(pack, size, i) \in Seq(Byte)
  BY PayloadType
<1>2. Payloads(pack, size) = [i \in 1..Len(pack) |-> Payload(pack, size, i)]
  BY DEF Payloads
<1>3. Len(pack) \in Nat
  OBVIOUS
<1> QED BY <1>1, <1>2, <1>3

\* The data of one packet more: its payload, behind the payloads there were.
LEMMA PayloadsAppend ==
  ASSUME NEW pack \in Seq(Seq(Byte)), pack # <<>>, NEW size \in Nat,
         NEW raw \in Seq(Byte), Len(raw) > 0
  PROVE  Payloads(Append(pack, raw), size) = Append(Payloads(pack, size), Tail(raw))
<1> DEFINE n == Len(pack)
           pack2 == Append(pack, raw)
           old == Payloads(pack, size)
           new == Payloads(pack2, size)
           more == Append(old, Tail(raw))
<1>1. /\ n \in Nat /\ n > 0 /\ Len(pack2) = n + 1 /\ pack2[n + 1] = raw
      /\ \A i \in 1..n : pack2[i] = pack[i]
      /\ pack2 \in Seq(Seq(Byte)) /\ Tail(raw) \in Seq(Byte)
  OBVIOUS
<1>2. \A i \in 1..n : Payload(pack2, size, i) = Payload(pack, size, i)
  BY <1>1 DEF Payload
<1>3. Payload(pack2, size, n + 1) = Tail(raw)
  BY <1>1 DEF Payload
<1>4. /\ old \in Seq(Seq(Byte)) /\ Len(old) = n
      /\ \A i \in 1..n : old[i] = Payload(pack, size, i)
  BY PayloadsType
<1>5. /\ new \in Seq(Seq(Byte)) /\ Len(new) = n + 1
      /\ \A i \in 1..(n + 1) : new[i] = Payload(pack2, size, i)
  BY <1>1, PayloadsType
<1> HIDE DEF n, pack2, old, new
<1>6. /\ more \in Seq(Seq(Byte)) /\ Len(more) = n + 1
      /\ more[n + 1] = Tail(raw) /\ \A i \in 1..n : more[i] = old[i]
  BY <1>1, <1>4, AppendProperties
<1> HIDE DEF more
<1>7. \A i \in 1..(n + 1) : new[i] = more[i]
  <2>1. \A i \in 1..(n + 1) : i = n + 1 \/ i \in 1..n
    BY <1>1
  <2> SUFFICES ASSUME NEW i \in 1..(n + 1) PROVE new[i] = more[i]
    OBVIOUS
  <2>2. CASE i = n + 1
    BY <1>3, <1>5, <1>6, <2>2
  <2>3. CASE i \in 1..n
    BY <1>2, <1>4, <1>5, <1>6, <2>3
  <2> QED BY <2>1, <2>2, <2>3
<1>8. new = more
  BY <1>5, <1>6, <1>7, SeqEqual
<1> QED BY <1>8 DEF new, more, old, pack2

\* One call: the data is what the pack makes, or nothing has happened.
LEMMA NextParsesPack ==
  TypeOK /\ TypeOK' /\ OneMessage /\ ParsedIsPack /\ [Next]_vars => ParsedIsPack'
<1> SUFFICES ASSUME TypeOK, TypeOK', OneMessage, ParsedIsPack, [Next]_vars
             PROVE  ParsedIsPack'
  OBVIOUS
<1>1. CASE UNCHANGED <<message_composed_pack, parsed>>
  BY <1>1 DEF ParsedIsPack
<1>2. ASSUME NEW raw \in Packets, NEW junk \in JunkBytes, Parse(raw, junk)
      PROVE  ParsedIsPack'
  <2>1. raw \in Seq(Byte) /\ parsed \in Message /\ parsed' \in Message
    BY Inputs DEF TypeOK
  <2>2. CASE ParseFirst(raw, junk)
    <3>1. /\ message_composed_pack' = <<raw>>
          /\ parsed'.protobuf_data = Payload(<<raw>>, parsed'.size, 1)
      BY <2>2 DEF ParseFirst, Payload
    <3>2. Payloads(<<raw>>, parsed'.size) = <<Payload(<<raw>>, parsed'.size, 1)>>
      BY DEF Payloads
    <3> QED BY <3>1, <3>2, FlattenOne DEF ParsedIsPack, Payloads
  <2>3. CASE ParseSubsequential(raw, junk)
    <3>1. Len(raw) > 0 /\ message_composed_pack # <<>>
      BY <2>3, NextIsJoined
    <3>2. /\ message_composed_pack' = Append(message_composed_pack, raw)
          /\ parsed'.protobuf_data = parsed.protobuf_data \o Tail(raw)
          /\ parsed'.size = parsed.size
      BY <2>1, <2>3 DEF ParseSubsequential, Message
    <3> DEFINE old == Payloads(message_composed_pack, parsed.size)
    <3>3. old \in Seq(Seq(Byte)) /\ old # <<>> /\ Tail(raw) \in Seq(Byte)
      <4>1. old \in Seq(Seq(Byte)) /\ Len(old) = Len(message_composed_pack)
        BY StateTypes, PayloadsType
      <4>2. Len(message_composed_pack) # 0
        BY <3>1, StateTypes
      <4> HIDE DEF old
      <4> QED BY <2>1, <3>1, <4>1, <4>2
    <3>4. Payloads(message_composed_pack', parsed'.size) = Append(old, Tail(raw))
      <4>1. /\ message_composed_pack \in Seq(Seq(Byte)) /\ message_composed_pack # <<>>
            /\ parsed.size \in Nat
        BY <3>1, StateTypes
      <4>2. raw \in Seq(Byte) /\ Len(raw) > 0
        BY <2>1, <3>1
      <4>3. Payloads(Append(message_composed_pack, raw), parsed.size) = Append(old, Tail(raw))
        BY <4>1, <4>2, PayloadsAppend
      <4> QED BY <3>2, <4>3
    <3>5. FlattenSeq(Append(old, Tail(raw))) = FlattenSeq(old) \o Tail(raw)
      BY <3>3, FlattenAppend
    <3>6. parsed.protobuf_data = FlattenSeq(old)
      BY DEF ParsedIsPack, Payloads
    <3> HIDE DEF old
    <3>7. parsed'.protobuf_data = FlattenSeq(Payloads(message_composed_pack', parsed'.size))
      BY <3>2, <3>4, <3>5, <3>6
    <3> QED BY <3>7 DEF ParsedIsPack, Payloads
  <2>4. CASE WrongHeader(raw, junk) \/ Throw(raw, junk)
    BY <1>1, <2>4 DEF WrongHeader, Throw
  <2> QED BY <1>2, <2>2, <2>3, <2>4 DEF Parse
<1> QED BY <1>1, <1>2 DEF Next, vars

\* Whatever the parser is called with, its data is that of the packets it keeps, in
\* their order, from the first byte to the last.
THEOREM DataIsThePack == Spec => []ParsedIsPack
<1>1. Init => ParsedIsPack
  BY FlattenNone DEF Init, ParsedIsPack, EmptyMessage
<1>2. Init => OneMessage
  BY DEF Init, OneMessage
<1> QED
  BY InitTypes, NextTypes, NextOneMessage, NextParsesPack, <1>1, <1>2, PTL DEF Spec
=============================================================================
