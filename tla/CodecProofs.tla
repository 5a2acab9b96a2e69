---------------------------- MODULE CodecProofs ----------------------------
(***************************************************************************)
(* For every packet size, every set of messages and messages of every       *)
(* length: the composer puts the whole message into the packets, and what   *)
(* crosses the wire arrives.                                                *)
(***************************************************************************)
EXTENDS Codec, TLAPS, SequenceTheorems

----------------------------------------------------------------------------
(* The composer alone. *)

\* The data of a packet of either kind is shorter than the packet.
LEMMA Sizes ==
  /\ DataFirst \in Nat \ {0} /\ DataSubseq \in Nat \ {0}
  /\ OffsetData + DataFirst = PacketSize /\ 1 + DataSubseq = PacketSize
  BY PacketAssumption DEF DataFirst, DataSubseq, OffsetData

\* What compose_legacy may be called with has the types of a message.
LEMMA MessageType ==
  ASSUME NEW m \in Messages
  PROVE  m.protobuf_data \in Seq(Byte) /\ m.id \in Nat /\ m.size \in Nat
<1>1. m \in Message
  BY ComposerAssumption
<1> QED BY <1>1 DEF Message

\* Three sequences put together, as the header is.
LEMMA ConcatThree ==
  ASSUME NEW S, NEW x \in Seq(S), NEW y \in Seq(S), NEW z \in Seq(S)
  PROVE  x \o y \o z \in Seq(S) /\ Len(x \o y \o z) = Len(x) + Len(y) + Len(z)
<1>1. x \o y \in Seq(S) /\ Len(x \o y) = Len(x) + Len(y)
  BY ConcatProperties
<1> QED BY <1>1, ConcatProperties

\* The nine bytes before the data of a first packet are bytes.
LEMMA HeaderType ==
  ASSUME NEW m \in Messages
  PROVE  \A i \in 1..OffsetData : Header(m)[i] \in Byte
<1> DEFINE a == m.id \div 256
           b == m.id % 256
           c == m.size \div 16777216
           d == (m.size \div 65536) % 256
           e == (m.size \div 256) % 256
           f == m.size % 256
<1>0. IsUInt16(m.id) /\ IsUInt32(m.size)
  BY ComposerAssumption
<1>1. a \in Byte /\ b \in Byte
  BY <1>0, SMT DEF Byte, IsUInt16
<1>2. c \in Byte
  BY <1>0, SMT DEF IsUInt32
<1>3. d \in Byte /\ e \in Byte /\ f \in Byte
  BY <1>0, SMT DEF Byte, IsUInt32
<1>4. /\ HeaderMagic \in Seq(Byte) /\ Len(HeaderMagic) = 3
      /\ BigEndian16(m.id) \in Seq(Byte) /\ Len(BigEndian16(m.id)) = 2
  BY <1>1, SMT DEF HeaderMagic, BigEndian16, Byte
<1>5. BigEndian32(m.size) \in Seq(Byte) /\ Len(BigEndian32(m.size)) = 4
  BY <1>2, <1>3, SMT DEF BigEndian32
<1>6. Header(m) \in Seq(Byte) /\ Len(Header(m)) = OffsetData
  <2> DEFINE x == HeaderMagic
             y == BigEndian16(m.id)
             z == BigEndian32(m.size)
  <2>1. x \in Seq(Byte) /\ y \in Seq(Byte) /\ z \in Seq(Byte)
    BY <1>4, <1>5
  <2>2. Len(x) = 3 /\ Len(y) = 2 /\ Len(z) = 4
    BY <1>4, <1>5
  <2>3. Header(m) = x \o y \o z
    BY DEF Header
  <2> HIDE DEF x, y, z
  <2>4. x \o y \o z \in Seq(Byte) /\ Len(x \o y \o z) = Len(x) + Len(y) + Len(z)
    BY <2>1, ConcatThree
  <2> QED BY <2>2, <2>3, <2>4 DEF OffsetData
<1> QED BY <1>6, ElementOfSeq

\* The first packet of a message that may be composed is PacketSize bytes.
LEMMA FirstPacketType ==
  ASSUME NEW m \in Messages, NEW junk \in JunkBytes
  PROVE  FirstPacket(m, junk) \in [1..PacketSize -> Byte]
<1>1. m.protobuf_data \in Seq(Byte) /\ junk \in Byte
  BY MessageType, ComposerAssumption
<1>2. \A i \in 1..Len(m.protobuf_data) : m.protobuf_data[i] \in Byte
  BY <1>1
<1>3. ASSUME NEW i \in 1..PacketSize
      PROVE  (IF i <= OffsetData THEN Header(m)[i]
              ELSE IF i - OffsetData <= Len(m.protobuf_data)
                   THEN m.protobuf_data[i - OffsetData]
                   ELSE junk) \in Byte
  <2>1. CASE i <= OffsetData
    BY <2>1, HeaderType DEF OffsetData
  <2>2. CASE i > OffsetData /\ i - OffsetData <= Len(m.protobuf_data)
    <3>1. i - OffsetData \in 1..Len(m.protobuf_data)
      BY <1>1, <2>2 DEF OffsetData
    <3> QED BY <1>2, <2>2, <3>1 DEF OffsetData
  <2>3. CASE i > OffsetData /\ ~(i - OffsetData <= Len(m.protobuf_data))
    BY <1>1, <2>3 DEF OffsetData
  <2> QED BY <2>1, <2>2, <2>3 DEF OffsetData
<1> QED BY <1>3 DEF FirstPacket

----------------------------------------------------------------------------
\* The bytes the loop counts as processed are in the packets: NothingLeftOut, of every
\* moment of the loop.
Carried ==
  message_composed_pack # <<>> =>
    \A b \in 1..BytesComposed :
      \E k \in DOMAIN message_composed_pack : \E j \in DataIn(k) : Position(k, j) = b

\* The loop ends when it has counted the whole message.
CountedAll ==
  pc = "idle" /\ message_composed_pack # <<>> =>
    BytesComposed >= Len(parsed.protobuf_data)

\* What a step keeps.  The properties speak of every packet composed so far, so
\* they need no more than the loop having its first packet.
IInv ==
  /\ TypeOK
  /\ PackCarriesData
  /\ NoEmptyPacket
  /\ Carried
  /\ CountedAll
  /\ PaddingIsZero
  /\ pc = "loop" => message_composed_pack # <<>>

\* The new composer, with nothing composed.
LEMMA InitInv == Init => IInv
<1> SUFFICES ASSUME Init PROVE IInv
  OBVIOUS
<1>1. parsed \in Message
  BY EmptySeq DEF Init, EmptyMessage, Message
<1>2. TypeOK
  <2>1. message_composed_pack \in Seq([1..PacketSize -> Byte])
    BY EmptySeq DEF Init
  <2>2. allocated \in BOOLEAN /\ ret \in BOOLEAN
    BY DEF Init
  <2>3. pc \in {"idle", "loop", "crashed"} /\ calls \in 0..MaxCalls
    BY ComposerAssumption DEF Init
  <2> QED BY <1>1, <2>1, <2>2, <2>3 DEF TypeOK
<1> QED
  BY <1>2 DEF Init, IInv, PackCarriesData, NoEmptyPacket, Carried, CountedAll,
     PaddingIsZero

\* The first packet of a message that replaces the pack.
LEMMA BeginInv ==
  ASSUME IInv, NEW m \in Messages, Begin(m)
  PROVE  IInv'
<1>1. PICK junk \in JunkBytes : message_composed_pack' = <<FirstPacket(m, junk)>>
  BY DEF Begin
<1> DEFINE p == FirstPacket(m, junk)
<1>2. p \in [1..PacketSize -> Byte]
  BY FirstPacketType
<1>3. m.protobuf_data \in Seq(Byte) /\ m.id \in Nat /\ m.size \in Nat
  BY MessageType
<1>4. TypeOK'
  <2>1. message_composed_pack' \in Seq([1..PacketSize -> Byte])
    BY <1>1, <1>2
  <2>2. parsed' \in Message
    BY ComposerAssumption DEF Begin
  <2> QED
    BY <2>1, <2>2, ComposerAssumption DEF IInv, TypeOK, Begin
<1>5. PackCarriesData'
  <2> SUFFICES ASSUME NEW j \in 1..DataFirst, j <= Len(m.protobuf_data)
               PROVE  p[j + OffsetData] = m.protobuf_data[j]
    BY <1>1 DEF Begin, PackCarriesData, DataIn, Position, DataByte
  <2>1. PICK i \in 1..PacketSize : i = j + OffsetData
    BY Sizes, PacketAssumption DEF OffsetData
  <2>2. ~(i <= OffsetData) /\ i - OffsetData = j
    BY <2>1, Sizes DEF OffsetData
  <2>3. p[i] = m.protobuf_data[i - OffsetData]
    BY <2>2 DEF FirstPacket
  <2> QED
    BY <2>1, <2>2, <2>3
<1>6. /\ NoEmptyPacket' /\ CountedAll' /\ PaddingIsZero'
      /\ message_composed_pack' # <<>>
  BY <1>1 DEF Begin, NoEmptyPacket, CountedAll, PaddingIsZero
<1>7. Carried'
  <2>1. BytesComposed' = DataFirst
    BY <1>1, Sizes DEF BytesComposed
  <2>2. 1 \in DOMAIN message_composed_pack'
    BY <1>1
  <2>3. DataIn(1) = 1..DataFirst /\ \A j : Position(1, j) = j
    BY DEF DataIn, Position
  <2> QED BY <2>1, <2>2, <2>3 DEF Carried, DataIn, Position
<1> QED BY <1>4, <1>5, <1>6, <1>7 DEF IInv

\* With a packet more, the count is DataSubseq more.
LEMMA NextCount ==
  ASSUME Len(message_composed_pack) \in Nat \ {0},
         Len(message_composed_pack') = Len(message_composed_pack) + 1
  PROVE  BytesComposed' = BytesComposed + DataSubseq
<1> DEFINE n == Len(message_composed_pack)
<1>1. n \in Nat \ {0} /\ Len(message_composed_pack') = n + 1
  OBVIOUS
<1>2. /\ BytesComposed = DataFirst + (n - 1) * DataSubseq
      /\ BytesComposed' = DataFirst + ((n + 1) - 1) * DataSubseq
  BY <1>1 DEF BytesComposed
<1> HIDE DEF n
<1>3. n * DataSubseq = (n - 1) * DataSubseq + DataSubseq /\ (n + 1) - 1 = n
  BY <1>1, Sizes
<1>4. (n - 1) * DataSubseq \in Nat
  BY <1>1, Sizes
<1> QED BY <1>2, <1>3, <1>4, Sizes

\* One packet more.
LEMMA ComposeNextInv ==
  ASSUME IInv, ComposeNext
  PROVE  IInv'
<1> DEFINE n == Len(message_composed_pack)
           d == parsed.protobuf_data
           p == SubsequentialPacket
<1>1. /\ n \in Nat \ {0}
      /\ d \in Seq(Byte) /\ Len(d) \in Nat
      /\ \A i \in 1..Len(d) : d[i] \in Byte
  BY DEF IInv, TypeOK, ComposeNext, Message
<1>2. BytesComposed \in Nat /\ BytesComposed < Len(d)
  BY <1>1, Sizes DEF BytesComposed, ComposeNext
<1>3. p \in [1..PacketSize -> Byte]
  <2>1. HeaderMagic[1] \in Byte /\ 0 \in Byte
    BY DEF HeaderMagic, Byte
  <2>2. ASSUME NEW i \in 1..PacketSize, i # 1, BytesComposed + i - 1 <= Len(d)
        PROVE  d[BytesComposed + i - 1] \in Byte
    BY <1>1, <1>2, <2>2, PacketAssumption
  <2> QED
    BY <2>1, <2>2, Zenon DEF SubsequentialPacket
<1>4. /\ Len(message_composed_pack') = n + 1
      /\ message_composed_pack' \in Seq([1..PacketSize -> Byte])
      /\ DOMAIN message_composed_pack' = 1..(n + 1)
      /\ \A k \in 1..n : message_composed_pack'[k] = message_composed_pack[k]
      /\ message_composed_pack'[n + 1] = p
  BY <1>1, <1>3, AppendProperties DEF IInv, TypeOK, ComposeNext
<1>5. DOMAIN message_composed_pack = 1..n
  BY DEF IInv, TypeOK
<1>6. \A j : Position(n + 1, j) = BytesComposed + j
  BY <1>1 DEF Position, BytesComposed
<1>7. TypeOK'
  BY <1>4 DEF IInv, TypeOK, ComposeNext
<1>8. PackCarriesData'
  <2> SUFFICES ASSUME NEW k \in 1..(n + 1), NEW j \in DataIn(k), Position(k, j) <= Len(d)
               PROVE  DataByte(k, j)' = d[Position(k, j)]
    BY <1>4 DEF PackCarriesData, ComposeNext, DataIn, Position
  <2>1. CASE k \in 1..n
    BY <1>4, <1>5, <2>1 DEF IInv, PackCarriesData, DataByte
  <2>2. CASE k = n + 1
    <3>1. j \in 1..DataSubseq /\ k # 1
      BY <1>1, <2>2 DEF DataIn
    <3>2. /\ j + 1 \in 1..PacketSize /\ j + 1 # 1
          /\ BytesComposed + (j + 1) - 1 = BytesComposed + j
      BY <1>2, <3>1, Sizes, PacketAssumption
    <3>3. BytesComposed + j <= Len(d)
      BY <1>6, <2>2
    <3>4. p[j + 1] = d[BytesComposed + j]
      BY <3>2, <3>3 DEF SubsequentialPacket
    <3> QED
      BY <1>4, <1>6, <2>2, <3>1, <3>4 DEF DataByte
  <2> QED BY <2>1, <2>2
<1>9. NoEmptyPacket'
  <2> SUFFICES ASSUME NEW k \in 1..(n + 1), k > 1
               PROVE  Position(k, 1) <= Len(d)
    BY <1>4 DEF NoEmptyPacket, ComposeNext, Position
  <2>1. CASE k \in 1..n
    BY <1>5, <2>1 DEF IInv, NoEmptyPacket
  <2>2. CASE k = n + 1
    BY <1>1, <1>2, <1>6, <2>2
  <2> QED BY <2>1, <2>2
<1>10. CountedAll' /\ message_composed_pack' # <<>>
  BY <1>1, <1>4 DEF CountedAll, ComposeNext
<1>12. Carried'
  <2>1. BytesComposed' = BytesComposed + DataSubseq
    BY <1>1, <1>4, NextCount
  <2> SUFFICES ASSUME NEW b \in 1..(BytesComposed + DataSubseq)
               PROVE  \E k \in 1..(n + 1) : \E j \in DataIn(k) : Position(k, j) = b
    BY <1>4, <2>1 DEF Carried, DataIn, Position
  <2>2. CASE b <= BytesComposed
    <3>1. b \in 1..BytesComposed
      BY <1>2, <2>2, Sizes
    <3>2. PICK k \in 1..n : \E j \in DataIn(k) : Position(k, j) = b
      BY <1>1, <1>5, <3>1 DEF IInv, Carried
    <3>3. k \in 1..(n + 1)
      BY <1>1
    <3> QED BY <3>2, <3>3
  <2>3. CASE b > BytesComposed
    <3>1. b - BytesComposed \in 1..DataSubseq /\ BytesComposed + (b - BytesComposed) = b
      BY <1>2, <2>3, Sizes
    <3>2. n + 1 \in 1..(n + 1) /\ n + 1 # 1
      BY <1>1
    <3>3. b - BytesComposed \in DataIn(n + 1)
      BY <3>1, <3>2 DEF DataIn
    <3> QED BY <1>6, <3>1, <3>2, <3>3
  <2> QED BY <1>2, <2>2, <2>3, Sizes
<1>11. PaddingIsZero'
  <2> SUFFICES ASSUME NEW k \in 1..(n + 1), NEW j \in DataIn(k),
                      k > 1, Position(k, j) > Len(d)
               PROVE  DataByte(k, j)' = 0
    BY <1>4 DEF PaddingIsZero, ComposeNext, DataIn, Position
  <2>1. CASE k \in 1..n
    BY <1>4, <1>5, <2>1 DEF IInv, PaddingIsZero, DataByte
  <2>2. CASE k = n + 1
    <3>1. j \in 1..DataSubseq /\ k # 1
      BY <1>1, <2>2 DEF DataIn
    <3>2. /\ j + 1 \in 1..PacketSize /\ j + 1 # 1
          /\ BytesComposed + (j + 1) - 1 = BytesComposed + j
      BY <1>2, <3>1, Sizes, PacketAssumption
    <3>3. BytesComposed + j > Len(d)
      BY <1>6, <2>2
    <3>4. p[j + 1] = 0
      BY <1>1, <1>2, <3>1, <3>2, <3>3 DEF SubsequentialPacket
    <3> QED
      BY <1>4, <2>2, <3>1, <3>4 DEF DataByte
  <2> QED BY <2>1, <2>2
<1> QED BY <1>7, <1>8, <1>9, <1>10, <1>11, <1>12 DEF IInv

\* Every step of a call keeps them all.
LEMMA NextInv == IInv /\ [Next]_vars => IInv'
<1> SUFFICES ASSUME IInv, [Next]_vars PROVE IInv'
  OBVIOUS
<1> USE DEF IInv, TypeOK, PackCarriesData, DataByte, NoEmptyPacket, Carried,
            CountedAll, PaddingIsZero, BytesComposed
<1>1. CASE Reject
  <2>1. calls' \in 0..MaxCalls
    BY <1>1, ComposerAssumption DEF Reject
  <2> QED BY <1>1, <2>1 DEF Reject
<1>2. CASE \E m \in Messages : Begin(m)
  BY <1>2, BeginInv
<1>3. CASE Crash
  <2>1. PICK m \in Messages : parsed' = m
    BY <1>3 DEF Crash
  <2>2. parsed' \in Message
    BY <2>1, ComposerAssumption
  <2> QED
    BY <1>3, <2>2, EmptySeq, ComposerAssumption DEF Crash
<1>4. CASE ComposeNext
  BY <1>4, ComposeNextInv
<1>5. CASE Finish
  BY <1>5 DEF Finish
<1>6. CASE UNCHANGED vars
  BY <1>6 DEF vars
<1> QED BY <1>1, <1>2, <1>3, <1>4, <1>5, <1>6 DEF Next

\* Whatever the size of the packets and of the message, every packet composed
\* carries the bytes of the message that belong at its place.
THEOREM ComposerCarries == Spec => []PackCarriesData
<1>1. IInv => PackCarriesData
  BY DEF IInv
<1> QED BY InitInv, NextInv, <1>1, PTL DEF Spec

\* A finished call has put every byte of the message into its packets, whatever the
\* size of either.
THEOREM ComposerExact == Spec => []NothingLeftOut
<1>1. IInv => NothingLeftOut
  <2> SUFFICES ASSUME IInv, pc = "idle", message_composed_pack # <<>>,
                      NEW b \in DOMAIN parsed.protobuf_data
               PROVE  \E k \in DOMAIN message_composed_pack : \E j \in DataIn(k) :
                        Position(k, j) = b /\ DataByte(k, j) = parsed.protobuf_data[b]
    BY DEF NothingLeftOut
  <2>1. /\ b \in Nat /\ b >= 1 /\ b <= Len(parsed.protobuf_data)
        /\ Len(parsed.protobuf_data) \in Nat
    BY DEF IInv, TypeOK, Message
  <2>2. BytesComposed >= Len(parsed.protobuf_data)
    BY DEF IInv, CountedAll
  <2>3. BytesComposed \in Int
    <3>1. Len(message_composed_pack) \in Nat
      BY DEF IInv, TypeOK
    <3> QED BY <3>1, Sizes DEF BytesComposed
  <2>4. b \in 1..BytesComposed
    BY <2>1, <2>2, <2>3
  <2>5. PICK k \in DOMAIN message_composed_pack :
          \E j \in DataIn(k) : Position(k, j) = b
    BY <2>4 DEF IInv, Carried
  <2>6. PICK j \in DataIn(k) : Position(k, j) = b
    BY <2>5
  <2>7. DataByte(k, j) = parsed.protobuf_data[b]
    BY <2>1, <2>6 DEF IInv, PackCarriesData
  <2> QED BY <2>6, <2>7
<1> QED BY InitInv, NextInv, <1>1, PTL DEF Spec

\* No call, finished or not, has composed a packet beyond the message.
THEOREM ComposerFrugal == Spec => []NoEmptyPacket
<1>1. IInv => NoEmptyPacket
  BY DEF IInv
<1> QED BY InitInv, NextInv, <1>1, PTL DEF Spec

\* Behind the first packet nothing but zeroes follows the message.
THEOREM ComposerPads == Spec => []PaddingIsZero
<1>1. IInv => PaddingIsZero
  BY DEF IInv
<1> QED BY InitInv, NextInv, <1>1, PTL DEF Spec

\* Every variable keeps its type, the bytes of the header included.
THEOREM ComposerTypes == Spec => []TypeOK
<1>1. IInv => TypeOK
  BY DEF IInv
<1> QED BY InitInv, NextInv, <1>1, PTL DEF Spec

\* A packet more is one more.
LEMMA LenAppended ==
  ASSUME IInv, ComposeNext
  PROVE  Len(message_composed_pack') = Len(message_composed_pack) + 1
<1>1. message_composed_pack \in Seq([1..PacketSize -> Byte])
  BY DEF IInv, TypeOK
<1> HIDE DEF SubsequentialPacket
<1> QED BY <1>1 DEF ComposeNext

\* A turn of the loop ends it when every byte is composed, and composes a packet's worth
\* of a message that does not change otherwise.
Advances ==
  pc = "loop" =>
    \/ pc' = "idle" /\ BytesComposed >= Len(parsed.protobuf_data)
    \/ /\ pc' = "loop" /\ parsed' = parsed
       /\ BytesComposed < Len(parsed.protobuf_data)
       /\ BytesComposed' = BytesComposed + DataSubseq

\* The measure behind Terminates: at every step of the loop, of a message of whatever
\* length, what is left gets smaller by DataSubseq > 0 (Sizes) or the loop ends.
THEOREM LoopAdvances == Spec => [][Advances]_vars
<1>1. ASSUME IInv, Next PROVE Advances
  <2>1. CASE pc # "loop"
    BY <2>1 DEF Advances
  <2>2. CASE ComposeNext
    <3> DEFINE n == Len(message_composed_pack)
    <3>1. /\ n \in Nat /\ n > 0 /\ pc = "loop" /\ UNCHANGED <<parsed, pc>>
          /\ BytesComposed < Len(parsed.protobuf_data)
      BY <1>1, <2>2 DEF IInv, TypeOK, ComposeNext
    <3>2. Len(message_composed_pack') = n + 1
      BY <1>1, <2>2, LenAppended
    <3> HIDE DEF n
    <3>3. BytesComposed' = BytesComposed + DataSubseq
      BY <3>1, <3>2, NextCount DEF n
    <3> QED BY <3>1, <3>3 DEF Advances
  <2>3. CASE Finish
    BY <2>3 DEF Finish, Advances
  <2>4. pc = "loop" => ComposeNext \/ Finish
    BY <1>1 DEF Next, Reject, Begin, Crash
  <2> QED BY <2>1, <2>2, <2>3, <2>4
<1>2. IInv /\ [Next]_vars => [Advances]_vars
  BY <1>1
<1> QED BY InitInv, NextInv, <1>2, PTL DEF Spec

----------------------------------------------------------------------------
(* The composer, the wire and the parser. *)

Packet == [1..PacketSize -> Byte]

----------------------------------------------------------------------------
(* The header. *)

\* Three sequences put together, as the header is: where the first and the last are.
LEMMA ThreeParts ==
  ASSUME NEW S, NEW x \in Seq(S), NEW y \in Seq(S), NEW z \in Seq(S)
  PROVE  /\ \A i \in 1..Len(x) : (x \o y \o z)[i] = x[i]
         /\ \A i \in 1..Len(z) : (x \o y \o z)[Len(x) + Len(y) + i] = z[i]
<1> DEFINE xy == x \o y
<1>1. xy \in Seq(S) /\ Len(xy) = Len(x) + Len(y) /\ \A i \in 1..Len(x) : xy[i] = x[i]
  OBVIOUS
<1> HIDE DEF xy
<1>2. \A i \in 1..Len(xy) : (xy \o z)[i] = xy[i]
  BY <1>1
<1>3. \A i \in 1..Len(z) : (xy \o z)[Len(xy) + i] = z[i]
  BY <1>1
<1>4. \A i \in 1..Len(x) : i \in 1..Len(xy)
  BY <1>1
<1> QED BY <1>1, <1>2, <1>3, <1>4 DEF xy

\* The composer writes "?##" first and the size last.
LEMMA HeaderBytes ==
  ASSUME NEW m \in Message
  PROVE  /\ \A i \in 1..3 : Header(m)[i] = HeaderMagic[i]
         /\ \A i \in 1..4 : Header(m)[OffsetLen + i] = BigEndian32(m.size)[i]
<1> DEFINE x == HeaderMagic
           y == BigEndian16(m.id)
           z == BigEndian32(m.size)
           N == Nat
<1>1. m.id \in Nat /\ m.size \in Nat
  BY DEF Message
<1>2. x \in Seq(N) /\ y \in Seq(N) /\ z \in Seq(N)
  BY <1>1, SMT DEF HeaderMagic, BigEndian16, BigEndian32
<1>3. Len(x) = 3 /\ Len(y) = 2 /\ Len(z) = 4
  BY DEF HeaderMagic, BigEndian16, BigEndian32
<1>4. Header(m) = x \o y \o z
  BY DEF Header
<1> HIDE DEF x, y, z, N
<1>5. /\ \A i \in 1..Len(x) : (x \o y \o z)[i] = x[i]
      /\ \A i \in 1..Len(z) : (x \o y \o z)[Len(x) + Len(y) + i] = z[i]
  BY <1>2, ThreeParts
<1>6. Len(x) + Len(y) = 5
  BY <1>3
<1>7. /\ \A i \in 1..3 : Header(m)[i] = x[i]
      /\ \A i \in 1..4 : Header(m)[5 + i] = z[i]
  BY <1>3, <1>4, <1>5, <1>6, Zenon
<1> QED BY <1>7, Zenon DEF OffsetLen, x, z

\* Read in either order, four bytes are zero together.
LEMMA ZeroEitherWay ==
  ASSUME NEW n \in Nat, NEW p, \A i \in 1..4 : p[OffsetLen + i] = BigEndian32(n)[i],
         LittleEndian32(p, OffsetLen) = 0
  PROVE  n = 0
<1> DEFINE a == n \div 16777216
           b == (n \div 65536) % 256
           c == (n \div 256) % 256
           d == n % 256
<1>1. p[6] = a /\ p[7] = b /\ p[8] = c /\ p[9] = d
  BY DEF OffsetLen, BigEndian32
<1>2. a \in Nat /\ b \in Nat /\ c \in Nat /\ d \in Nat
  BY SMT
<1>3. p[6] + 256 * p[7] + 65536 * p[8] + 16777216 * p[9] = 0
  BY DEF LittleEndian32, OffsetLen
<1>4. a = 0 /\ b = 0 /\ c = 0 /\ d = 0
  <2> HIDE DEF a, b, c, d
  <2> QED BY <1>1, <1>2, <1>3
<1> QED BY <1>4, SMT

\* The size read is a number.
LEMMA SizeIsNumber ==
  ASSUME NEW p, \A i \in 1..9 : p[i] \in Nat
  PROVE  LittleEndian32(p, OffsetLen) \in Nat
<1>1. p[6] \in Nat /\ p[7] \in Nat /\ p[8] \in Nat /\ p[9] \in Nat
  OBVIOUS
<1> QED BY <1>1, SMT DEF LittleEndian32, OffsetLen

SixteenMB == 16777216

\* Read the other way round, a size that fits into three bytes is at least 256: its
\* first byte is 0, and one of the others is not.
LEMMA ReadLarge ==
  ASSUME NEW n \in Nat, n # 0, n < SixteenMB,
         NEW p, \A i \in 1..4 : p[OffsetLen + i] = BigEndian32(n)[i]
  PROVE  LittleEndian32(p, OffsetLen) >= 256
<1> DEFINE a == n \div 16777216
           b == (n \div 65536) % 256
           c == (n \div 256) % 256
           d == n % 256
<1>1. p[6] = a /\ p[7] = b /\ p[8] = c /\ p[9] = d
  BY DEF OffsetLen, BigEndian32
<1>2. a = 0 /\ b \in Nat /\ c \in Nat /\ d \in Nat
  BY SMT DEF SixteenMB
<1>3. b # 0 \/ c # 0 \/ d # 0
  BY SMT DEF SixteenMB
<1>4. LittleEndian32(p, OffsetLen) = p[6] + 256 * p[7] + 65536 * p[8] + 16777216 * p[9]
  BY SMT DEF LittleEndian32, OffsetLen
<1> HIDE DEF a, b, c, d
<1>5. LittleEndian32(p, OffsetLen) = a + 256 * b + 65536 * c + 16777216 * d
  BY <1>1, <1>4, SMT
<1>6. a + 256 * b + 65536 * c + 16777216 * d >= 256
  BY <1>2, <1>3, SMT
<1> QED BY <1>5, <1>6, SMT

\* What the composer has put into the packets, apart from the data.
Headed ==
  /\ message_composed_pack # <<>> =>
       /\ parsed.size = Len(parsed.protobuf_data)
       /\ \A i \in 1..OffsetData : message_composed_pack[1][i] = Header(parsed)[i]
  /\ \A k \in 2..Len(message_composed_pack) : message_composed_pack[k][1] = HeaderMagic[1]

LEMMA NextHeaded == IInv /\ Headed /\ [Next]_vars => Headed'
<1> SUFFICES ASSUME IInv, Headed, [Next]_vars PROVE Headed'
  OBVIOUS
<1>1. CASE UNCHANGED <<message_composed_pack, parsed>>
  BY <1>1 DEF Headed
<1>2. ASSUME NEW m \in Messages, Begin(m) PROVE Headed'
  <2>1. PICK junk \in JunkBytes : message_composed_pack' = <<FirstPacket(m, junk)>>
    BY <1>2 DEF Begin
  <2>2. \A i \in 1..OffsetData : FirstPacket(m, junk)[i] = Header(m)[i]
    <3>1. \A i \in 1..OffsetData : i \in 1..PacketSize /\ i <= OffsetData
      BY PacketAssumption DEF OffsetData
    <3> QED BY <3>1 DEF FirstPacket
  <2>3. parsed' = m /\ m.size = Len(m.protobuf_data)
    BY <1>2 DEF Begin
  <2> HIDE DEF FirstPacket
  <2> QED BY <2>1, <2>2, <2>3 DEF Headed
<1>3. CASE Crash
  BY <1>3 DEF Crash, Headed
<1>4. CASE ComposeNext
  <2> DEFINE n == Len(message_composed_pack)
             p == SubsequentialPacket
  <2>1. n \in Nat \ {0} /\ message_composed_pack \in Seq(Packet)
    BY <1>4 DEF IInv, TypeOK, ComposeNext, Packet
  <2>2. p[1] = HeaderMagic[1]
    BY PacketAssumption DEF SubsequentialPacket, OffsetData
  <2>3. /\ Len(message_composed_pack') = n + 1
        /\ \A k \in 1..n : message_composed_pack'[k] = message_composed_pack[k]
        /\ message_composed_pack'[n + 1] = p
    BY <1>4, <2>1 DEF ComposeNext
  <2>4. parsed' = parsed
    BY <1>4 DEF ComposeNext
  <2>5. message_composed_pack # <<>> /\ 1 \in 1..n
    BY <2>1
  <2> HIDE DEF p, n
  <2>6. \A k \in 2..(n + 1) : k = n + 1 \/ (k \in 2..n /\ k \in 1..n)
    BY <2>1
  <2> QED BY <2>1, <2>2, <2>3, <2>4, <2>5, <2>6 DEF Headed, n
<1>5. CASE Reject \/ Finish \/ UNCHANGED vars
  BY <1>1, <1>5 DEF Reject, Finish, vars
<1> QED BY <1>2, <1>3, <1>4, <1>5 DEF Next

----------------------------------------------------------------------------
(* One packet, at the other end. *)

\* A whole packet has bytes wherever the parser looks.
LEMMA WholePacket ==
  ASSUME NEW raw \in Packet
  PROVE  /\ raw \in Seq(Byte) /\ Len(raw) = PacketSize
         /\ \A i \in 1..9 : raw[i] \in Byte /\ raw[i] \in Nat
         /\ \A junk : \A i \in 1..9 : P!Seen(raw, junk)[i] = raw[i]
<1>1. raw \in Seq(Byte) /\ Len(raw) = PacketSize
  BY PacketAssumption DEF Packet
<1>2. \A i \in 1..9 : i \in 1..PacketSize
  BY PacketAssumption DEF OffsetData
<1>3. \A i \in 1..9 : raw[i] \in Byte
  BY <1>2 DEF Packet
<1>4. \A i \in 1..9 : raw[i] \in Nat
  <2>1. Byte \subseteq Nat
    BY DEF Byte
  <2> QED BY <1>3, <2>1
<1>5. ASSUME NEW junk, NEW i \in 1..9 PROVE P!Seen(raw, junk)[i] = raw[i]
  <2>1. i <= Len(raw)
    BY <1>1, <1>2
  <2> QED BY <2>1 DEF P!Seen, P!OffsetData
<1> QED BY <1>1, <1>3, <1>4, <1>5

\* A packet that begins with "?##".
LEMMA ReceiveFirst ==
  ASSUME NEW raw \in Packet, NEW junk, P!Parse(raw, junk),
         \A i \in 1..3 : raw[i] = HeaderMagic[i],
         LittleEndian32(raw, OffsetLen) # 0
  PROVE  /\ parser_pack' = <<raw>>
         /\ parser_parsed' \in Message
         /\ parser_parsed'.size = LittleEndian32(raw, OffsetLen)
         /\ parser_parsed'.protobuf_data = SubSeq(raw, OffsetData + 1, PacketSize)
<1> DEFINE seen == P!Seen(raw, junk)
           id == P!LittleEndian16(seen, P!OffsetId)
           size == P!LittleEndian32(seen, P!OffsetLen)
           data == SubSeq(raw, OffsetData + 1, PacketSize)
<1>1. \A i \in 1..9 : seen[i] = raw[i] /\ raw[i] \in Nat
  BY WholePacket
<1>2. P!StartsMessage(raw, junk)
  <2>1. \A i \in 1..3 : i \in 1..9
    OBVIOUS
  <2>2. \A i \in 1..3 : seen[i] = HeaderMagic[i]
    BY <1>1, <2>1
  <2> QED BY <2>2 DEF P!StartsMessage, P!HeaderMagic, HeaderMagic
<1>3. P!ParseFirst(raw, junk)
  BY <1>2 DEF P!Parse, P!ParseSubsequential, P!WrongHeader, P!Throw
<1> HIDE DEF seen
<1>4. size = LittleEndian32(raw, OffsetLen) /\ size \in Nat
  BY <1>1 DEF P!LittleEndian32, P!OffsetLen, LittleEndian32, OffsetLen
<1>5. id \in Nat
  BY <1>1 DEF P!LittleEndian16, P!OffsetId
<1>6. data \in Seq(Byte)
  BY WholePacket, PacketAssumption DEF OffsetData
<1>7. parser_pack' = <<raw>>
  BY <1>3 DEF P!ParseFirst
<1>8. parser_parsed' = [id |-> id, size |-> size, protobuf_data |-> data]
  <2>1. parser_parsed' = [id |-> id, size |-> size,
          protobuf_data |-> IF size = 0 THEN <<>> ELSE SubSeq(raw, OffsetData + 1, Len(raw))]
    BY <1>3 DEF P!ParseFirst, P!OffsetData, OffsetData, seen
  <2>2. Len(raw) = PacketSize
    BY WholePacket
  <2> QED BY <1>4, <2>1, <2>2
<1> HIDE DEF id, size, data
<1>9. parser_parsed' \in Message
  BY <1>4, <1>5, <1>6, <1>8 DEF Message
<1> QED BY <1>4, <1>7, <1>8, <1>9 DEF data

\* A packet that begins with "?", not with "?##", and has room.
LEMMA ReceiveNext ==
  ASSUME NEW raw \in Packet, NEW junk, P!Parse(raw, junk), parser_parsed \in Message,
         raw[1] = HeaderMagic[1], ~P!StartsMessage(raw, 0),
         2 * DataSubseq <= parser_parsed.size
  PROVE  /\ parser_pack' = Append(parser_pack, raw)
         /\ parser_parsed' \in Message
         /\ parser_parsed'.size = parser_parsed.size
         /\ parser_parsed'.protobuf_data = parser_parsed.protobuf_data \o Tail(raw)
<1>1. raw \in Seq(Byte) /\ Len(raw) = PacketSize /\ PacketSize \in Nat /\ PacketSize > 0
  BY WholePacket, PacketAssumption DEF OffsetData
<1>2. ~P!StartsMessage(raw, junk)
  <2>1. \A i \in 1..3 : P!Seen(raw, junk)[i] = P!Seen(raw, 0)[i]
    <3>1. \A i \in 1..3 : i \in 1..9
      OBVIOUS
    <3> QED BY <3>1, WholePacket
  <2>2. Len(P!HeaderMagic) = 3
    BY DEF P!HeaderMagic
  <2> QED BY <2>1, <2>2 DEF P!StartsMessage
<1>3. P!FitsInformedSize(raw)
  <2>1. Len(raw) - 1 = DataSubseq
    BY <1>1 DEF DataSubseq
  <2>2. DataSubseq \in Nat /\ parser_parsed.size \in Nat
    BY <1>1 DEF DataSubseq, Message
  <2>3. P!DataSubseq = DataSubseq
    BY DEF P!DataSubseq, DataSubseq
  <2> QED BY <2>1, <2>2, <2>3 DEF P!FitsInformedSize
<1>4. P!ParseSubsequential(raw, junk)
  BY <1>1, <1>2, <1>3
     DEF P!Parse, P!ParseFirst, P!WrongHeader, P!Throw, P!HeaderMagic, HeaderMagic
<1>5. /\ parser_pack' = Append(parser_pack, raw)
      /\ parser_parsed' =
           [parser_parsed EXCEPT !.protobuf_data = parser_parsed.protobuf_data \o Tail(raw)]
  BY <1>4 DEF P!ParseSubsequential
<1>6. parser_parsed.protobuf_data \o Tail(raw) \in Seq(Byte)
  <2>1. Tail(raw) \in Seq(Byte) /\ parser_parsed.protobuf_data \in Seq(Byte)
    BY <1>1 DEF Message
  <2> QED BY <2>1
<1> QED BY <1>5, <1>6 DEF Message

----------------------------------------------------------------------------
(* The first k packets of the pack are across. *)

\* What the parser keeps of them: the packets, the size, and data that runs along
\* the message for as long as there is any.
Taken(pack, p, k) ==
  /\ p \in Message
  /\ pack = SubSeq(message_composed_pack, 1, k)
  /\ p.size = SizeRead
  /\ Len(p.protobuf_data) = DataFirst + (k - 1) * DataSubseq
  /\ \A i \in 1..Len(p.protobuf_data) :
       i <= Len(parsed.protobuf_data) => p.protobuf_data[i] = parsed.protobuf_data[i]

\* The wire holds the rest of them.
InTransit(w, pack, p) ==
  \E k \in 0..Len(message_composed_pack) :
    /\ w = SubSeq(message_composed_pack, k + 1, Len(message_composed_pack))
    /\ k > 0 => Taken(pack, p, k)

\* The conjunction that is inductive.  Between two messages nothing is on the wire,
\* and the message on it is the one the composer still holds.
CodecInv ==
  /\ IInv
  /\ Headed
  /\ pc = "loop" => wire = <<>> /\ tx # calls
  /\ pc = "idle" /\ tx = calls /\ message_composed_pack # <<>> /\ parsed.size > 0 /\ Recognised
       => InTransit(wire, parser_pack, parser_parsed)

\* The pack of a composer, packet by packet.
LEMMA PackTypes ==
  ASSUME IInv
  PROVE  /\ message_composed_pack \in Seq(Packet) /\ Len(message_composed_pack) \in Nat
         /\ \A k \in 1..Len(message_composed_pack) : message_composed_pack[k] \in Packet
         /\ parsed \in Message /\ parsed.protobuf_data \in Seq(Byte)
         /\ Len(parsed.protobuf_data) \in Nat /\ parsed.size \in Nat
BY DEF IInv, TypeOK, Packet, Message

\* A message that is not empty is not read as one that is.
LEMMA SizeIsRead ==
  ASSUME IInv, Headed, message_composed_pack # <<>>, parsed.size > 0
  PROVE  SizeRead # 0 /\ \A i \in 1..3 : message_composed_pack[1][i] = HeaderMagic[i]
<1> DEFINE p == message_composed_pack[1]
<1>1. parsed \in Message /\ parsed.size \in Nat
  BY PackTypes
<1>2. \A i \in 1..9 : p[i] = Header(parsed)[i]
  BY DEF Headed, OffsetData
<1> HIDE DEF p
<1>3. \A i \in 1..4 : p[OffsetLen + i] = BigEndian32(parsed.size)[i]
  <2>1. \A i \in 1..4 : OffsetLen + i \in 1..9
    BY DEF OffsetLen
  <2> QED BY <1>1, <1>2, <2>1, HeaderBytes, Zenon
<1>4. LittleEndian32(p, OffsetLen) # 0
  BY <1>1, <1>3, ZeroEitherWay
<1>5. \A i \in 1..3 : p[i] = HeaderMagic[i]
  <2>1. \A i \in 1..3 : i \in 1..9
    OBVIOUS
  <2> QED BY <1>1, <1>2, <2>1, HeaderBytes, Zenon
<1> QED BY <1>4, <1>5 DEF SizeRead, p

\* The first packet arrives.
LEMMA TakeFirst ==
  ASSUME IInv, Headed, message_composed_pack # <<>>, parsed.size > 0,
         NEW junk, P!Parse(message_composed_pack[1], junk)
  PROVE  Taken(parser_pack', parser_parsed', 1)
<1> DEFINE raw == message_composed_pack[1]
           d == SubSeq(raw, OffsetData + 1, PacketSize)
<1>1. /\ raw \in Packet /\ raw \in Seq(Byte) /\ Len(raw) = PacketSize
      /\ message_composed_pack \in Seq(Packet) /\ 1 \in 1..Len(message_composed_pack)
  <2>1. message_composed_pack \in Seq(Packet) /\ 1 \in 1..Len(message_composed_pack)
    BY PackTypes
  <2> QED BY <2>1, PackTypes, WholePacket
<1>2. LittleEndian32(raw, OffsetLen) # 0 /\ \A i \in 1..3 : raw[i] = HeaderMagic[i]
  BY SizeIsRead DEF SizeRead
<1>3. /\ parser_pack' = <<raw>>
      /\ parser_parsed' \in Message
      /\ parser_parsed'.size = SizeRead
      /\ parser_parsed'.protobuf_data = d
  BY <1>1, <1>2, ReceiveFirst DEF SizeRead
<1>4. <<raw>> = SubSeq(message_composed_pack, 1, 1)
  BY <1>1
<1>5. \A j \in 1..DataFirst :
        j <= Len(parsed.protobuf_data) => raw[j + OffsetData] = parsed.protobuf_data[j]
  BY <1>1 DEF IInv, PackCarriesData, DataIn, Position, DataByte
<1> HIDE DEF raw
<1>6. Len(d) = DataFirst /\ \A j \in 1..DataFirst : d[j] = raw[j + OffsetData]
  <2>1. /\ OffsetData \in Nat /\ PacketSize \in Nat /\ DataFirst = PacketSize - OffsetData
        /\ DataFirst \in Nat
    BY PacketAssumption, Sizes DEF OffsetData, DataFirst
  <2>2. OffsetData < PacketSize
    BY PacketAssumption
  <2>3. Len(d) = (PacketSize - (OffsetData + 1)) + 1
    BY <1>1, <2>1, <2>2
  <2>4. \A j \in 1..((PacketSize - (OffsetData + 1)) + 1) : d[j] = raw[(OffsetData + 1) + j - 1]
    BY <1>1, <2>1, <2>2
  <2>5. \A j \in 1..DataFirst : (OffsetData + 1) + j - 1 = j + OffsetData
    BY <2>1
  <2>6. (PacketSize - (OffsetData + 1)) + 1 = DataFirst
    BY <2>1
  <2> QED BY <2>3, <2>4, <2>5, <2>6
<1> HIDE DEF d
<1>7. DataFirst + (1 - 1) * DataSubseq = DataFirst
  BY Sizes
<1> QED BY <1>3, <1>4, <1>5, <1>6, <1>7 DEF Taken, raw

\* Another one does.
LEMMA TakeNext ==
  ASSUME IInv, Headed, Recognised, NEW k \in Nat, k > 0, k + 1 \in 1..Len(message_composed_pack),
         Taken(parser_pack, parser_parsed, k),
         NEW junk, P!Parse(message_composed_pack[k + 1], junk)
  PROVE  Taken(parser_pack', parser_parsed', k + 1)
<1> DEFINE raw == message_composed_pack[k + 1]
           old == parser_parsed.protobuf_data
           t == Tail(raw)
           msg == parsed.protobuf_data
           d == old \o t
           n == Len(message_composed_pack)
<1>1. /\ raw \in Packet /\ raw \in Seq(Byte) /\ Len(raw) = PacketSize
      /\ message_composed_pack \in Seq(Packet) /\ n \in Nat
      /\ old \in Seq(Byte) /\ Len(old) \in Nat /\ msg \in Seq(Byte) /\ Len(msg) \in Nat
  <2>1. /\ message_composed_pack \in Seq(Packet) /\ n \in Nat
        /\ msg \in Seq(Byte) /\ Len(msg) \in Nat
    BY PackTypes
  <2>2. raw \in Packet
    BY PackTypes
  <2>3. old \in Seq(Byte)
    BY DEF Taken, Message
  <2>4. Len(old) \in Nat
    BY <2>3
  <2> QED BY <2>1, <2>2, <2>3, <2>4, WholePacket
<1>2. raw[1] = HeaderMagic[1] /\ ~P!StartsMessage(raw, 0) /\ 2 * DataSubseq <= SizeRead
  <2>1. k + 1 \in 2..n /\ n > 1
    BY <1>1
  <2> QED BY <2>1 DEF Headed, Recognised
<1>3. /\ parser_pack' = Append(parser_pack, raw)
      /\ parser_parsed' \in Message
      /\ parser_parsed'.size = SizeRead
      /\ parser_parsed'.protobuf_data = d
  BY <1>1, <1>2, ReceiveNext DEF Taken
<1>4. Append(parser_pack, raw) = SubSeq(message_composed_pack, 1, k + 1)
  <2>1. parser_pack = SubSeq(message_composed_pack, 1, k)
    BY DEF Taken
  <2> HIDE DEF raw
  <2>2. SubSeq(message_composed_pack, 1, k + 1)
          = Append(SubSeq(message_composed_pack, 1, k), message_composed_pack[k + 1])
    BY <1>1
  <2> QED BY <2>1, <2>2 DEF raw
<1>5. Len(old) = DataFirst + (k - 1) * DataSubseq
  BY DEF Taken
<1>6. \A j \in 1..DataSubseq : Len(old) + j <= Len(msg) => raw[j + 1] = msg[Len(old) + j]
  <2>1. \A j : Position(k + 1, j) = DataFirst + ((k + 1) - 2) * DataSubseq + j
    BY DEF Position
  <2>2. (k + 1) - 2 = k - 1 /\ k + 1 # 1
    OBVIOUS
  <2>3. \A j : Position(k + 1, j) = Len(old) + j
    BY <1>5, <2>1, <2>2
  <2>4. DataIn(k + 1) = 1..DataSubseq /\ \A j : DataByte(k + 1, j) = raw[j + 1]
    BY <2>2 DEF DataIn, DataByte
  <2>5. \A j \in DataIn(k + 1) : Position(k + 1, j) <= Len(msg) =>
          DataByte(k + 1, j) = msg[Position(k + 1, j)]
    BY <1>1 DEF IInv, PackCarriesData
  <2> QED BY <2>3, <2>4, <2>5
<1>7. t \in Seq(Byte) /\ Len(t) = DataSubseq /\ \A j \in 1..DataSubseq : t[j] = raw[j + 1]
  <2> HIDE DEF raw
  <2> QED BY <1>1, PacketAssumption DEF DataSubseq, OffsetData
<1> HIDE DEF raw, old, t, msg, n
<1>8. /\ Len(d) = Len(old) + Len(t)
      /\ \A i \in 1..Len(old) : d[i] = old[i]
      /\ \A j \in 1..Len(t) : d[Len(old) + j] = t[j]
  <2>1. old \in Seq(Byte) /\ t \in Seq(Byte)
    BY <1>1, <1>7
  <2> QED BY <2>1
<1> HIDE DEF d
<1>9. Len(d) = DataFirst + ((k + 1) - 1) * DataSubseq
  BY <1>5, <1>7, <1>8, Sizes
<1>10. \A i \in 1..Len(old) : i <= Len(msg) => old[i] = msg[i]
  BY DEF Taken, old, msg
<1>11. ASSUME NEW i \in 1..Len(d), i <= Len(msg) PROVE d[i] = msg[i]
  <2>1. CASE i <= Len(old)
    <3>1. i \in 1..Len(old)
      BY <1>1, <2>1
    <3>2. d[i] = old[i]
      BY <1>8, <3>1
    <3>3. old[i] = msg[i]
      BY <1>10, <1>11, <3>1
    <3> QED BY <3>2, <3>3
  <2>2. CASE ~(i <= Len(old))
    <3> DEFINE j == i - Len(old)
    <3>1. j \in 1..DataSubseq /\ Len(old) + j = i
      BY <1>1, <1>7, <1>8, <2>2, Sizes
    <3> HIDE DEF j
    <3>2. j \in 1..Len(t) /\ d[i] = t[j]
      BY <1>7, <1>8, <3>1
    <3>3. t[j] = raw[j + 1]
      BY <1>7, <3>1
    <3>4. raw[j + 1] = msg[i]
      BY <1>6, <1>11, <3>1
    <3> QED BY <3>2, <3>3, <3>4
  <2> QED BY <2>1, <2>2
<1> QED BY <1>3, <1>4, <1>9, <1>11 DEF Taken, msg

----------------------------------------------------------------------------
\* Composing touches the wire only by having to begin with an empty one.
LEMMA ComposeInv ==
  ASSUME CodecInv, IInv', Headed', Compose
  PROVE  CodecInv'
<1>1. UNCHANGED <<wire, parser_pack, parser_parsed>> /\ Next
  BY DEF Compose, parserVars
<1>2. calls \in Nat
  BY ComposerAssumption DEF CodecInv, IInv, TypeOK
<1>3. CASE Reject
  <2>1. /\ tx' = calls' /\ tx = calls /\ pc = "idle" /\ pc' = "idle"
        /\ UNCHANGED <<message_composed_pack, parsed>>
    BY <1>3 DEF Compose, Reject, Sent
  <2>2. Recognised' = Recognised
    BY <2>1 DEF Recognised, SizeRead, P!StartsMessage, P!Seen
  <2>3. InTransit(wire, parser_pack, parser_parsed)'
          = InTransit(wire, parser_pack, parser_parsed)
    BY <1>1, <2>1 DEF InTransit, Taken, SizeRead
  <2> QED BY <2>1, <2>2, <2>3 DEF CodecInv
<1>4. ASSUME NEW m \in Messages, Begin(m) PROVE CodecInv'
  <2>1. pc = "idle" /\ pc' = "loop" /\ calls' = calls + 1
    BY <1>4 DEF Begin
  <2>2. ~Reject
    BY <2>1 DEF Reject
  <2>3. wire' = <<>> /\ tx' # calls'
    BY <1>1, <1>2, <2>1, <2>2 DEF Compose, Sent
  <2> QED BY <2>1, <2>3 DEF CodecInv
<1>5. CASE Crash
  BY <1>5 DEF Crash, CodecInv
<1>6. CASE ComposeNext \/ Finish
  <2>1. pc = "loop" /\ calls' = calls
    BY <1>6 DEF ComposeNext, Finish
  <2>2. ~Reject
    BY <2>1 DEF Reject
  <2>3. wire' = <<>> /\ tx' # calls'
    BY <1>1, <2>1, <2>2 DEF Compose, CodecInv
  <2> QED BY <2>3 DEF CodecInv
<1> QED BY <1>1, <1>3, <1>4, <1>5, <1>6 DEF Next

\* The whole pack goes onto the wire.
LEMMA TransmitInv ==
  ASSUME CodecInv, IInv', Headed', Transmit
  PROVE  CodecInv'
<1>1. pc' = "idle" /\ wire' = message_composed_pack'
  BY DEF Transmit, vars
<1>2. message_composed_pack' \in Seq(Packet)
  BY DEF IInv, TypeOK, Packet
<1>3. message_composed_pack'
        = SubSeq(message_composed_pack', 0 + 1, Len(message_composed_pack'))
  BY <1>2
<1>4. 0 \in 0..Len(message_composed_pack')
  BY <1>2
<1>5. InTransit(wire, parser_pack, parser_parsed)'
  BY <1>1, <1>3, <1>4 DEF InTransit
<1> QED BY <1>1, <1>5 DEF CodecInv

\* The parser takes the first packet of the rest.
LEMMA ReceiveInv ==
  ASSUME CodecInv, IInv', Headed', Receive
  PROVE  CodecInv'
<1>1. /\ wire # <<>> /\ wire' = Tail(wire)
      /\ UNCHANGED <<message_composed_pack, parsed, pc, calls, tx>>
  BY DEF Receive, vars
<1>2. PICK junk \in JunkBytes : P!Parse(Head(wire), junk)
  BY DEF Receive
<1>3. pc # "loop"
  BY <1>1 DEF CodecInv
<1>4. Recognised' = Recognised
  BY <1>1 DEF Recognised, SizeRead, P!StartsMessage, P!Seen
<1>5. SUFFICES ASSUME pc = "idle", tx = calls, message_composed_pack # <<>>,
                      parsed.size > 0, Recognised
               PROVE  InTransit(wire', parser_pack', parser_parsed')
  <2>1. InTransit(wire, parser_pack, parser_parsed)'
          = InTransit(wire', parser_pack', parser_parsed')
    BY <1>1 DEF InTransit, Taken, SizeRead
  <2> QED BY <1>1, <1>3, <1>4, <2>1 DEF CodecInv
<1> DEFINE n == Len(message_composed_pack)
<1>6. PICK k \in 0..n :
        /\ wire = SubSeq(message_composed_pack, k + 1, n)
        /\ k > 0 => Taken(parser_pack, parser_parsed, k)
  BY <1>5 DEF CodecInv, InTransit
<1>7. message_composed_pack \in Seq(Packet) /\ n \in Nat /\ IInv /\ Headed
  BY PackTypes DEF CodecInv
<1> HIDE DEF n
<1>8. k + 1 \in 1..n
  <2>1. k = n => SubSeq(message_composed_pack, k + 1, n) = <<>>
    BY <1>7
  <2> QED BY <1>1, <1>6, <1>7, <2>1
<1>9. /\ Head(wire) = message_composed_pack[k + 1]
      /\ Tail(wire) = SubSeq(message_composed_pack, (k + 1) + 1, n)
  BY <1>6, <1>7, <1>8 DEF n
<1>10. Taken(parser_pack', parser_parsed', k + 1)
  <2>1. CASE k = 0
    BY <1>2, <1>5, <1>7, <1>9, <2>1, TakeFirst
  <2>2. CASE k > 0
    <3>1. k + 1 \in 1..Len(message_composed_pack)
      BY <1>8 DEF n
    <3>2. Taken(parser_pack, parser_parsed, k)
      BY <1>6, <2>2
    <3>3. P!Parse(message_composed_pack[k + 1], junk)
      BY <1>2, <1>9
    <3> QED BY <1>5, <1>6, <1>7, <2>2, <3>1, <3>2, <3>3, TakeNext
  <2> QED BY <2>1, <2>2
<1>11. wire' = SubSeq(message_composed_pack', (k + 1) + 1, n)
       /\ message_composed_pack' = message_composed_pack
  BY <1>1, <1>9
<1>12. k + 1 \in 0..n
  BY <1>7, <1>8
<1> QED BY <1>10, <1>11, <1>12 DEF InTransit, n

\* A new composer, an empty wire, a new parser, and every step.
LEMMA CodecInitInv == CodecInit => CodecInv
<1> SUFFICES ASSUME CodecInit PROVE CodecInv
  OBVIOUS
<1>1. Init /\ IInv
  BY InitInv DEF CodecInit
<1>2. Headed
  BY <1>1 DEF Init, Headed
<1> QED BY <1>1, <1>2 DEF Init, CodecInv

LEMMA CodecNextInv == CodecInv /\ [CodecNext]_codecVars => CodecInv'
<1> SUFFICES ASSUME CodecInv, [CodecNext]_codecVars PROVE CodecInv'
  OBVIOUS
<1>1. [Next]_vars
  BY DEF CodecNext, Compose, Transmit, Receive, codecVars
<1>2. IInv' /\ Headed'
  BY <1>1, NextInv, NextHeaded DEF CodecInv
<1>3. CASE UNCHANGED codecVars
  <2>1. UNCHANGED <<message_composed_pack, parsed, pc, calls, tx, wire, parser_pack, parser_parsed>>
    BY <1>3 DEF codecVars, vars, parserVars
  <2>2. Recognised' = Recognised
    BY <2>1 DEF Recognised, SizeRead, P!StartsMessage, P!Seen
  <2>3. InTransit(wire, parser_pack, parser_parsed)'
          = InTransit(wire, parser_pack, parser_parsed)
    BY <2>1 DEF InTransit, Taken, SizeRead
  <2> QED BY <1>2, <2>1, <2>2, <2>3 DEF CodecInv
<1> QED
  BY <1>2, <1>3, ComposeInv, TransmitInv, ReceiveInv DEF CodecNext

\* When the wire is empty again the parser has taken the whole pack, and the pack
\* carries the whole message (CountedAll).
LEMMA InvSurvives == CodecInv => DataSurvives
<1> SUFFICES ASSUME CodecInv, Across, parsed.size > 0, Recognised
             PROVE  /\ parser_pack = message_composed_pack
                    /\ SubSeq(parser_parsed.protobuf_data, 1, parsed.size) = parsed.protobuf_data
  BY DEF DataSurvives
<1> DEFINE n == Len(message_composed_pack)
           d == parser_parsed.protobuf_data
           msg == parsed.protobuf_data
<1>1. /\ pc = "idle" /\ tx = calls /\ wire = <<>> /\ message_composed_pack # <<>>
      /\ IInv /\ Headed
  BY DEF Across, Sent, CodecInv
<1>2. /\ message_composed_pack \in Seq(Packet) /\ n \in Nat /\ n > 0
      /\ msg \in Seq(Byte) /\ Len(msg) \in Nat /\ parsed.size = Len(msg)
  BY <1>1, PackTypes DEF Headed
<1>3. PICK k \in 0..n :
        /\ wire = SubSeq(message_composed_pack, k + 1, n)
        /\ k > 0 => Taken(parser_pack, parser_parsed, k)
  BY <1>1 DEF CodecInv, InTransit
<1>4. k = n
  <2>1. Len(SubSeq(message_composed_pack, k + 1, n)) = n - k
    BY <1>2
  <2>2. Len(wire) = 0
    BY <1>1
  <2>3. n - k = 0
    BY <1>3, <2>1, <2>2
  <2> HIDE DEF n
  <2> QED BY <1>2, <2>3
<1>5. Taken(parser_pack, parser_parsed, n)
  BY <1>2, <1>3, <1>4
<1>6. SubSeq(message_composed_pack, 1, n) = message_composed_pack
  BY <1>2
<1>7. d \in Seq(Byte) /\ Len(d) \in Nat /\ Len(d) >= Len(msg)
  <2>1. d \in Seq(Byte) /\ Len(d) = BytesComposed
    BY <1>5 DEF Taken, Message, BytesComposed
  <2>2. BytesComposed >= Len(msg)
    BY <1>1 DEF IInv, CountedAll
  <2> QED BY <2>1, <2>2
<1>8. \A i \in 1..Len(d) : i <= Len(msg) => d[i] = msg[i]
  BY <1>5 DEF Taken
<1> HIDE DEF d, msg, n
<1>9. SubSeq(d, 1, Len(msg)) = msg
  <2> DEFINE s == SubSeq(d, 1, Len(msg))
  <2>1. s \in Seq(Byte) /\ Len(s) = Len(msg) /\ \A i \in 1..Len(msg) : s[i] = d[i]
    BY <1>2, <1>7
  <2> HIDE DEF s
  <2>2. \A i \in 1..Len(s) : s[i] = msg[i]
    BY <1>2, <1>7, <1>8, <2>1
  <2>3. s = msg
    BY <1>2, <2>1, <2>2, SeqEqual
  <2> QED BY <2>3 DEF s
<1> QED BY <1>2, <1>5, <1>6, <1>9 DEF Taken, d, msg, n

\* Whatever the size of the packets and of the messages: a parser running this code
\* recovers the data of every message this code composes, provided no packet behind
\* the first is taken for a first one and the size as it is read has room for them.
THEOREM MessagesSurvive == CodecSpec => []DataSurvives
BY CodecInitInv, CodecNextInv, InvSurvives, PTL DEF CodecSpec

\* The size the parser reads leaves room for every packet of a message below 16 MB,
\* although it is not the size the composer wrote.
SizeLeavesRoom ==
  message_composed_pack # <<>> /\ parsed.size # 0 /\ parsed.size < SixteenMB =>
    2 * DataSubseq <= SizeRead

\* With packets of the length they have, and up to twice as long, the second condition
\* of Recognised concerns only messages of 16 MB and more.
THEOREM RoomBelow16MB == PacketSize <= 129 => (CodecSpec => []SizeLeavesRoom)
<1> SUFFICES ASSUME PacketSize <= 129 PROVE CodecSpec => []SizeLeavesRoom
  OBVIOUS
<1>1. CodecInv => SizeLeavesRoom
  <2> SUFFICES ASSUME CodecInv, message_composed_pack # <<>>,
                      parsed.size # 0, parsed.size < SixteenMB
               PROVE  2 * DataSubseq <= SizeRead
    BY DEF SizeLeavesRoom
  <2> DEFINE p == message_composed_pack[1]
  <2>1. parsed \in Message /\ \A i \in 1..9 : p[i] = Header(parsed)[i]
    BY PackTypes DEF CodecInv, Headed, OffsetData
  <2> HIDE DEF p
  <2>2. \A i \in 1..4 : p[OffsetLen + i] = BigEndian32(parsed.size)[i]
    <3>1. \A i \in 1..4 : OffsetLen + i \in 1..9
      BY DEF OffsetLen
    <3> QED BY <2>1, <3>1, HeaderBytes, Zenon
  <2>3. LittleEndian32(p, OffsetLen) >= 256
    <3>1. parsed.size \in Nat
      BY <2>1 DEF Message
    <3> QED BY <2>2, <3>1, ReadLarge
  <2>4. LittleEndian32(p, OffsetLen) \in Nat
    <3>1. message_composed_pack[1] \in Packet
      BY PackTypes DEF CodecInv
    <3>2. \A i \in 1..9 : p[i] \in Nat
      BY <3>1, WholePacket DEF p
    <3> QED BY <3>2, SizeIsNumber
  <2>5. DataSubseq \in Nat /\ 2 * DataSubseq <= 256
    BY PacketAssumption, Sizes, SMT DEF DataSubseq
  <2> QED BY <2>3, <2>4, <2>5 DEF SizeRead, p
<1> QED BY CodecInitInv, CodecNextInv, <1>1, PTL DEF CodecSpec
=============================================================================
