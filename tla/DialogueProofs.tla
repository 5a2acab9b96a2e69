-------------------------- MODULE DialogueProofs --------------------------
(***************************************************************************)
(* The service with its parser: what the host sends is what the parser      *)
(* holds, for every host whose packets have the length of a header, whatever *)
(* their bytes, and every number of packets and of resets.                  *)
(***************************************************************************)
EXTENDS Dialogue, UsbServiceProofs, FlattenProofs

USE BoundsAssumption, ServiceAssumption

Bytes == Seq(P!Byte)

----------------------------------------------------------------------------
(* The packets of the host. *)

\* The parser finds the bytes of a packet wherever it looks.
LEMMA HostPacket ==
  ASSUME NEW i \in 1..MaxSend
  PROVE  /\ HostPackets[i] \in Bytes
         /\ Len(HostPackets[i]) \in Nat /\ Len(HostPackets[i]) >= 9
         /\ \A k \in 1..9 : HostPackets[i][k] \in P!Byte /\ HostPackets[i][k] \in Nat
         /\ \A junk : \A k \in 1..9 : P!Seen(HostPackets[i], junk)[k] = HostPackets[i][k]
<1> DEFINE raw == HostPackets[i]
<1>1. raw \in Bytes /\ Len(raw) \in Nat /\ Len(raw) >= 9
  BY HostAssumption DEF P!OffsetData, Bytes
<1> HIDE DEF raw
<1>3. \A k \in 1..9 : k \in 1..Len(raw) /\ k <= Len(raw)
  BY <1>1
<1>4. \A k \in 1..9 : raw[k] \in P!Byte
  BY <1>1, <1>3 DEF Bytes
<1>5. P!Byte \subseteq Nat
  BY DEF P!Byte
<1>6. \A junk : \A k \in 1..9 : P!Seen(raw, junk)[k] = raw[k]
  BY <1>3 DEF P!Seen, P!OffsetData
<1> QED BY <1>1, <1>4, <1>5, <1>6 DEF raw

\* Whether it starts a message does not depend on the memory behind it.
LEMMA StartIsSeen ==
  ASSUME NEW i \in 1..MaxSend, NEW junk
  PROVE  P!StartsMessage(HostPackets[i], junk) <=> StartsMessage(i)
<1>1. \A k \in 1..3 : k \in 1..9
  OBVIOUS
<1>2. \A k \in 1..3 : P!Seen(HostPackets[i], junk)[k] = P!Seen(HostPackets[i], 0)[k]
  BY <1>1, HostPacket
<1>3. Len(P!HeaderMagic) = 3
  BY DEF P!HeaderMagic
<1> QED BY <1>2, <1>3 DEF StartsMessage, P!StartsMessage

\* The size it announces is a number, and its data a sequence of bytes.
LEMMA SizeType ==
  ASSUME NEW i \in 1..MaxSend
  PROVE  SizeAt(i) \in Nat
<1> DEFINE raw == HostPackets[i]
<1>1. raw[6] \in Nat /\ raw[7] \in Nat /\ raw[8] \in Nat /\ raw[9] \in Nat
  BY HostPacket
<1> HIDE DEF raw
<1>2. P!LittleEndian32(raw, P!OffsetLen) \in Nat
  BY <1>1, SMT DEF P!LittleEndian32, P!OffsetLen
<1> QED BY <1>2 DEF SizeAt, raw

LEMMA DataType ==
  ASSUME NEW i \in 1..MaxSend, NEW size
  PROVE  DataOf(i, size) \in Bytes
<1> DEFINE raw == HostPackets[i]
<1>1. raw \in Bytes /\ Len(raw) \in Nat /\ Len(raw) >= 9
  BY HostPacket
<1> HIDE DEF raw
<1>2. SubSeq(raw, P!OffsetData + 1, Len(raw)) \in Bytes
  BY <1>1 DEF Bytes, P!OffsetData
<1>3. Tail(raw) \in Bytes
  BY <1>1 DEF Bytes
<1>4. <<>> \in Bytes
  BY DEF Bytes
<1> QED BY <1>2, <1>3, <1>4, Zenon DEF DataOf, raw

\* The data of the packets from first to n, and of one packet more.
LEMMA DataFromOne ==
  ASSUME NEW i \in 1..MaxSend
  PROVE  DataFrom(i, i) = <<DataOf(i, SizeAt(i))>>
<1>1. i - i + 1 = 1 /\ i + 1 - 1 = i
  OBVIOUS
<1>2. DataFrom(i, i) = [k \in 1..1 |-> DataOf(i, SizeAt(i))]
  BY <1>1 DEF DataFrom
<1> QED BY <1>2

LEMMA DataFromMore ==
  ASSUME NEW n \in Nat, n + 1 \in 1..MaxSend, NEW first \in 1..n
  PROVE  /\ DataFrom(first, n) \in Seq(Bytes) /\ DataFrom(first, n) # <<>>
         /\ DataFrom(first, n + 1) = Append(DataFrom(first, n), DataOf(n + 1, SizeAt(first)))
<1> DEFINE m == n - first + 1
           old == DataFrom(first, n)
           new == DataFrom(first, n + 1)
           size == SizeAt(first)
           more == Append(old, DataOf(n + 1, size))
<1>1. m \in Nat /\ m > 0 /\ (n + 1) - first + 1 = m + 1 /\ first + (m + 1) - 1 = n + 1
  OBVIOUS
<1>2. \A k \in 1..(m + 1) : first + k - 1 \in 1..MaxSend
  OBVIOUS
<1>3. \A k \in 1..(m + 1) : DataOf(first + k - 1, size) \in Bytes
  BY <1>2, DataType
<1>4. old = [k \in 1..m |-> DataOf(first + k - 1, size)]
  BY DEF DataFrom
<1>5. new = [k \in 1..(m + 1) |-> DataOf(first + k - 1, size)]
  BY <1>1 DEF DataFrom
<1>6. \A k \in 1..m : DataOf(first + k - 1, size) \in Bytes
  BY <1>1, <1>3
<1> HIDE DEF m, old, new, size
<1>7. /\ old \in Seq(Bytes) /\ Len(old) = m
      /\ \A k \in 1..m : old[k] = DataOf(first + k - 1, size)
  BY <1>1, <1>4, <1>6
<1>8. /\ new \in Seq(Bytes) /\ Len(new) = m + 1
      /\ \A k \in 1..(m + 1) : new[k] = DataOf(first + k - 1, size)
  <2> DEFINE l == m + 1
  <2>1. l \in Nat
    BY <1>1
  <2>2. /\ new = [k \in 1..l |-> DataOf(first + k - 1, size)]
        /\ \A k \in 1..l : DataOf(first + k - 1, size) \in Bytes
    BY <1>3, <1>5
  <2> HIDE DEF l
  <2>3. \A k \in 1..l : new[k] = DataOf(first + k - 1, size)
    BY <2>2, Zenon
  <2>4. new \in [1..l -> Bytes]
    BY <2>2, Zenon
  <2>5. new \in Seq(Bytes) /\ Len(new) = l
    BY <2>1, <2>4
  <2> QED BY <2>3, <2>5 DEF l
<1>9. /\ more \in Seq(Bytes) /\ Len(more) = m + 1
      /\ more[m + 1] = DataOf(n + 1, size) /\ \A k \in 1..m : more[k] = old[k]
  BY <1>7, DataType, AppendProperties
<1> HIDE DEF more
<1>10. \A k \in 1..(m + 1) : k = m + 1 \/ k \in 1..m
  BY <1>1
<1>11. \A k \in 1..(m + 1) : new[k] = more[k]
  <2> SUFFICES ASSUME NEW k \in 1..(m + 1) PROVE new[k] = more[k]
    OBVIOUS
  <2>1. new[k] = DataOf(first + k - 1, size)
    BY <1>8
  <2>2. CASE k = m + 1
    <3>1. first + k - 1 = n + 1
      BY <1>1, <2>2
    <3> QED BY <1>9, <2>1, <2>2, <3>1
  <2>3. CASE k \in 1..m
    BY <1>7, <1>9, <2>1, <2>3
  <2> QED BY <1>10, <2>2, <2>3
<1>12. new = more
  BY <1>8, <1>9, <1>11, SeqEqual
<1> QED BY <1>1, <1>7, <1>12 DEF old, new, more, size

----------------------------------------------------------------------------
(* One packet, at the parser. *)

\* The fields of a header are numbers, and the same where the bytes are.
LEMMA SameFields ==
  ASSUME NEW s, NEW r, \A k \in 1..9 : s[k] = r[k] /\ r[k] \in Nat
  PROVE  /\ P!LittleEndian32(s, P!OffsetLen) = P!LittleEndian32(r, P!OffsetLen)
         /\ P!LittleEndian16(s, P!OffsetId) \in Nat
<1>1. s[6] = r[6] /\ s[7] = r[7] /\ s[8] = r[8] /\ s[9] = r[9]
  OBVIOUS
<1>2. s[4] \in Nat /\ s[5] \in Nat
  OBVIOUS
<1>3. P!LittleEndian32(s, P!OffsetLen) = P!LittleEndian32(r, P!OffsetLen)
  BY <1>1, SMT DEF P!LittleEndian32, P!OffsetLen
<1>4. P!LittleEndian16(s, P!OffsetId) \in Nat
  BY <1>2, SMT DEF P!LittleEndian16, P!OffsetId
<1> QED BY <1>3, <1>4

\* The first of a message: whatever there was, the parser begins anew.
LEMMA TakeFirst ==
  ASSUME NEW i \in 1..MaxSend, StartsMessage(i), NEW junk, P!Parse(HostPackets[i], junk)
  PROVE  /\ parsed' \in P!Message /\ crashed' = crashed
         /\ parsed'.size = SizeAt(i) /\ parsed'.protobuf_data = DataOf(i, SizeAt(i))
<1> DEFINE raw == HostPackets[i]
           seen == P!Seen(raw, junk)
           id == P!LittleEndian16(seen, P!OffsetId)
           size == P!LittleEndian32(seen, P!OffsetLen)
           data == IF size = 0 THEN <<>> ELSE SubSeq(raw, P!OffsetData + 1, Len(raw))
<1>1. /\ Len(raw) \in Nat /\ Len(raw) >= 9
      /\ \A k \in 1..9 : seen[k] = raw[k] /\ raw[k] \in Nat
  BY HostPacket
<1>2. P!ParseFirst(raw, junk)
  BY StartIsSeen DEF P!Parse, P!ParseSubsequential, P!WrongHeader, P!Throw
<1> HIDE DEF seen
<1>3. size = SizeAt(i) /\ id \in Nat
  BY <1>1, SameFields DEF SizeAt
<1>4. size \in Nat
  BY <1>3, SizeType
<1>5. data = DataOf(i, SizeAt(i))
  BY <1>3 DEF DataOf
<1>6. data \in Bytes
  BY <1>5, DataType
<1>7. parsed' = [id |-> id, size |-> size, protobuf_data |-> data]
  BY <1>2 DEF P!ParseFirst, seen
<1>8. ~(Len(raw) < P!OffsetData)
  BY <1>1 DEF P!OffsetData
<1>9. crashed' = crashed
  BY <1>2, <1>8, Zenon DEF P!ParseFirst
<1> HIDE DEF id, size, data
<1>10. parsed' \in P!Message
  BY <1>3, <1>4, <1>6, <1>7 DEF P!Message, Bytes
<1> QED BY <1>3, <1>5, <1>7, <1>9, <1>10

\* One that follows: its data, if the message has room for it, goes behind what there
\* is; otherwise the parser keeps what it has.
LEMMA TakeNext ==
  ASSUME NEW i \in 1..MaxSend, ~StartsMessage(i), NEW junk, P!Parse(HostPackets[i], junk),
         parsed \in P!Message
  PROVE  /\ parsed' \in P!Message /\ crashed' = crashed
         /\ parsed'.size = parsed.size
         /\ parsed'.protobuf_data = parsed.protobuf_data \o DataOf(i, parsed.size)
         /\ parsed.size = 0 => parsed' = parsed
<1> DEFINE raw == HostPackets[i]
           old == parsed.protobuf_data
           t == Tail(raw)
           room == raw[1] = P!HeaderMagic[1] /\ P!FitsInformedSize(raw)
<1>1. raw \in Bytes /\ Len(raw) \in Nat /\ Len(raw) > 0
  BY HostPacket
<1>2. ~P!StartsMessage(raw, junk)
  BY StartIsSeen
<1>3. /\ parsed.size \in Nat /\ old \in Bytes
      /\ parsed = [id |-> parsed.id, size |-> parsed.size, protobuf_data |-> old]
      /\ parsed.id \in Nat
  <2>1. PICK m \in Nat, l \in Nat, d \in Bytes :
          parsed = [id |-> m, size |-> l, protobuf_data |-> d]
    BY DEF P!Message, Bytes
  <2> QED BY <2>1
<1>4. DataOf(i, parsed.size) = IF room THEN t ELSE <<>>
  BY DEF DataOf, P!FitsInformedSize
<1>5. room => parsed.size # 0
  BY <1>1, <1>3, HostAssumption DEF P!FitsInformedSize, P!DataSubseq, P!OffsetData
<1>6. \/ P!ParseSubsequential(raw, junk) /\ room
      \/ P!WrongHeader(raw, junk) /\ ~room
  <2>1. P!ParseSubsequential(raw, junk) \/ P!WrongHeader(raw, junk) \/ P!Throw(raw, junk)
    BY <1>2 DEF P!Parse, P!ParseFirst
  <2>2. ~P!Throw(raw, junk)
    BY <1>1 DEF P!Throw
  <2> QED BY <2>1, <2>2 DEF P!ParseSubsequential, P!WrongHeader
<1> HIDE DEF raw, room
<1>7. CASE P!ParseSubsequential(raw, junk) /\ room
  <2>1. parsed' = [parsed EXCEPT !.protobuf_data = @ \o t] /\ crashed' = crashed
    BY <1>7 DEF P!ParseSubsequential
  <2>2. t \in Bytes
    BY <1>1 DEF Bytes
  <2> HIDE DEF t
  <2>3. old \o t \in Bytes
    BY <1>3, <2>2, ConcatProperties DEF Bytes
  <2>4. parsed' = [id |-> parsed.id, size |-> parsed.size, protobuf_data |-> old \o t]
    BY <1>3, <2>1
  <2>5. parsed.size # 0 /\ DataOf(i, parsed.size) = t
    BY <1>4, <1>5, <1>7
  <2> HIDE DEF old
  <2>6. parsed' \in P!Message
    BY <1>3, <2>3, <2>4 DEF P!Message, Bytes
  <2> QED BY <2>1, <2>4, <2>5, <2>6 DEF old
<1>8. CASE P!WrongHeader(raw, junk) /\ ~room
  <2>1. parsed' = parsed /\ crashed' = crashed
    BY <1>8 DEF P!WrongHeader
  <2>2. DataOf(i, parsed.size) = <<>>
    BY <1>4, <1>8
  <2>3. old \o <<>> = old
    BY <1>3, ConcatEmptySeq DEF Bytes
  <2> QED BY <2>1, <2>2, <2>3
<1> QED BY <1>6, <1>7, <1>8

----------------------------------------------------------------------------
(* The invariant. *)

\* The parser holds the message that begins in packet first, up to packet n.
Holds(msg, first, n) ==
  /\ Begins(first, n)
  /\ msg.size = SizeAt(first)
  /\ msg.protobuf_data = FlattenSeq(DataFrom(first, n))

\* It holds the last one begun in the first n packets, or there is none.
HoldsLast(msg, n) ==
  \/ (\A i \in 1..n : ~StartsMessage(i)) /\ msg = P!EmptyMessage
  \/ \E first \in 1..n : Holds(msg, first, n)

\* The routine's I/O is synchronous, nothing was thrown, and the parser holds the
\* last message of the packets it was given.
DInv ==
  /\ IInv
  /\ parsed \in P!Message
  /\ ~crashed
  /\ HoldsLast(parsed, Len(processed))

\* A message begins last in one packet only.
LEMMA OneBeginning ==
  ASSUME NEW n \in Nat, NEW i \in 1..n, NEW j \in 1..n, Begins(i, n), Begins(j, n)
  PROVE  i = j
<1>1. i < j => j \in (i + 1)..n
  OBVIOUS
<1>2. j < i => i \in (j + 1)..n
  OBVIOUS
<1>3. ~(i < j) /\ ~(j < i)
  BY <1>1, <1>2 DEF Begins
<1> QED BY <1>3

\* Packet n + 1 after the first n.
LEMMA TakeOne ==
  ASSUME NEW n \in Nat, n + 1 \in 1..MaxSend, parsed \in P!Message, ~crashed,
         HoldsLast(parsed, n), NEW junk, P!Parse(HostPackets[n + 1], junk)
  PROVE  parsed' \in P!Message /\ ~crashed' /\ HoldsLast(parsed', n + 1)
<1> DEFINE i == n + 1
<1>1. i \in 1..MaxSend /\ i \in 1..i /\ i \in Nat
  OBVIOUS
<1>2. CASE StartsMessage(i)
  <2>1. /\ parsed' \in P!Message /\ crashed' = crashed
        /\ parsed'.size = SizeAt(i) /\ parsed'.protobuf_data = DataOf(i, SizeAt(i))
    BY <1>1, <1>2, TakeFirst
  <2>2. FlattenSeq(DataFrom(i, i)) = DataOf(i, SizeAt(i))
    BY <1>1, DataFromOne, FlattenOne
  <2>3. (i + 1)..i = {}
    BY <1>1
  <2> HIDE DEF i
  <2>4. Begins(i, i)
    BY <1>2, <2>3 DEF Begins
  <2>5. Holds(parsed', i, i)
    BY <2>1, <2>2, <2>4 DEF Holds
  <2>6. HoldsLast(parsed', i)
    BY <1>1, <2>5 DEF HoldsLast
  <2> QED BY <2>1, <2>6 DEF i
<1>3. CASE ~StartsMessage(i)
  <2>1. /\ parsed' \in P!Message /\ crashed' = crashed
        /\ parsed'.size = parsed.size
        /\ parsed'.protobuf_data = parsed.protobuf_data \o DataOf(i, parsed.size)
        /\ parsed.size = 0 => parsed' = parsed
    BY <1>1, <1>3, TakeNext
  <2>2. CASE (\A k \in 1..n : ~StartsMessage(k)) /\ parsed = P!EmptyMessage
    <3>1. parsed' = P!EmptyMessage
      BY <2>1, <2>2 DEF P!EmptyMessage
    <3>2. \A k \in 1..i : k \in 1..n \/ k = i
      OBVIOUS
    <3>3. \A k \in 1..i : ~StartsMessage(k)
      BY <1>3, <2>2, <3>2
    <3> QED BY <2>1, <3>1, <3>3 DEF HoldsLast
  <2>3. CASE \E first \in 1..n : Holds(parsed, first, n)
    <3>1. PICK first \in 1..n : Holds(parsed, first, n)
      BY <2>3
    <3>2. first \in 1..i
      OBVIOUS
    <3>3. /\ DataFrom(first, n) \in Seq(Bytes) /\ DataFrom(first, n) # <<>>
          /\ DataFrom(first, i) = Append(DataFrom(first, n), DataOf(i, SizeAt(first)))
          /\ DataOf(i, SizeAt(first)) \in Bytes
      BY <1>1, DataFromMore, DataType
    <3>4. FlattenSeq(DataFrom(first, i)) =
            FlattenSeq(DataFrom(first, n)) \o DataOf(i, SizeAt(first))
      BY <3>3, FlattenAppend
    <3>5. Begins(first, i)
      <4>1. \A j \in (first + 1)..i : j \in (first + 1)..n \/ j = i
        OBVIOUS
      <4> QED BY <1>3, <3>1, <4>1 DEF Holds, Begins
    <3>6. Holds(parsed', first, i)
      BY <2>1, <3>1, <3>4, <3>5 DEF Holds
    <3> QED BY <2>1, <3>2, <3>6 DEF HoldsLast
  <2> QED BY <2>2, <2>3 DEF HoldsLast
<1> QED BY <1>2, <1>3

\* Only the parse gives the parser something.
LEMMA OnlyParse ==
  ASSUME TypeOK, Next
  PROVE  \/ UNCHANGED processed
         \/ ParseAndCompose /\ processed' # processed
<1>1. CASE ParseAndCompose
  <2>1. processed \in Seq(Nat) /\ buf \in Nat
    BY DEF TypeOK
  <2>2. Len(processed') = Len(processed) + 1 /\ Len(processed) \in Nat
    BY <1>1, <2>1, AppendProperties DEF ParseAndCompose
  <2> QED BY <1>1, <2>2
<1>2. CASE StopRequest \/ (Host /\ UNCHANGED svcVars)
  BY <1>2 DEF StopRequest, svcVars
<1>3. CASE Service /\ ~ParseAndCompose
  BY <1>3 DEF Service, LoopHead, Select, SelectTimeout, SelectError, ReadControl,
     NoControl, ReadControlError, DrainEventfd, DrainError, PrepareRead,
     SubmitReadHost, HarvestRead, ReadTimeout, SubmitWriteHost, HarvestWrite,
     WriteTimeout, DisableGadget, Release, CleanupError, Return
<1> QED BY <1>1, <1>2, <1>3 DEF Next

\* A new service with a new parser.
LEMMA DialogueInitInv == DialogueInit => DInv
<1> SUFFICES ASSUME DialogueInit PROVE DInv
  OBVIOUS
<1>1. IInv
  BY InitInv DEF DialogueInit
<1>2. parsed \in P!Message /\ ~crashed
  BY EmptySeq DEF DialogueInit, P!Init, P!EmptyMessage, P!Message
<1>3. Len(processed) = 0 /\ parsed = P!EmptyMessage
  BY DEF DialogueInit, Init, P!Init
<1>4. HoldsLast(parsed, Len(processed))
  BY <1>3 DEF HoldsLast
<1> QED BY <1>1, <1>2, <1>4 DEF DInv

\* Every step of the two.
LEMMA DialogueNextInv ==
  ASSUME DInv, [DialogueNext]_dialogueVars, MayTimeout = FALSE
  PROVE  DInv'
<1> DEFINE n == Len(processed)
<1>1. IInv' /\ IInv /\ TypeOK
  <2>1. [Next]_vars
    BY DEF DialogueNext, dialogueVars
  <2> QED BY <2>1, NextInv, NoTimeouts DEF DInv, IInv
<1>2. CASE UNCHANGED <<processed, parsed, crashed>>
  BY <1>1, <1>2 DEF DInv
<1>3. CASE DialogueNext /\ UNCHANGED processed
  BY <1>2, <1>3 DEF DialogueNext, parserVars
<1>4. CASE DialogueNext /\ ParseAndCompose /\ processed' # processed
  <2>1. processed' = Append(processed, buf) /\ pc = "parse"
    BY <1>4 DEF ParseAndCompose
  <2>2. /\ processed \in Seq(Nat) /\ n \in Nat /\ buf \in Nat /\ sent \in 0..MaxSend
        /\ MaxSend \in Nat
    BY <1>1 DEF TypeOK
  <2>3. buf = n + 1 /\ n + 1 \in 1..MaxSend
    <3>1. Landed
      BY <2>1 DEF Landed
    <3>2. sent = n + 1 /\ buf = sent
      BY <1>1, <3>1 DEF IInv, Accounting
    <3> QED BY <2>2, <3>2
  <2>4. Len(processed') = n + 1
    BY <2>1, <2>2, AppendProperties
  <2>5. PICK junk \in JunkBytes : P!Parse(HostPackets[n + 1], junk)
    <3>1. Contents(buf) = HostPackets[n + 1]
      BY <2>2, <2>3 DEF Contents
    <3> QED BY <1>4, <3>1 DEF DialogueNext
  <2>6. HoldsLast(parsed, n)
    BY DEF DInv
  <2> HIDE DEF n
  <2>7. parsed' \in P!Message /\ ~crashed' /\ HoldsLast(parsed', n + 1)
    BY <2>2, <2>3, <2>5, <2>6, TakeOne DEF DInv
  <2> QED BY <1>1, <2>4, <2>7 DEF DInv
<1>5. CASE UNCHANGED dialogueVars
  BY <1>2, <1>5 DEF dialogueVars, vars, svcVars, parserVars
<1> QED BY <1>1, <1>3, <1>4, <1>5, OnlyParse DEF DialogueNext

----------------------------------------------------------------------------
\* With its parser the service does what it does without: what is proved of Spec holds
\* of DialogueSpec.
THEOREM ServiceInDialogue == DialogueSpec => Spec
<1>1. DialogueInit => Init
  BY DEF DialogueInit
<1>2. [DialogueNext]_dialogueVars => [Next]_vars
  BY DEF DialogueNext, dialogueVars
<1> QED BY <1>1, <1>2, PTL DEF DialogueSpec, Spec

\* Where no wait times out, the parser holds the data of the last message the host has
\* begun, every byte once and in order, however often the device was reset or a call
\* refused in between.
THEOREM MessagesArrive == MayTimeout = FALSE => (DialogueSpec => []MessageArrives)
<1> SUFFICES ASSUME MayTimeout = FALSE PROVE DialogueSpec => []MessageArrives
  OBVIOUS
<1>1. DInv /\ [DialogueNext]_dialogueVars => DInv'
  BY DialogueNextInv
<1>2. DInv => MessageArrives
  <2> DEFINE n == Len(processed)
  <2> SUFFICES ASSUME DInv
               PROVE  /\ (\A i \in 1..n : ~StartsMessage(i)) => parsed.protobuf_data = <<>>
                      /\ \A first \in 1..n : Begins(first, n) =>
                           parsed.protobuf_data = FlattenSeq(DataFrom(first, n))
    BY DEF MessageArrives
  <2>1. n \in Nat /\ HoldsLast(parsed, n)
    BY DEF DInv, IInv, TypeOK
  <2> HIDE DEF n
  <2>2. CASE (\A i \in 1..n : ~StartsMessage(i)) /\ parsed = P!EmptyMessage
    BY <2>2 DEF Begins, P!EmptyMessage
  <2>3. CASE \E last \in 1..n : Holds(parsed, last, n)
    <3>1. PICK last \in 1..n : Holds(parsed, last, n)
      BY <2>3
    <3>2. StartsMessage(last)
      BY <3>1 DEF Holds, Begins
    <3>3. ASSUME NEW first \in 1..n, Begins(first, n)
          PROVE  parsed.protobuf_data = FlattenSeq(DataFrom(first, n))
      <4>1. first = last
        BY <2>1, <3>1, <3>3, OneBeginning DEF Holds
      <4> QED BY <3>1, <4>1 DEF Holds
    <3> QED BY <3>2, <3>3
  <2> QED BY <2>1, <2>2, <2>3 DEF HoldsLast
<1> QED BY DialogueInitInv, <1>1, <1>2, PTL DEF DialogueSpec
=============================================================================
