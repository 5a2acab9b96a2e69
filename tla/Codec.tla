------------------------------- MODULE Codec -------------------------------
(***************************************************************************)
(* Composer and Parser back to back: each message is composed, its packets  *)
(* cross a wire that loses nothing, and the parser of a peer running the    *)
(* same code takes them one by one.                                         *)
(***************************************************************************)
EXTENDS Composer

CONSTANT MaxParses      \* bound: calls of parse_legacy

ASSUME CodecAssumption == MaxParses \in Nat

VARIABLES
  parser_pack, parser_parsed, parser_ret, crashed, parser_calls,
  wire,         \* packets on their way
  tx            \* the call of compose_legacy the wire last carried

parserVars == <<parser_pack, parser_parsed, parser_ret, crashed, parser_calls>>
codecVars == <<vars, parserVars, wire, tx>>

P == INSTANCE Parser WITH
       message_composed_pack <- parser_pack, parsed <- parser_parsed, ret <- parser_ret,
       calls <- parser_calls, Packets <- {}, MaxCalls <- MaxParses

CodecInit == Init /\ P!Init /\ wire = <<>> /\ tx = 0

Sent == tx = calls /\ wire = <<>>

\* compose_legacy is called again when the last message is across.
Compose ==
  /\ pc = "idle" => Sent
  /\ Next
  /\ UNCHANGED <<parserVars, wire>>
  /\ tx' = IF Reject THEN calls' ELSE tx

Transmit ==
  /\ pc = "idle" /\ tx # calls
  /\ wire' = message_composed_pack
  /\ tx' = calls
  /\ UNCHANGED <<vars, parserVars>>

Receive ==
  /\ wire # <<>>
  /\ \E junk \in JunkBytes : P!Parse(Head(wire), junk)
  /\ wire' = Tail(wire)
  /\ UNCHANGED <<vars, tx>>

CodecNext == Compose \/ Transmit \/ Receive

CodecSpec == CodecInit /\ [][CodecNext]_codecVars

\* A call of compose_legacy goes on.
CodecFairSpec == CodecSpec /\ WF_vars(ComposeNext \/ Finish)

----------------------------------------------------------------------------
Across == pc = "idle" /\ Sent /\ message_composed_pack # <<>>

\* What the parser takes for the size of the message.
SizeRead == LittleEndian32(message_composed_pack[1], OffsetLen)

\* The packets as the parser's tests see them: none behind the first starts a message,
\* as one whose data begins with "##" does, and the size read has room for another.
Recognised ==
  /\ \A k \in 2..Len(message_composed_pack) : ~P!StartsMessage(message_composed_pack[k], 0)
  /\ Len(message_composed_pack) > 1 => 2 * DataSubseq <= SizeRead

\* The parser recovers the data of every message the composer splits into packets it
\* recognises, followed by what fills the last one, and accepts each of its packets,
\* whatever it was given before.
DataSurvives ==
  Across /\ parsed.size > 0 /\ Recognised =>
    /\ parser_pack = message_composed_pack
    /\ SubSeq(parser_parsed.protobuf_data, 1, parsed.size) = parsed.protobuf_data

\* The parser reads the id and the size the composer wrote.
HeaderSurvives ==
  Across => parser_parsed.id = parsed.id /\ parser_parsed.size = parsed.size
=============================================================================
