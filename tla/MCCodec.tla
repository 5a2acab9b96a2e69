------------------------------ MODULE MCCodec ------------------------------
(***************************************************************************)
(* Codec with messages of one, two, three and more packets.                 *)
(***************************************************************************)
EXTENDS Codec

CONSTANT Sizes

MCData(n) == [i \in 1..n |-> (40 + i) % 256]

\* The first two bytes of the second packet's data make it look like a first packet.
MCHashes(n) == [i \in 1..n |-> IF i \in {DataFirst + 1, DataFirst + 2} THEN 35 ELSE 1]

MCMessages ==
  {[id |-> 9, size |-> 119, protobuf_data |-> MCHashes(119)]} \cup
  {[id |-> 17, size |-> n, protobuf_data |-> MCData(n)] : n \in Sizes}
    \cup {[id |-> 2, size |-> n + 1, protobuf_data |-> MCData(n)] : n \in {0, 84}}
=============================================================================
