----------------------------- MODULE MCParser -----------------------------
(***************************************************************************)
(* Parser with first packets that announce sizes around the lengths the     *)
(* second branch compares, subsequential packets, a zero-filled packet, and *)
(* packets the host cut short.                                              *)
(***************************************************************************)
EXTENDS Parser

CONSTANTS Sizes, Lengths

Fill(s, n, b) == [i \in 1..n |-> IF i <= Len(s) THEN s[i] ELSE b]

\* The size as the parser reads it, least significant byte first.
MCFirst(size) == Fill(HeaderMagic \o <<17, 0, size % 256, size \div 256, 0, 0>>, PacketSize, 1)
MCSubseq(b) == Fill(<<HeaderMagic[1]>>, PacketSize, b)

MCPackets ==
  {MCFirst(n) : n \in Sizes}
    \cup {MCSubseq(b) : b \in {2, 3}}
    \cup {[i \in 1..PacketSize |-> 0]}
    \cup {SubSeq(MCFirst(300), 1, n) : n \in Lengths}
    \cup {SubSeq(MCSubseq(2), 1, n) : n \in Lengths}
=============================================================================
