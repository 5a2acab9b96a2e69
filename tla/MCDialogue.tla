---------------------------- MODULE MCDialogue ----------------------------
(***************************************************************************)
(* Dialogue with packets of ten bytes: Initialize, which has no data, as in   *)
(* the Readme, and a message of three packets, the last one short.          *)
(***************************************************************************)
EXTENDS Dialogue

\* "?##" and "?"; sizes as the parser reads them, least significant byte first.
MCFirst(size, b) == <<63, 35, 35, 17, 0, size, 0, 0, 0, b>>
MCSubseq(b) == <<63, b, b, b, b, b, b, b, b, b>>
MCShort(b) == <<63, b, b, b, b, b, b, b, b>>

MCHostPackets == <<MCFirst(0, 0), MCFirst(18, 1), MCSubseq(2), MCShort(3)>>
=============================================================================
