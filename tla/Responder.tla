----------------------------- MODULE Responder -----------------------------
(***************************************************************************)
(* What the service promises, without endpoints, requests or wakeups: it    *)
(* takes one packet at a time, gives it to the parser, and its reply, a     *)
(* fixed number of packets, reaches the host before the next one is taken.  *)
(* A reset may cut a reply short, and excuses what follows it.              *)
(***************************************************************************)
EXTENDS Naturals, Sequences

CONSTANT Parts      \* packets of a reply, at least one

VARIABLES
  taken,    \* packets taken from the host: 1, 2, ... taken
  parsed,   \* what the parser has been given
  got,      \* packets the host has received, <<reply, part>>
  resets

vars == <<taken, parsed, got, resets>>

Init == taken = 0 /\ parsed = <<>> /\ got = <<>> /\ resets = 0

Reply == Len(parsed)

\* Parts of the present reply the host has.
Delivered == IF got # <<>> /\ got[Len(got)][1] = Reply THEN got[Len(got)][2] ELSE 0

Finished == parsed = <<>> \/ Delivered = Parts

Take ==
  /\ taken = Reply
  /\ Finished \/ resets > 0
  /\ taken' = taken + 1
  /\ UNCHANGED <<parsed, got, resets>>

Parse ==
  /\ Reply < taken
  /\ parsed' = Append(parsed, taken)
  /\ UNCHANGED <<taken, got, resets>>

\* A part after a reset may follow one that was lost.
Deliver(k) ==
  /\ parsed # <<>> /\ taken = Reply
  /\ k > Delivered
  /\ resets = 0 => k = Delivered + 1
  /\ got' = Append(got, <<Reply, k>>)
  /\ UNCHANGED <<taken, parsed, resets>>

Reset == resets' = resets + 1 /\ UNCHANGED <<taken, parsed, got>>

Next == Take \/ Parse \/ (\E k \in 1..Parts : Deliver(k)) \/ Reset

Spec == Init /\ [][Next]_vars

----------------------------------------------------------------------------
\* Every packet taken is answered in full, unless the host resets the device.
Answered(n) ==
  \A p \in 1..n :
    taken >= p ~> (\E i \in DOMAIN got : got[i] = <<p, Parts>>) \/ resets > 0
=============================================================================
