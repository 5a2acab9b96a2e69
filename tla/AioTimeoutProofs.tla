------------------------- MODULE AioTimeoutProofs -------------------------
(***************************************************************************)
(* What the chained comparison makes of every timeout.                      *)
(***************************************************************************)
EXTENDS AioTimeout, TLAPS

\* No timeout passes the test.
LEMMA AlwaysTooLow == \A timeout : TooLow(timeout)
BY DEF TooLow, Minimum

\* Whatever callers ask for, a handler that has been told a timeout waits exactly the
\* minimum: neither a longer wait nor one without a limit can be had.
THEOREM OneTimeout ==
  Spec => [](aio_timeout_ms \in {-1, Minimum} /\ (MayTimeout \/ asked = -1))
<1> DEFINE I == /\ aio_timeout_ms \in {-1, Minimum}
                /\ aio_timeout_ms = Minimum \/ asked = -1
<1>1. Init => I
  BY DEF Init
<1>2. I /\ [Next]_vars => I'
  BY AlwaysTooLow DEF Next, aio_set_timeout, vars
<1>3. I => aio_timeout_ms \in {-1, Minimum} /\ (MayTimeout \/ asked = -1)
  BY DEF MayTimeout, Minimum
<1> QED BY <1>1, <1>2, <1>3, PTL DEF Spec
=============================================================================
