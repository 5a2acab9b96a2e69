---------------------------- MODULE AioTimeout ----------------------------
(***************************************************************************)
(* How long read_host and write_host wait: the timeout of the handler, set  *)
(* by whoever owns it (BOOTLOADER::init asks for 8000) and turned into the   *)
(* last argument of io_getevents.                                           *)
(***************************************************************************)
EXTENDS Integers

CONSTANT Requests      \* the timeouts callers ask for, in ms

Minimum == 60000       \* USB_FFS_MIN_TIMOUT_MS

VARIABLES
  aio_timeout_ms,
  asked                \* history: the last timeout asked for

vars == <<aio_timeout_ms, asked>>

Init == aio_timeout_ms = -1 /\ asked = -1

\* -1 < timeout < USB_FFS_MIN_TIMOUT_MS: the result of the first comparison, 0 or 1,
\* is the left operand of the second.
TooLow(timeout) == (IF -1 < timeout THEN 1 ELSE 0) < Minimum

aio_set_timeout(timeout) ==
  /\ asked' = timeout
  /\ aio_timeout_ms' = IF TooLow(timeout) THEN Minimum ELSE timeout

Next == \E timeout \in Requests : aio_set_timeout(timeout)

Spec == Init /\ [][Next]_vars

\* NULL, without a limit, for what is not above zero.
MayTimeout == aio_timeout_ms > 0

----------------------------------------------------------------------------
\* The comment on the correction: a timeout is replaced if it is too low.  One of
\* the minimum or more, or -1 for no limit, is kept.
TimeoutKept == asked \notin 0..(Minimum - 1) => aio_timeout_ms = asked
=============================================================================
