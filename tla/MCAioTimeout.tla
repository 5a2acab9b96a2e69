--------------------------- MODULE MCAioTimeout ---------------------------
(***************************************************************************)
(* AioTimeout with the timeout init() asks for, no limit, and both sides of *)
(* the minimum.                                                             *)
(***************************************************************************)
EXTENDS AioTimeout

MCRequests == {-1, 8000, Minimum - 1, Minimum, Minimum + 1}
=============================================================================
