----------------------------- MODULE Handshake -----------------------------
(***************************************************************************)
(* What main may rely on when it starts, watches and stops the service       *)
(* thread through two flags, whatever the thread does in between: the        *)
(* status rises while the thread is wanted, and falls once, with control     *)
(* down, as the last use the thread makes of either.                         *)
(***************************************************************************)

VARIABLES
  control,  \* run_control: the thread is wanted
  status,   \* run_status: the thread is running
  over      \* the thread has used the flags for the last time

vars == <<control, status, over>>

Init == control = TRUE /\ status = FALSE /\ over = FALSE

Raise == ~over /\ control /\ status' = TRUE /\ UNCHANGED <<control, over>>

\* main asks, or the thread gives up.
Stop == ~over /\ control' = FALSE /\ UNCHANGED <<status, over>>

Finish == ~over /\ ~control /\ status' = FALSE /\ over' = TRUE /\ UNCHANGED control

\* The thread returns as it is, or is killed: the status stays what it was.
Cut == ~over /\ over' = TRUE /\ control' \in {control, FALSE} /\ UNCHANGED status

\* The program is started again.
Again == over /\ control' = TRUE /\ status' = FALSE /\ over' = FALSE

Next == Raise \/ Stop \/ Finish \/ Cut \/ Again

Spec == Init /\ [][Next]_vars
=============================================================================
