----------------------------- MODULE Lifecycle -----------------------------
(***************************************************************************)
(* main() and the service thread: starting, stopping and what each step of  *)
(* init() and cleanup() acquires and releases, one program after another on *)
(* the same kernel.  The traffic between init() and cleanup() is the one    *)
(* step "run" here; UsbService has it in full.                              *)
(*                                                                          *)
(* held is what outlives a process (configfs entries, mount, the binding),  *)
(* own what the kernel takes back when it ends.                             *)
(***************************************************************************)
EXTENDS Naturals, Sequences, SequencesExt

CONSTANTS
  Faulty,       \* the steps that may fail
  MayKill,      \* the process may be killed
  MaxBoots      \* bound: programs started

\* Mutant: the gadget is enabled before the endpoint files are opened.
ProgramEnableFirst ==
  <<"usbg_init", "create_gadget", "create_function", "create_config", "add_function", "get_udc",
    "eventfd", "make_path", "mount", "open_ctrl", "descs", "strings", "enable",
    "open_in", "open_out", "io_setup", "run",
    "disable", "close_in", "close_out", "close_ctrl", "umount", "io_destroy", "rm_gadget",
    "exit">>

\* init(): configfs_handle::init, handler::ffs_init, aio_init, enable; the inner loop;
\* cleanup(): disable, handler::ffs_cleanup, aio_cleanup, configfs_handle::cleanup.
Program ==
  <<"usbg_init", "create_gadget", "create_function", "create_config", "add_function", "get_udc",
    "eventfd", "make_path", "mount", "open_ctrl", "descs", "strings", "open_in", "open_out",
    "io_setup", "enable", "run",
    "disable", "close_in", "close_out", "close_ctrl", "umount", "io_destroy", "rm_gadget",
    "exit">>

Steps == ToSet(Program) \ {"run", "exit"}

\* Behind the last use of anything that is main's: the return and the end of the
\* routine's own locals and of its AutoLog are left ("leave"), or nothing is.
Left == {"leave", "returned"}

\* The steps whose failure ends in usbg_cleanup(s), by RAC_ON_FALSE_USBGX.
UsbgSteps == {"usbg_init", "create_gadget", "create_function", "create_config",
              "add_function", "enable", "disable", "rm_gadget"}

\* The steps whose failure does not end the routine: a missing UDC and refused
\* descriptors are logged, and the result of io_destroy is not looked at.
Ignored == {"get_udc", "descs", "io_destroy"}

ASSUME LifecycleAssumption ==
  /\ Faulty \subseteq Steps \cup {"run"}
  /\ MayKill \in BOOLEAN
  /\ MaxBoots \in Nat \ {0}

VARIABLES
  main,         \* where main() is
  step,         \* the step the service thread is at
  run_control, run_status,
  held, own,
  s,            \* usbg_state: "null", "live", "freed"
  uaf,          \* a freed usbg_state was used
  clean,        \* history: nothing has failed or been killed so far
  boots

vars == <<main, step, run_control, run_status, held, own, s, uaf, clean, boots>>

Init ==
  /\ main = "wait_run" /\ step = Head(Program)
  /\ run_control = TRUE /\ run_status = FALSE
  /\ held = {} /\ own = {} /\ s = "null" /\ uaf = FALSE
  /\ clean = TRUE /\ boots = 1

Alive == main \in {"wait_run", "count", "wait_stop"}

\* On to what follows in the program.
Advance == \E i \in 1..(Len(Program) - 1) : step = Program[i] /\ step' = Program[i + 1]

\* Mutant: the OUT endpoint has another file.
FfsFilesEp2 == {"ctrl", "in", "ep2"}

FfsFiles == {"ctrl", "in", "out"}

Outlasting == {"gadget", "function", "config", "link", "path", "mount", "bound"}

\* What a step needs; without it the call fails.  The driver takes what is written to
\* ep0 for descriptors until it has accepted some, and has no endpoint files before
\* the strings.
CanSucceed(x) ==
  CASE x = "create_gadget"            -> "gadget" \notin held
    [] x = "strings"                  -> "descs" \in own
    [] x \in {"open_in", "open_out"}  -> "strings" \in own
    [] x = "umount"                   -> own \cap FfsFiles = {}
    [] x = "rm_gadget"                -> "mount" \notin held /\ "bound" \notin held
    [] OTHER                          -> TRUE

\* What it acquires.
Gains(x) ==
  CASE x = "create_gadget"        -> {"gadget"}
    [] x = "create_function"      -> {"function"}
    [] x = "create_config"        -> {"config"}
    [] x = "add_function"         -> {"link"}
    [] x = "make_path"            -> {"path"}
    [] x = "enable"               -> {"bound"}
    [] x = "open_ctrl"            -> {"ctrl"}
    [] x = "open_in"              -> {"in"}
    [] x = "open_out"             -> {"out"}
    [] x = "io_setup"             -> {"aio"}
    [] x \in {"eventfd", "mount", "descs", "strings"} -> {x}
    [] OTHER                      -> {}

\* Mutant: the usbg_state is freed, the gadget stays in configfs.
LosesNoGadget(x) ==
  CASE x = "disable"    -> {"bound"}
    [] x = "close_in"   -> {"in"}
    [] x = "close_out"  -> {"out"}
    [] x = "close_ctrl" -> {"ctrl", "descs", "strings"}
    [] x = "umount"     -> {"mount"}
    [] x = "io_destroy" -> {"aio"}
    [] OTHER            -> {}

\* What it releases.  With the last of its files the driver forgets what ep0 told it.
Loses(x) ==
  CASE x = "disable"    -> {"bound"}
    [] x = "close_in"   -> {"in"}
    [] x = "close_out"  -> {"out"}
    [] x = "close_ctrl" -> {"ctrl", "descs", "strings"}
    [] x = "umount"     -> {"mount"}
    [] x = "io_destroy" -> {"aio"}
    [] x = "rm_gadget"  -> {"gadget", "function", "config", "link"}
    [] OTHER            -> {}

UsesGadget(x) == x \in UsbgSteps \ {"usbg_init"}

Touches(x) == uaf' = (uaf \/ (UsesGadget(x) /\ s = "freed"))

----------------------------------------------------------------------------
\* A step of init(), or of cleanup(), that succeeds.
Succeed ==
  /\ Alive /\ step \in Steps /\ CanSucceed(step)
  /\ held' = (held \cup (Gains(step) \cap Outlasting)) \ Loses(step)
  /\ own' = (own \cup (Gains(step) \ Outlasting)) \ Loses(step)
  /\ s' = IF step = "usbg_init" THEN "live"
          ELSE IF step = "rm_gadget" THEN "freed" ELSE s
  /\ Touches(step)
  /\ Advance
  /\ UNCHANGED <<main, run_control, run_status, clean, boots>>

\* Mutant: the routine goes on after a step that failed.
FailGoesOn ==
  /\ Alive /\ step \in Steps \ Ignored
  /\ step \in Faulty \/ ~CanSucceed(step)
  /\ IF step \in UsbgSteps
       THEN s' = "freed" /\ uaf' = (uaf \/ s = "freed")
       ELSE UNCHANGED <<s, uaf>>
  /\ Advance
  /\ clean' = FALSE
  /\ UNCHANGED <<main, run_control, run_status, held, own, boots>>

\* Mutant: a step that fails returns on the spot, not out of the loop.
FailReturns ==
  /\ Alive /\ step \in Steps \ Ignored
  /\ step \in Faulty \/ ~CanSucceed(step)
  /\ IF step \in UsbgSteps /\ s # "null"
       THEN s' = "freed" /\ uaf' = (uaf \/ s = "freed")
       ELSE UNCHANGED <<s, uaf>>
  /\ run_control' = FALSE
  /\ step' = "leave"
  /\ clean' = FALSE
  /\ UNCHANGED <<main, run_status, held, own, boots>>

\* A step that fails returns false: nothing acquired before it is released but
\* the usbg_state, and the routine leaves its loop.
Fail ==
  /\ Alive /\ step \in Steps \ Ignored
  /\ step \in Faulty \/ ~CanSucceed(step)
  /\ IF step \in UsbgSteps /\ s # "null"
       THEN s' = "freed" /\ uaf' = (uaf \/ s = "freed")
       ELSE UNCHANGED <<s, uaf>>
  /\ run_control' = FALSE
  /\ step' = "exit"
  /\ clean' = FALSE
  /\ UNCHANGED <<main, run_status, held, own, boots>>

\* No such UDC: the usbg_state is freed, and init() goes on.
UdcMissing ==
  /\ Alive /\ step = "get_udc" /\ step \in Faulty
  /\ s' = "freed"
  /\ Advance
  /\ clean' = FALSE
  /\ UNCHANGED <<main, run_control, run_status, held, own, uaf, boots>>

\* The driver refuses the descriptors: RAC_SIMPLE says so, and init() goes on.
DescsRefused ==
  /\ Alive /\ step = "descs" /\ step \in Faulty
  /\ Advance
  /\ clean' = FALSE
  /\ UNCHANGED <<main, run_control, run_status, held, own, s, uaf, boots>>

\* The kernel takes back what the process owned; closing the last file of a
\* FunctionFS instance unbinds its gadget.
ProcessEnds ==
  /\ main' = "done"
  /\ held' = IF own \cap FfsFiles # {} THEN held \ {"bound"} ELSE held
  /\ own' = {}

\* The process is killed.
Die ==
  /\ Alive /\ MayKill
  /\ ProcessEnds
  /\ step' = "returned"
  /\ clean' = FALSE
  /\ UNCHANGED <<run_control, run_status, s, uaf, boots>>

----------------------------------------------------------------------------
\* The inner loop: it says it runs, and ends when told to or on an error.
Running ==
  /\ Alive /\ step = "run" /\ run_control /\ ~run_status
  /\ run_status' = TRUE
  /\ UNCHANGED <<main, step, run_control, held, own, s, uaf, clean, boots>>

\* Mutant: run_status is cleared before the cleanup.
LeaveLoopStatusFirst ==
  /\ Alive /\ step = "run" /\ ~run_control
  /\ run_status' = FALSE
  /\ Advance
  /\ UNCHANGED <<main, run_control, held, own, s, uaf, clean, boots>>

LeaveLoop ==
  /\ Alive /\ step = "run" /\ ~run_control
  /\ Advance
  /\ UNCHANGED <<main, run_control, run_status, held, own, s, uaf, clean, boots>>

LoopError ==
  /\ Alive /\ step = "run" /\ run_status /\ run_control /\ "run" \in Faulty
  /\ run_control' = FALSE
  /\ Advance \/ step' = "leave"    \* leave: read_eventfd
  /\ clean' = FALSE
  /\ UNCHANGED <<main, run_status, held, own, s, uaf, boots>>

\* Mutant: run_status stays as it is.
StatusNotCleared ==
  /\ Alive /\ step = "exit"
  /\ step' = "leave"
  /\ UNCHANGED <<main, run_control, run_status, held, own, s, uaf, clean, boots>>

ClearStatus ==
  /\ Alive /\ step = "exit"
  /\ run_status' = FALSE
  /\ step' = "leave"
  /\ UNCHANGED <<main, run_control, held, own, s, uaf, clean, boots>>

\* The thread ends, unless main has returned in the meantime.
ThreadReturns ==
  /\ Alive /\ step = "leave"
  /\ step' = "returned"
  /\ UNCHANGED <<main, run_control, run_status, held, own, s, uaf, clean, boots>>

----------------------------------------------------------------------------
\* while ( !thread_run_status ) {};
MainSeesRunning ==
  /\ main = "wait_run" /\ run_status
  /\ main' = "count"
  /\ UNCHANGED <<step, run_control, run_status, held, own, s, uaf, clean, boots>>

\* Twenty seconds are over, or the thread has stopped by itself.
MainStops ==
  /\ main = "count"
  /\ run_control' = FALSE
  /\ main' = "wait_stop"
  /\ UNCHANGED <<step, run_status, held, own, s, uaf, clean, boots>>

MainReturns ==
  /\ main = "wait_stop" /\ ~run_status
  /\ ProcessEnds
  /\ UNCHANGED <<step, run_control, run_status, s, uaf, clean, boots>>

\* The program is started again.
Boot ==
  /\ main = "done" /\ boots < MaxBoots
  /\ boots' = boots + 1
  /\ main' = "wait_run" /\ step' = Head(Program)
  /\ run_control' = TRUE /\ run_status' = FALSE
  /\ s' = "null"
  /\ UNCHANGED <<held, own, uaf, clean>>

Thread ==
  \/ Succeed \/ Fail \/ UdcMissing \/ DescsRefused
  \/ Running \/ LeaveLoop \/ LoopError \/ ClearStatus \/ ThreadReturns

Main == MainSeesRunning \/ MainStops \/ MainReturns

Next == Thread \/ Main \/ Die \/ Boot

Spec == Init /\ [][Next]_vars

\* Two threads, each of which runs whenever it can.
FairSpec == Spec /\ WF_vars(Thread) /\ WF_vars(Main)

----------------------------------------------------------------------------
\* Every variable has its type.
TypeOK ==
  /\ main \in {"wait_run", "count", "wait_stop", "done"}
  /\ step \in ToSet(Program) \cup Left
  /\ run_control \in BOOLEAN /\ run_status \in BOOLEAN
  /\ held \subseteq Outlasting
  /\ own \subseteq FfsFiles \cup {"eventfd", "descs", "strings", "aio"}
  /\ s \in {"null", "live", "freed"}
  /\ uaf \in BOOLEAN /\ clean \in BOOLEAN
  /\ boots \in 1..MaxBoots

\* main, whose locals the service object and both flags are, never returns while the
\* detached thread has still to use one of them: run_status did not go up and down
\* behind main's back, and nothing but the return is left when it falls.  main may well
\* return before the thread does.
LocalsOutliveUse == main = "done" => step \in Left

\* A program that has run without a failure leaves nothing that refuses the next
\* one: no gadget, no mount, no binding; and of its own only the eventfd.
CleanExit ==
  clean /\ step \in Left => held \subseteq {"path"} /\ own \subseteq {"eventfd"}

\* FunctionFS is mounted under every endpoint file, and bound to a UDC only while
\* the driver knows its descriptors and the files are open: neither init() nor cleanup()
\* has two steps swapped, and the failure that init() only logs stops it later.
FilesUnderMount ==
  Alive =>
    /\ own \cap FfsFiles # {} => "mount" \in held
    /\ "bound" \in held => FfsFiles \cup {"descs", "strings", "aio"} \subseteq own

\* The gadget is used, and the usbg_state freed, only while it is there, also on
\* the ways out of a cleanup() that failed (a missing UDC is another matter: init()
\* then frees the state, returns true, and goes on to enable the gadget).
NoUseAfterFree == ~uaf

\* main never waits for what is past: while nothing has failed, the routine is on its way
\* to raising run_status when main waits for it; and a routine that is through has
\* lowered it, when main waits for that, even where its cleanup failed.
Ahead == {Program[i] : i \in 1..17}       \* the steps of init(), and "run"

NoWaitInVain ==
  /\ main = "wait_run" /\ clean => run_control /\ step \in Ahead
  /\ main = "wait_stop" /\ step \in Left => ~run_status

H == INSTANCE Handshake WITH
       control <- run_control, status <- run_status, over <- step \in Left

\* Whatever step of it fails, from the first program to the last, the routine does with
\* the two flags only what Handshake may do: run_status falls behind the last step of
\* cleanup(), and with run_control down.
KeepsHandshake == H!Spec

\* A program started on a clean system ends.
MainEnds == main = "wait_run" /\ clean ~> main = "done"
=============================================================================
