---------------------------- MODULE UsbService ----------------------------
(***************************************************************************)
(* BOOTLOADER::usb_service_routine after init() has returned true, with the *)
(* calls it makes into functionfs::handler, against the driver and the host *)
(* of FfsKernel.  One thread: pc names the call it is about to make.        *)
(*                                                                          *)
(*   top    head of the inner loop      parse  parse, build the Features   *)
(*   mgmt   select                      wsub   io_submit of write_host      *)
(*   ctrl   read of ep0                 wwait  io_getevents of write_host   *)
(*   drain  read of the eventfd         out    cfs_h.disable in cleanup()   *)
(*   rprep  read_host zeroes the buffer close  ffs, aio and cfs cleanup     *)
(*   rsub   io_submit of read_host      exit   run_status = false           *)
(*   rwait  io_getevents of read_host   returned, dead                      *)
(*                                                                          *)
(* In "returned" and "dead" the return is left, or nothing is: see Left in  *)
(* Lifecycle.                                                               *)
(***************************************************************************)
EXTENDS FfsKernel

CONSTANTS
  MayTimeout,    \* io_getevents may give up before a completion arrives
  PromptStop,    \* main asks to stop before it can: 20 s of main.cpp, 60 s of a wait
  Faults,        \* the calls that may fail
  ReplyPackets   \* packets of a composed Features message (two for 84 bytes)

FaultPoints == {"select", "ctrl", "eventfd", "disable", "cleanup"}

ASSUME ServiceAssumption ==
  /\ MayTimeout \in BOOLEAN /\ PromptStop \in BOOLEAN
  /\ Faults \subseteq FaultPoints
  /\ ReplyPackets \in Nat \ {0}

VARIABLES
  pc,
  run_control,   \* shared with main: false asks the routine to stop
  run_status,    \* shared with main: the routine is running
  ffs_enabled,
  ffs_binded,
  rfds,          \* what the last select found readable
  part,          \* the packet of the reply being written
  processed,     \* history: the contents of the buffer at each parse
  opened         \* descriptors, mount and AIO context are held

svcVars == <<pc, run_control, run_status, ffs_enabled, ffs_binded, rfds, part,
             processed, opened>>
vars == <<kernelVars, svcVars>>

PCs == {"top", "mgmt", "ctrl", "drain", "rprep", "rsub", "rwait", "parse",
        "wsub", "wwait", "out", "close", "exit", "returned", "dead"}

Init ==
  /\ KernelInit
  /\ pc = "top"
  /\ run_control = TRUE /\ run_status = FALSE
  /\ ffs_enabled = FALSE /\ ffs_binded = FALSE
  /\ rfds = {} /\ part = 1
  /\ processed = <<>>
  /\ opened = TRUE

Goto(l) == pc' = l

\* A failed call ends the service: run_control = false, and out of the loop.
GiveUp(l) == run_control' = FALSE /\ Goto(l)

----------------------------------------------------------------------------
\* Mutant: cleanup() forgets to disable the gadget.
LoopHeadStaysBound ==
  /\ pc = "top"
  /\ IF run_control THEN run_status' = TRUE /\ Goto("mgmt")
                    ELSE Goto("close") /\ UNCHANGED run_status
  /\ UNCHANGED <<kernelVars, run_control, ffs_enabled, ffs_binded, rfds, part,
                 processed, opened>>

\* Mutant: the loop does not look at run_control.
LoopHeadForever ==
  /\ pc = "top"
  /\ run_status' = TRUE
  /\ Goto("mgmt")
  /\ UNCHANGED <<kernelVars, run_control, ffs_enabled, ffs_binded, rfds, part,
                 processed, opened>>

\* Mutant: run_status follows run_control, and falls before the cleanup.
LoopHeadFollows ==
  /\ pc = "top"
  /\ run_status' = run_control
  /\ Goto(IF run_control THEN "mgmt" ELSE "out")
  /\ UNCHANGED <<kernelVars, run_control, ffs_enabled, ffs_binded, rfds, part,
                 processed, opened>>

\* while ( run_control ) { run_status = true; ...
LoopHead ==
  /\ pc = "top"
  /\ IF run_control THEN run_status' = TRUE /\ Goto("mgmt")
                    ELSE Goto("out") /\ UNCHANGED run_status
  /\ UNCHANGED <<kernelVars, run_control, ffs_enabled, ffs_binded, rfds, part,
                 processed, opened>>

Readable == {fd \in {"ctrl", "efd"} : IF fd = "ctrl" THEN evq # <<>> ELSE efd}

\* select reports what is readable; a descriptor that becomes readable while
\* it scans may be left out.
Select ==
  /\ pc = "mgmt"
  /\ rfds' \in (SUBSET Readable) \ {{}}
  /\ Goto("ctrl")
  /\ UNCHANGED <<kernelVars, run_control, run_status, ffs_enabled, ffs_binded,
                 part, processed, opened>>

SelectTimeout ==
  /\ pc = "mgmt" /\ Readable = {}
  /\ Goto("top")
  /\ UNCHANGED <<kernelVars, run_control, run_status, ffs_enabled, ffs_binded,
                 rfds, part, processed, opened>>

SelectError ==
  /\ pc = "mgmt" /\ "select" \in Faults
  /\ GiveUp("out")
  /\ UNCHANGED <<kernelVars, run_status, ffs_enabled, ffs_binded, rfds, part,
                 processed, opened>>

\* Mutant: FUNCTIONFS_DISABLE is only logged.
EnabledAfterEnableOnly(e) == IF e = "ENABLE" THEN TRUE ELSE ffs_enabled

\* process_control_event: the notifications are only logged.
BindedAfter(e) ==
  CASE e = "BIND" -> TRUE [] e = "UNBIND" -> FALSE [] OTHER -> ffs_binded
EnabledAfter(e) ==
  CASE e = "ENABLE" -> TRUE [] e = "DISABLE" -> FALSE [] OTHER -> ffs_enabled

\* Nothing more is done in this turn unless the device is enabled and select
\* had found the eventfd readable.
AfterControl(enabled) == IF enabled /\ "efd" \in rfds THEN "drain" ELSE "top"

ReadControl ==
  /\ pc = "ctrl" /\ "ctrl" \in rfds /\ evq # <<>>
  /\ evq' = Tail(evq)
  /\ ffs_binded' = BindedAfter(Head(evq))
  /\ ffs_enabled' = EnabledAfter(Head(evq))
  /\ Goto(AfterControl(ffs_enabled'))
  /\ UNCHANGED <<bound, epOn, efd, outq, inq, ring, buf, nsub, hostVars,
                 run_control, run_status, rfds, part, processed, opened>>

NoControl ==
  /\ pc = "ctrl" /\ "ctrl" \notin rfds
  /\ Goto(AfterControl(ffs_enabled))
  /\ UNCHANGED <<kernelVars, run_control, run_status, ffs_enabled, ffs_binded,
                 rfds, part, processed, opened>>

ReadControlError ==
  /\ pc = "ctrl" /\ "ctrl" \in rfds /\ "ctrl" \in Faults
  /\ GiveUp("out")
  /\ UNCHANGED <<kernelVars, run_status, ffs_enabled, ffs_binded, rfds, part,
                 processed, opened>>

\* read_eventfd takes the whole count, however many completions it stands for.
DrainEventfd ==
  /\ pc = "drain" /\ efd
  /\ efd' = FALSE
  /\ Goto("rprep")
  /\ UNCHANGED <<bound, epOn, evq, outq, inq, ring, buf, nsub, hostVars,
                 run_control, run_status, ffs_enabled, ffs_binded, rfds, part,
                 processed, opened>>

\* The one failure that returns on the spot, with run_status still true.
DrainError ==
  /\ pc = "drain" /\ "eventfd" \in Faults
  /\ GiveUp("dead")
  /\ UNCHANGED <<kernelVars, run_status, ffs_enabled, ffs_binded, rfds, part,
                 processed, opened>>

----------------------------------------------------------------------------
\* Mutant: the buffer has its size already and keeps its contents.
PrepareReadKeeps ==
  /\ pc = "rprep"
  /\ Goto("rsub")
  /\ UNCHANGED <<kernelVars, run_control, run_status, ffs_enabled, ffs_binded,
                 rfds, part, processed, opened>>

\* buffer.clear(); buffer.resize(64): the same memory, zero-filled.
PrepareRead ==
  /\ pc = "rprep"
  /\ buf' = 0
  /\ Goto("rsub")
  /\ UNCHANGED <<bound, epOn, evq, efd, outq, inq, ring, nsub, hostVars,
                 run_control, run_status, ffs_enabled, ffs_binded, rfds, part,
                 processed, opened>>

\* Mutant: read_host waits although io_submit has refused the request.
SubmitReadHostUnchecked ==
  /\ pc = "rsub"
  /\ SubmitRead \/ SubmitRefused
  /\ Goto("rwait")
  /\ UNCHANGED <<run_control, run_status, ffs_enabled, ffs_binded, rfds, part,
                 processed, opened>>

SubmitReadHost ==
  /\ pc = "rsub"
  /\ \/ SubmitRead /\ Goto("rwait")
     \/ SubmitRefused /\ Goto("top")
  /\ UNCHANGED <<run_control, run_status, ffs_enabled, ffs_binded, rfds, part,
                 processed, opened>>

\* Mutant: read_host takes whatever completion it gets.
ReadMatchesAny(c) == c.ok

\* read_host compares the operation and the descriptor of the completion, not
\* the request, and wants a result that is not negative.
ReadMatches(c) == c.op = "read" /\ c.ok

\* Mutant: the buffer is cleared once more after the read.
HarvestReadCleared ==
  /\ pc = "rwait" /\ ring # <<>>
  /\ ring' = Tail(ring)
  /\ buf' = 0
  /\ Goto(IF ReadMatches(Head(ring)) THEN "parse" ELSE "top")
  /\ UNCHANGED <<bound, epOn, evq, efd, outq, inq, nsub, hostVars, run_control,
                 run_status, ffs_enabled, ffs_binded, rfds, part, processed, opened>>

HarvestRead ==
  /\ pc = "rwait"
  /\ GetEvent
  /\ Goto(IF ReadMatches(Head(ring)) THEN "parse" ELSE "top")
  /\ UNCHANGED <<run_control, run_status, ffs_enabled, ffs_binded, rfds, part,
                 processed, opened>>

\* io_getevents returns 0: read_host fails, its request stays queued.
ReadTimeout ==
  /\ pc = "rwait" /\ MayTimeout /\ ring = <<>>
  /\ PromptStop => ~run_control
  /\ Goto("top")
  /\ UNCHANGED <<kernelVars, run_control, run_status, ffs_enabled, ffs_binded,
                 rfds, part, processed, opened>>

\* The parser sees the buffer; whatever it makes of it, a Features message is
\* composed.
ParseAndCompose ==
  /\ pc = "parse"
  /\ processed' = Append(processed, buf)
  /\ part' = 1
  /\ Goto("wsub")
  /\ UNCHANGED <<kernelVars, run_control, run_status, ffs_enabled, ffs_binded,
                 rfds, opened>>

\* Mutant: the loop over the packets runs once more.
NextPartOneMore ==
  IF part <= ReplyPackets THEN part' = part + 1 /\ Goto("wsub")
                          ELSE UNCHANGED part /\ Goto("top")

\* Mutant: the loop over the packets leaves the last one out.
NextPartOneLess ==
  IF part + 1 < ReplyPackets THEN part' = part + 1 /\ Goto("wsub")
                             ELSE UNCHANGED part /\ Goto("top")

\* for ( auto mcomposed : mcomposed_list ): the result of write_host is unused.
NextPart ==
  IF part < ReplyPackets THEN part' = part + 1 /\ Goto("wsub")
                         ELSE UNCHANGED part /\ Goto("top")

\* Mutant: write_host does not wait for its completion.
SubmitWriteHostNoWait ==
  /\ pc = "wsub"
  /\ \/ SubmitWrite(<<Len(processed), part>>)
     \/ SubmitRefused
  /\ NextPart
  /\ UNCHANGED <<run_control, run_status, ffs_enabled, ffs_binded, rfds,
                 processed, opened>>

SubmitWriteHost ==
  /\ pc = "wsub"
  /\ \/ SubmitWrite(<<Len(processed), part>>) /\ Goto("wwait") /\ UNCHANGED part
     \/ SubmitRefused /\ NextPart
  /\ UNCHANGED <<run_control, run_status, ffs_enabled, ffs_binded, rfds,
                 processed, opened>>

\* Mutant: write_host reads the eventfd as well.
HarvestWriteDrained ==
  /\ pc = "wwait" /\ ring # <<>>
  /\ ring' = Tail(ring)
  /\ efd' = FALSE
  /\ NextPart
  /\ UNCHANGED <<bound, epOn, evq, outq, inq, buf, nsub, hostVars, run_control,
                 run_status, ffs_enabled, ffs_binded, rfds, processed, opened>>

\* Mutant: io_getevents is asked for no completion at least, and does not wait.
HarvestWritePoll ==
  /\ pc = "wwait"
  /\ IF ring = <<>> THEN UNCHANGED kernelVars ELSE GetEvent
  /\ NextPart
  /\ UNCHANGED <<run_control, run_status, ffs_enabled, ffs_binded, rfds,
                 processed, opened>>

HarvestWrite ==
  /\ pc = "wwait"
  /\ GetEvent
  /\ NextPart
  /\ UNCHANGED <<run_control, run_status, ffs_enabled, ffs_binded, rfds,
                 processed, opened>>

\* Mutant: a write that times out is submitted again.
WriteTimeoutRetry ==
  /\ pc = "wwait" /\ MayTimeout /\ ring = <<>>
  /\ PromptStop => ~run_control
  /\ Goto("wsub")
  /\ UNCHANGED <<kernelVars, run_control, run_status, ffs_enabled, ffs_binded,
                 rfds, part, processed, opened>>

WriteTimeout ==
  /\ pc = "wwait" /\ MayTimeout /\ ring = <<>>
  /\ PromptStop => ~run_control
  /\ NextPart
  /\ UNCHANGED <<kernelVars, run_control, run_status, ffs_enabled, ffs_binded,
                 rfds, processed, opened>>
----------------------------------------------------------------------------
\* cleanup(): disable the gadget, then release the rest.
DisableGadget ==
  /\ pc = "out"
  /\ Unbind
  /\ Goto("close")
  /\ UNCHANGED <<run_control, run_status, ffs_enabled, ffs_binded, rfds, part,
                 processed, opened>>

Release ==
  /\ pc = "close"
  /\ opened' = FALSE
  /\ Goto("exit")
  /\ UNCHANGED <<kernelVars, run_control, run_status, ffs_enabled, ffs_binded,
                 rfds, part, processed>>

\* cleanup() returns false and leaves what it has not reached.
CleanupError ==
  /\ \/ pc = "out" /\ "disable" \in Faults
     \/ pc = "close" /\ "cleanup" \in Faults
  /\ GiveUp("exit")
  /\ UNCHANGED <<kernelVars, run_status, ffs_enabled, ffs_binded, rfds, part,
                 processed, opened>>

Return ==
  /\ pc = "exit"
  /\ run_status' = FALSE
  /\ Goto("returned")
  /\ UNCHANGED <<kernelVars, run_control, ffs_enabled, ffs_binded, rfds, part,
                 processed, opened>>

\* main asks the routine to stop, having seen it run.  main.cpp does so twenty seconds
\* after that: with PromptStop no wait has ended by then.
StopRequest ==
  /\ run_status /\ run_control
  /\ run_control' = FALSE
  /\ UNCHANGED <<kernelVars, pc, run_status, ffs_enabled, ffs_binded, rfds,
                 part, processed, opened>>

Service ==
  \/ LoopHead \/ Select \/ SelectTimeout \/ SelectError
  \/ ReadControl \/ NoControl \/ ReadControlError
  \/ DrainEventfd \/ DrainError
  \/ PrepareRead \/ SubmitReadHost \/ HarvestRead \/ ReadTimeout
  \/ ParseAndCompose
  \/ SubmitWriteHost \/ HarvestWrite \/ WriteTimeout
  \/ DisableGadget \/ Release \/ CleanupError \/ Return

Next ==
  \/ Service
  \/ StopRequest
  \/ Host /\ UNCHANGED svcVars

Spec == Init /\ [][Next]_vars

\* The thread runs whenever it can, the host polls the IN endpoint and it
\* configures the device again after a reset.
Fairness ==
  /\ WF_vars(Service)
  /\ WF_vars(HostRecv /\ UNCHANGED svcVars)
  /\ WF_vars(HostConfigure /\ UNCHANGED svcVars)

FairSpec == Spec /\ Fairness

----------------------------------------------------------------------------
ReadRequests == [tag : Nat, op : {"read"}]
WriteRequests == [tag : Nat, op : {"write"}, pkt : Nat \X Nat]
Completions == [tag : Nat, op : {"read", "write"}, ok : BOOLEAN]

\* Every variable of the driver, the host and the routine has its type.
TypeOK ==
  /\ bound \in BOOLEAN /\ epOn \in BOOLEAN /\ efd \in BOOLEAN
  /\ evq \in Seq(Events)
  /\ outq \in Seq(ReadRequests) /\ inq \in Seq(WriteRequests)
  /\ ring \in Seq(Completions)
  /\ buf \in Nat /\ nsub \in Nat
  /\ sent \in 0..MaxSend /\ hostGot \in Seq(Nat \X Nat)
  /\ resets \in 0..MaxReset /\ notifies \in 0..MaxNotify
  /\ pc \in PCs
  /\ run_control \in BOOLEAN /\ run_status \in BOOLEAN
  /\ ffs_enabled \in BOOLEAN /\ ffs_binded \in BOOLEAN
  /\ rfds \subseteq {"ctrl", "efd"}
  /\ part \in 1..ReplyPackets
  /\ processed \in Seq(Nat)
  /\ opened \in BOOLEAN

\* "the result should always be ONE, not more, not less" and "should always
\* match the request we just submitted": what io_getevents is about to return
\* is the completion of the last request, and the only one there is.
ResultMatchesRequest ==
  pc \in {"rwait", "wwait"} /\ ring # <<>> =>
    Len(ring) = 1 /\ ring[1].tag = nsub

\* What reaches the parser is the packets of the host, whole and in order: the
\* buffer is neither cleared nor overwritten between the read and the parse.
ParsedInOrder == \A i \in DOMAIN processed : processed[i] = i

\* The parser is given every packet once: back at the head of the loop, nothing
\* the device accepted is still to be parsed.
EveryPacketParsedOnce ==
  ParsedInOrder /\ (pc = "top" => Len(processed) = sent)

\* The routine's I/O is synchronous: a request exists only while its caller
\* waits, it is the last one submitted, and it is queued or completed.
Outstanding(q, req) ==
  \/ q = <<req>> /\ ring = <<>>
  \/ q = <<>> /\ \E good \in BOOLEAN : ring = <<Completion(req, good)>>

OneRequest ==
  /\ pc = "rwait" => inq = <<>> /\ Outstanding(outq, ReadRequest(nsub))
  /\ pc = "wwait" =>
       outq = <<>> /\ Outstanding(inq, WriteRequest(nsub, <<Len(processed), part>>))
  /\ pc \notin {"rwait", "wwait"} => outq = <<>> /\ inq = <<>> /\ ring = <<>>

\* A packet has been accepted that the parser has not been given yet.
Landed == pc = "parse" \/ (pc = "rwait" /\ ring # <<>> /\ ring[1].ok)

\* Packets accepted and packets parsed differ by that one, and it is in the
\* buffer.
Accounting ==
  /\ sent = Len(processed) + (IF Landed THEN 1 ELSE 0)
  /\ Landed => buf = sent

\* For as long as the routine is wanted, waits that may end harm nothing where main stops
\* it first: its I/O is synchronous, and no packet is lost or counted twice.
SoundWhileWanted == run_control => OneRequest /\ Accounting

\* ffs_enabled is what the endpoints are, but for an event still to be read,
\* whatever events the driver discarded from its queue.
FlagTracksKernel == ~StateEventQueued => ffs_enabled = epOn

\* While it is to run, the routine is never back at its select with the
\* endpoints up, the eventfd clear and no request queued whose completion would
\* set it: it would not hear the host again.
NeverDeaf ==
  pc = "top" /\ run_control /\ epOn /\ ~StateEventQueued =>
    efd \/ outq # <<>> \/ inq # <<>>

\* The descriptors and the mount are released only when the gadget is unbound
\* and no request is queued on an endpoint.
QuietWhenReleased == ~opened => ~bound /\ outq = <<>> /\ inq = <<>>

\* A reply is started only for a packet the host has sent: a failed or a
\* mismatched completion is never taken for a packet.
NoSpuriousReply == Len(processed) <= sent

\* A wait that timed out can cost packets, but the parser is never given one twice,
\* nor one after a later one: a completion taken for another's finds either a packet
\* that is new or the zeroes of the buffer.
Fresh(p, b) == p = 0 \/ b = 0 \/ p < b

ParsedAtMostOnce ==
  \A i, j \in DOMAIN processed : i < j => Fresh(processed[i], processed[j])

\* The packets of the replies reach the host in the order they were composed and
\* none twice, whatever timed out, was refused or was cut short by a reset.
Before(p, q) == p[1] < q[1] \/ (p[1] = q[1] /\ p[2] < q[2])

RepliesInOrder ==
  \A i \in 1..(Len(hostGot) - 1) : Before(hostGot[i], hostGot[i + 1])

\* A wait that timed out is never made good: its request outlives it, the next wait
\* harvests it in the place of its own, and a reset only completes it.  While the AIO
\* context exists, the requests it holds beyond the awaited one never become fewer.
Awaited == IF pc \in {"rwait", "wwait"} THEN 1 ELSE 0

BacklogKept == opened' => SlotsInUse + Awaited' <= SlotsInUse' + Awaited

NeverCatchesUp == [][BacklogKept]_vars

R == INSTANCE Responder WITH
       Parts <- ReplyPackets, taken <- sent, parsed <- processed, got <- hostGot

\* The routine, with the driver, the endpoints and the wakeups, does only what
\* Responder may do: packets are taken one at a time, parsed as they were sent, and
\* the reply reaches the host whole and in order before the next one is taken.
ImplementsResponder == R!Spec

H == INSTANCE Handshake WITH
       control <- run_control, status <- run_status, over <- pc \in {"returned", "dead"}

\* Towards main the routine, whatever fails or times out in it, does only what Handshake
\* may do: run_status does not fall before the routine has nothing left to do, and it
\* does not rise again after a request to stop.
KeepsHandshake == H!Spec

\* The steps the routine takes at most before it returns, once it is not to run.
Remaining ==
  CASE pc = "mgmt"   -> 11 + 2 * ReplyPackets
    [] pc = "ctrl"   -> 10 + 2 * ReplyPackets
    [] pc = "drain"  -> 9 + 2 * ReplyPackets
    [] pc = "rprep"  -> 8 + 2 * ReplyPackets
    [] pc = "rsub"   -> 7 + 2 * ReplyPackets
    [] pc = "rwait"  -> 6 + 2 * ReplyPackets
    [] pc = "parse"  -> 5 + 2 * ReplyPackets
    [] pc = "wsub"   -> 6 + 2 * (ReplyPackets - part)
    [] pc = "wwait"  -> 5 + 2 * (ReplyPackets - part)
    [] pc = "top"    -> 4
    [] pc = "out"    -> 3
    [] pc = "close"  -> 2
    [] pc = "exit"   -> 1
    [] OTHER         -> 0

\* A request to stop is never forgotten on the way out: with run_control down every
\* step of the routine is one of those few that are left, none goes back for another
\* packet, retries a write or raises run_control again.
StepsToTheEnd == ~run_control => ~run_control' /\ (UNCHANGED svcVars \/ Remaining' < Remaining)

StopGetsNearer == [][StepsToTheEnd]_vars

\* Every packet the device accepted is answered in full, unless the host resets
\* the device.
Answered == R!Answered(MaxSend)

\* Asked to stop, or stopping by itself, the routine returns, with its status cleared
\* for main to see; only where reading the eventfd fails it returns as it is.
StopHonoured == ~run_control ~> (pc = "returned" /\ ~run_status) \/ pc = "dead"
=============================================================================
