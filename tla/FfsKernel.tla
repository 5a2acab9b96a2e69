---------------------------- MODULE FfsKernel ----------------------------
(***************************************************************************)
(* What stands on the other side of the descriptors the service opens: the *)
(* FunctionFS driver with its event queue, the AIO context, the eventfd     *)
(* they both signal, the IN and OUT endpoints, and the USB host.  None of   *)
(* this is in the repository; it is modelled from how functionfs::handler   *)
(* uses it and from the kernel log kept in Readme.md.                       *)
(*                                                                          *)
(* A packet of the host is a number (the first accepted is 1); 0 is the     *)
(* zero-filled buffer.  A packet of the device is <<reply, part>>.          *)
(***************************************************************************)
EXTENDS Naturals, Sequences, SequencesExt

CONSTANTS
  MaxSend,      \* bound: packets the host sends
  MaxReset,     \* bound: times the host resets or unconfigures the device
  MaxNotify,    \* bound: bus notifications (SUSPEND stands for RESUME, SETUP)
  AioSlots      \* requests the AIO context holds until they are harvested

ASSUME BoundsAssumption ==
  /\ MaxSend \in Nat
  /\ MaxReset \in Nat
  /\ MaxNotify \in Nat
  /\ AioSlots \in Nat \ {0}

VARIABLES
  bound,        \* the gadget is bound to its UDC
  epOn,         \* the host has configured the device: the endpoints work
  evq,          \* events to be read from ep0
  efd,          \* the eventfd counter is not zero
  outq,         \* read requests queued on the OUT endpoint
  inq,          \* write requests queued on the IN endpoint
  ring,         \* completions io_getevents has not returned yet
  buf,          \* memory of buf_read_host, where every read puts its data
  nsub,         \* requests submitted so far; the tag of the last one
  sent,         \* packets the endpoint has accepted from the host
  hostGot,      \* packets the host has received, in order
  resets, notifies

hostVars == <<sent, hostGot, resets, notifies>>
kernelVars == <<bound, epOn, evq, efd, outq, inq, ring, buf, nsub, hostVars>>

StateEvents == {"BIND", "UNBIND", "ENABLE", "DISABLE"}
Events == StateEvents \cup {"SUSPEND"}

(***************************************************************************)
(* The driver keeps at most one event of a kind.  A state event discards    *)
(* everything queued but power management, a notification only its like.    *)
(***************************************************************************)
Superseded(e) == IF e = "SUSPEND" THEN {"SUSPEND"} ELSE StateEvents

AddEvent(q, e) ==
  LET kept == ToSet(q) \ Superseded(e)      \* one event of the other kind at most
  IN IF kept = {} THEN <<e>> ELSE <<CHOOSE x \in kept : TRUE, e>>

StateEventQueued == ToSet(evq) \cap StateEvents # {}

Completion(req, good) == [tag |-> req.tag, op |-> req.op, ok |-> good]

\* Every request queued on an endpoint that goes away completes with an error.
Cancelled(q) == [i \in DOMAIN q |-> Completion(q[i], FALSE)]

SlotsInUse == Len(outq) + Len(inq) + Len(ring)

ReadRequest(t) == [tag |-> t, op |-> "read"]
WriteRequest(t, pkt) == [tag |-> t, op |-> "write", pkt |-> pkt]

KernelInit ==
  /\ bound = TRUE /\ epOn = FALSE
  /\ evq = <<"BIND">> /\ efd = TRUE
  /\ outq = <<>> /\ inq = <<>> /\ ring = <<>>
  /\ buf = 0 /\ nsub = 0
  /\ sent = 0 /\ hostGot = <<>> /\ resets = 0 /\ notifies = 0

----------------------------------------------------------------------------
\* The endpoints stop; the two sets of completions arrive in either order.
Shutdown ==
  /\ epOn' = FALSE
  /\ outq' = <<>> /\ inq' = <<>>
  /\ ring' \in {ring \o Cancelled(outq) \o Cancelled(inq),
                ring \o Cancelled(inq) \o Cancelled(outq)}

Signal(e) == evq' = AddEvent(evq, e) /\ efd' = TRUE

\* The host selects the configuration.
HostConfigure ==
  /\ bound /\ ~epOn
  /\ epOn' = TRUE
  /\ Signal("ENABLE")
  /\ UNCHANGED <<bound, outq, inq, ring, buf, nsub, hostVars>>

\* Bus reset, or the cable is pulled.
HostReset ==
  /\ epOn /\ resets < MaxReset
  /\ resets' = resets + 1
  /\ Shutdown
  /\ Signal("DISABLE")
  /\ UNCHANGED <<bound, buf, nsub, sent, hostGot, notifies>>

\* A notification that changes no endpoint.
HostNotify ==
  /\ bound /\ notifies < MaxNotify
  /\ notifies' = notifies + 1
  /\ Signal("SUSPEND")
  /\ UNCHANGED <<bound, epOn, outq, inq, ring, buf, nsub, sent, hostGot, resets>>

\* The OUT endpoint takes a packet only into a queued read; until there is one
\* the host is told to wait.
HostSend ==
  /\ epOn /\ outq # <<>> /\ sent < MaxSend
  /\ sent' = sent + 1
  /\ buf' = sent + 1
  /\ outq' = Tail(outq)
  /\ ring' = Append(ring, Completion(Head(outq), TRUE))
  /\ efd' = TRUE
  /\ UNCHANGED <<bound, epOn, evq, inq, nsub, hostGot, resets, notifies>>

\* The host polls the IN endpoint.
HostRecv ==
  /\ epOn /\ inq # <<>>
  /\ hostGot' = Append(hostGot, Head(inq).pkt)
  /\ inq' = Tail(inq)
  /\ ring' = Append(ring, Completion(Head(inq), TRUE))
  /\ efd' = TRUE
  /\ UNCHANGED <<bound, epOn, evq, outq, buf, nsub, sent, resets, notifies>>

Host == HostConfigure \/ HostReset \/ HostNotify \/ HostSend \/ HostRecv

----------------------------------------------------------------------------
\* io_submit: it waits for the endpoint to be enabled, and refuses when the
\* context is full.
SubmitRead ==
  /\ SlotsInUse < AioSlots /\ epOn
  /\ nsub' = nsub + 1
  /\ outq' = Append(outq, ReadRequest(nsub + 1))
  /\ UNCHANGED <<bound, epOn, evq, efd, inq, ring, buf, hostVars>>

SubmitWrite(pkt) ==
  /\ SlotsInUse < AioSlots /\ epOn
  /\ nsub' = nsub + 1
  /\ inq' = Append(inq, WriteRequest(nsub + 1, pkt))
  /\ UNCHANGED <<bound, epOn, evq, efd, outq, ring, buf, hostVars>>

SubmitRefused ==
  /\ SlotsInUse = AioSlots
  /\ UNCHANGED kernelVars

\* io_getevents returns the oldest completion.
GetEvent ==
  /\ ring # <<>>
  /\ ring' = Tail(ring)
  /\ UNCHANGED <<bound, epOn, evq, efd, outq, inq, buf, nsub, hostVars>>

\* The gadget is unbound from its UDC.
Unbind ==
  /\ bound' = FALSE
  /\ Shutdown
  /\ Signal("UNBIND")
  /\ UNCHANGED <<buf, nsub, hostVars>>
=============================================================================
