---------------------- MODULE UsbServiceFaultProofs -----------------------
(***************************************************************************)
(* What UsbService keeps for every value of its constants, failed calls and*)
(* timeouts included: the flag that follows the events, the order of the   *)
(* release, the order of the replies, their cause, that no packet is parsed*)
(* twice, and that the backlog of timed-out waits stays.                   *)
(***************************************************************************)
EXTENDS UsbServiceProofs

USE BoundsAssumption, ServiceAssumption

----------------------------------------------------------------------------
(* The event queue holds at most one state event and one notification. *)

EventQueues ==
  {<<>>, <<"SUSPEND">>}
    \cup {<<e>> : e \in StateEvents}
    \cup {<<"SUSPEND", e>> : e \in StateEvents}
    \cup {<<e, "SUSPEND">> : e \in StateEvents}

\* The state events that are still to be read.
Pending(q) == ToSet(q) \cap StateEvents

\* The events in each of the queues.
LEMMA QueueEvents ==
  /\ ToSet(<<>>) = {} /\ ToSet(<<"SUSPEND">>) = {"SUSPEND"}
  /\ \A e \in StateEvents : /\ ToSet(<<e>>) = {e}
                            /\ ToSet(<<"SUSPEND", e>>) = {"SUSPEND", e}
                            /\ ToSet(<<e, "SUSPEND">>) = {"SUSPEND", e}
<1>1. ToSet(<<>>) = {} /\ ToSet(<<"SUSPEND">>) = {"SUSPEND"}
  BY DEF ToSet
<1>2. ASSUME NEW e PROVE ToSet(<<e>>) = {e}
  BY DEF ToSet
<1>3. ASSUME NEW x, NEW y PROVE ToSet(<<x, y>>) = {x, y}
  <2>1. DOMAIN <<x, y>> = {1, 2}
    OBVIOUS
  <2> QED BY <2>1 DEF ToSet
<1> QED BY <1>1, <1>2, <1>3

\* What a queue holds.
LEMMA QueueContents ==
  ASSUME NEW q \in EventQueues
  PROVE  \/ ToSet(q) \subseteq {"SUSPEND"}
         \/ \E e \in StateEvents : ToSet(q) = {e} \/ ToSet(q) = {"SUSPEND", e}
<1>1. CASE q = <<>> \/ q = <<"SUSPEND">>
  BY <1>1, QueueEvents
<1>2. CASE \E e \in StateEvents : q = <<e>> \/ q = <<"SUSPEND", e>> \/ q = <<e, "SUSPEND">>
  BY <1>2, QueueEvents, Zenon
<1> QED BY <1>1, <1>2, Zenon DEF EventQueues

\* A state event is the only one that is left.
LEMMA AddStateEvent ==
  ASSUME NEW q \in EventQueues, NEW e \in StateEvents
  PROVE  AddEvent(q, e) \in EventQueues /\ Pending(AddEvent(q, e)) = {e}
<1> DEFINE kept == ToSet(q) \ Superseded(e)
<1>1. e # "SUSPEND" /\ "SUSPEND" \notin StateEvents
  BY DEF StateEvents
<1>2. kept \subseteq {"SUSPEND"}
  <2>1. Superseded(e) = StateEvents
    BY <1>1 DEF Superseded
  <2>2. ToSet(q) \subseteq StateEvents \cup {"SUSPEND"}
    BY QueueContents
  <2> QED BY <2>1, <2>2
<1>3. CASE kept = {}
  <2>1. AddEvent(q, e) = <<e>>
    BY <1>3 DEF AddEvent
  <2> QED BY <2>1, QueueEvents DEF EventQueues, Pending
<1>4. CASE kept = {"SUSPEND"}
  <2>1. (CHOOSE x \in kept : TRUE) = "SUSPEND"
    BY <1>4
  <2>2. AddEvent(q, e) = <<"SUSPEND", e>>
    BY <1>4, <2>1 DEF AddEvent
  <2>3. ToSet(<<"SUSPEND", e>>) = {"SUSPEND", e}
    BY QueueEvents
  <2>4. Pending(<<"SUSPEND", e>>) = {e}
    BY <1>1, <2>3 DEF Pending
  <2>5. <<"SUSPEND", e>> \in EventQueues
    BY DEF EventQueues
  <2> QED BY <2>2, <2>4, <2>5
<1> QED BY <1>2, <1>3, <1>4

\* A notification leaves the state event alone.
LEMMA AddNotification ==
  ASSUME NEW q \in EventQueues
  PROVE  /\ AddEvent(q, "SUSPEND") \in EventQueues
         /\ Pending(AddEvent(q, "SUSPEND")) = Pending(q)
<1> DEFINE kept == ToSet(q) \ Superseded("SUSPEND")
<1>1. "SUSPEND" \notin StateEvents /\ kept = ToSet(q) \ {"SUSPEND"}
  BY DEF StateEvents, Superseded
<1>2. CASE ToSet(q) \subseteq {"SUSPEND"}
  <2>1. kept = {} /\ Pending(q) = {}
    BY <1>1, <1>2 DEF Pending
  <2>2. AddEvent(q, "SUSPEND") = <<"SUSPEND">>
    BY <2>1 DEF AddEvent
  <2>3. Pending(<<"SUSPEND">>) = {}
    BY <1>1, QueueEvents DEF Pending
  <2> QED BY <2>1, <2>2, <2>3 DEF EventQueues
<1>3. ASSUME NEW e \in StateEvents, ToSet(q) = {e} \/ ToSet(q) = {"SUSPEND", e}
      PROVE  AddEvent(q, "SUSPEND") \in EventQueues
             /\ Pending(AddEvent(q, "SUSPEND")) = Pending(q)
  <2>1. kept = {e} /\ Pending(q) = {e}
    BY <1>1, <1>3 DEF Pending
  <2>2. kept # {} /\ (CHOOSE x \in kept : TRUE) = e
    BY <2>1
  <2>3. AddEvent(q, "SUSPEND") = <<e, "SUSPEND">>
    BY <2>2 DEF AddEvent
  <2>4. ToSet(<<e, "SUSPEND">>) = {"SUSPEND", e}
    BY QueueEvents
  <2>5. Pending(<<e, "SUSPEND">>) = {e}
    BY <1>1, <2>4 DEF Pending
  <2>6. <<e, "SUSPEND">> \in EventQueues
    BY DEF EventQueues
  <2> QED BY <2>1, <2>3, <2>5, <2>6
<1> QED BY <1>2, <1>3, QueueContents

\* Reading takes the state event, or the notification.
LEMMA ReadEvent ==
  ASSUME NEW q \in EventQueues, q # <<>>
  PROVE  /\ Tail(q) \in EventQueues
         /\ \/ Head(q) = "SUSPEND" /\ Pending(Tail(q)) = Pending(q)
            \/ Head(q) \in StateEvents /\ Pending(q) = {Head(q)} /\ Pending(Tail(q)) = {}
<1>1. "SUSPEND" \notin StateEvents
  BY DEF StateEvents
<1>2. Pending(<<>>) = {} /\ Pending(<<"SUSPEND">>) = {}
  BY <1>1, QueueEvents DEF Pending
<1>3. CASE q = <<"SUSPEND">>
  <2>1. Head(q) = "SUSPEND" /\ Tail(q) = <<>>
    BY <1>3
  <2> QED BY <1>2, <1>3, <2>1 DEF EventQueues
<1>4. ASSUME NEW e \in StateEvents,
             q = <<e>> \/ q = <<"SUSPEND", e>> \/ q = <<e, "SUSPEND">>
      PROVE  /\ Tail(q) \in EventQueues
             /\ \/ Head(q) = "SUSPEND" /\ Pending(Tail(q)) = Pending(q)
                \/ Head(q) \in StateEvents /\ Pending(q) = {Head(q)}
                     /\ Pending(Tail(q)) = {}
  <2>1. ToSet(q) = {e} \/ ToSet(q) = {"SUSPEND", e}
    BY <1>4, QueueEvents
  <2>2. Pending(q) = {e}
    BY <1>1, <2>1 DEF Pending
  <2>3. ToSet(<<e>>) = {e}
    BY QueueEvents
  <2>4. Pending(<<e>>) = {e}
    BY <2>3 DEF Pending
  <2>5. CASE q = <<e>>
    <3>1. Head(q) = e /\ Tail(q) = <<>>
      BY <2>5
    <3> QED BY <1>2, <2>2, <3>1 DEF EventQueues
  <2>6. CASE q = <<"SUSPEND", e>>
    <3>1. Head(q) = "SUSPEND" /\ Tail(q) = <<e>>
      BY <2>6
    <3> QED BY <2>2, <2>4, <3>1 DEF EventQueues
  <2>7. CASE q = <<e, "SUSPEND">>
    <3>1. Head(q) = e /\ Tail(q) = <<"SUSPEND">>
      BY <2>7
    <3> QED BY <1>2, <2>2, <3>1 DEF EventQueues
  <2> QED BY <1>4, <2>5, <2>6, <2>7
<1> QED BY <1>3, <1>4, Zenon DEF EventQueues

----------------------------------------------------------------------------
(* ffs_enabled follows the endpoints. *)

\* A state event in the queue tells what has become of the endpoints since
\* ffs_enabled was last set.  UNBIND is queued when nothing is read any more.
EventsTell ==
  /\ evq \in EventQueues
  /\ "BIND" \in Pending(evq) => ~epOn /\ ~ffs_enabled
  /\ "ENABLE" \in Pending(evq) => epOn
  /\ "DISABLE" \in Pending(evq) => ~epOn
  /\ "UNBIND" \in Pending(evq) => pc \in {"close", "exit", "returned"}

\* The conjunction that is inductive.
EInv == TypeOK /\ EventsTell /\ FlagTracksKernel

\* A new state event that tells the truth is all there is to know.
LEMMA StateEventTells ==
  ASSUME EInv, NEW e \in StateEvents, Signal(e), TypeOK'
  PROVE  evq' \in EventQueues /\ Pending(evq') = {e} /\ FlagTracksKernel'
  BY AddStateEvent DEF EInv, EventsTell, Signal, FlagTracksKernel, StateEventQueued,
     Pending

\* Every step of the host keeps it.
LEMMA HostEvents ==
  ASSUME EInv, Host, UNCHANGED svcVars
  PROVE  EInv'
<1> USE DEF svcVars
<1>1. TypeOK'
  BY HostType DEF EInv
<1>2. CASE HostConfigure
  <2>1. evq' \in EventQueues /\ Pending(evq') = {"ENABLE"} /\ FlagTracksKernel'
    BY <1>1, <1>2, StateEventTells DEF HostConfigure, StateEvents
  <2> QED BY <1>1, <1>2, <2>1 DEF EInv, EventsTell, HostConfigure
<1>3. CASE HostReset
  <2>1. evq' \in EventQueues /\ Pending(evq') = {"DISABLE"} /\ FlagTracksKernel'
    BY <1>1, <1>3, StateEventTells DEF HostReset, StateEvents
  <2> QED BY <1>1, <1>3, <2>1 DEF EInv, EventsTell, HostReset, Shutdown
<1>4. CASE HostNotify
  <2>1. evq' \in EventQueues /\ Pending(evq') = Pending(evq)
    BY <1>4, AddNotification DEF EInv, EventsTell, HostNotify, Signal
  <2> QED BY <1>1, <1>4, <2>1 DEF EInv, EventsTell, FlagTracksKernel,
             StateEventQueued, Pending, HostNotify
<1>5. CASE HostSend \/ HostRecv
  BY <1>1, <1>5 DEF EInv, EventsTell, FlagTracksKernel, StateEventQueued,
     HostSend, HostRecv
<1> QED BY <1>2, <1>3, <1>4, <1>5 DEF Host

\* The only step of the routine that reads the queue.
LEMMA ReadControlEvents ==
  ASSUME EInv, ReadControl
  PROVE  EInv'
<1>1. TypeOK'
  BY ServiceType DEF EInv, Service
<1>2. /\ Tail(evq) \in EventQueues
      /\ \/ Head(evq) = "SUSPEND" /\ Pending(Tail(evq)) = Pending(evq)
         \/ /\ Head(evq) \in StateEvents
            /\ Pending(evq) = {Head(evq)} /\ Pending(Tail(evq)) = {}
  BY ReadEvent DEF EInv, EventsTell, ReadControl
<1>3. "SUSPEND" \notin StateEvents
  BY DEF StateEvents
<1>4. CASE Head(evq) = "SUSPEND" /\ Pending(Tail(evq)) = Pending(evq)
  <2>1. ffs_enabled' = ffs_enabled /\ evq' = Tail(evq) /\ epOn' = epOn
    BY <1>4 DEF ReadControl, EnabledAfter
  <2>2. pc = "ctrl"
    BY DEF ReadControl
  <2> QED BY <1>1, <1>2, <1>4, <2>1, <2>2 DEF EInv, EventsTell, FlagTracksKernel,
             StateEventQueued, Pending
<1>5. CASE /\ Head(evq) \in StateEvents
           /\ Pending(evq) = {Head(evq)} /\ Pending(Tail(evq)) = {}
  <2>1. evq' = Tail(evq) /\ epOn' = epOn /\ pc = "ctrl"
        /\ ffs_enabled' = EnabledAfter(Head(evq))
    BY DEF ReadControl
  <2>2. Head(evq) # "UNBIND"
    BY <1>5, <2>1 DEF EInv, EventsTell
  <2>3. ffs_enabled' = epOn
    BY <1>5, <2>1, <2>2 DEF EInv, TypeOK, EventsTell, EnabledAfter, StateEvents
  <2> QED BY <1>1, <1>2, <1>5, <2>1, <2>3 DEF EInv, EventsTell, FlagTracksKernel
<1> QED BY <1>2, <1>4, <1>5

\* Every step of the routine keeps it.
LEMMA ServiceEvents ==
  ASSUME EInv, Service
  PROVE  EInv'
<1> USE DEF EInv, EventsTell, FlagTracksKernel, StateEventQueued, kernelVars, hostVars,
            Goto, GiveUp
<1>1. TypeOK'
  BY ServiceType
<1>2. CASE LoopHead \/ Select \/ SelectTimeout \/ SelectError
  BY <1>1, <1>2 DEF LoopHead, Select, SelectTimeout, SelectError
<1>3. CASE ReadControl
  BY <1>3, ReadControlEvents
<1>4. CASE NoControl \/ ReadControlError \/ DrainEventfd \/ DrainError
  BY <1>1, <1>4 DEF NoControl, ReadControlError, DrainEventfd, DrainError
<1>5. CASE PrepareRead \/ SubmitReadHost
  BY <1>1, <1>5 DEF PrepareRead, SubmitReadHost, SubmitRead, SubmitRefused
<1>6. CASE HarvestRead \/ ReadTimeout \/ ParseAndCompose
  BY <1>1, <1>6 DEF HarvestRead, GetEvent, ReadTimeout, ParseAndCompose
<1>7. CASE SubmitWriteHost
  BY <1>1, <1>7 DEF SubmitWriteHost, SubmitWrite, SubmitRefused, NextPart
<1>8. CASE HarvestWrite \/ WriteTimeout
  BY <1>1, <1>8 DEF HarvestWrite, WriteTimeout, GetEvent, NextPart
<1>9. CASE DisableGadget
  <2>1. evq' \in EventQueues /\ Pending(evq') = {"UNBIND"} /\ FlagTracksKernel'
    BY <1>1, <1>9, StateEventTells DEF DisableGadget, Unbind, StateEvents
  <2> QED BY <1>1, <1>9, <2>1 DEF DisableGadget
<1>10. CASE Release \/ CleanupError \/ Return
  BY <1>1, <1>10 DEF Release, CleanupError, Return
<1> QED
  BY <1>2, <1>3, <1>4, <1>5, <1>6, <1>7, <1>8, <1>9, <1>10 DEF Service

\* ffs_enabled is what the endpoints are once the state event, if there is one,
\* is read: the events the driver discards are never missed.
THEOREM FlagFollows == Spec => []FlagTracksKernel
<1>1. Init => EInv
  <2> SUFFICES ASSUME Init PROVE EInv
    OBVIOUS
  <2>1. TypeOK
    BY InitType
  <2>2. evq \in EventQueues /\ Pending(evq) = {"BIND"}
    BY QueueEvents DEF Init, KernelInit, EventQueues, Pending, StateEvents
  <2> QED BY <2>1, <2>2 DEF Init, KernelInit, EInv, EventsTell, FlagTracksKernel
<1>2. EInv /\ [Next]_vars => EInv'
  <2> SUFFICES ASSUME EInv, [Next]_vars PROVE EInv'
    OBVIOUS
  <2>1. TypeOK'
    BY NextType DEF EInv
  <2>2. CASE Service
    BY <2>2, ServiceEvents
  <2>3. CASE StopRequest
    BY <2>1, <2>3 DEF EInv, EventsTell, FlagTracksKernel, StateEventQueued,
       StopRequest, kernelVars
  <2>4. CASE Host /\ UNCHANGED svcVars
    BY <2>4, HostEvents
  <2>5. CASE UNCHANGED vars
    BY <2>1, <2>5 DEF EInv, EventsTell, FlagTracksKernel, StateEventQueued, vars,
       svcVars, kernelVars
  <2> QED BY <2>2, <2>3, <2>4, <2>5 DEF Next
<1>3. EInv => FlagTracksKernel
  BY DEF EInv
<1> QED BY <1>1, <1>2, <1>3, PTL DEF Spec

----------------------------------------------------------------------------
(* Nothing is released under a request. *)

\* Unbound, the endpoints are down and nothing can be queued on them any more.
QInv ==
  /\ TypeOK
  /\ pc = "close" \/ ~opened =>
       ~bound /\ ~epOn /\ outq = <<>> /\ inq = <<>>
  /\ ~opened => pc \in {"exit", "returned"}

\* The descriptors and the mount are released only when the gadget is unbound
\* and no request is queued on an endpoint.
THEOREM ReleasedQuiet == Spec => []QuietWhenReleased
<1>1. Init => QInv
  BY InitType DEF Init, QInv
<1>2. QInv /\ [Next]_vars => QInv'
  <2> SUFFICES ASSUME QInv, [Next]_vars PROVE QInv'
    OBVIOUS
  <2> USE DEF QInv, kernelVars, hostVars, svcVars, Goto, GiveUp
  <2>1. TypeOK'
    BY NextType
  <2>2. CASE Service
    <3>1. CASE LoopHead \/ Select \/ SelectTimeout \/ SelectError
      BY <2>1, <3>1 DEF LoopHead, Select, SelectTimeout, SelectError
    <3>2. CASE ReadControl \/ NoControl \/ ReadControlError
      BY <2>1, <3>2 DEF ReadControl, NoControl, ReadControlError, AfterControl
    <3>3. CASE DrainEventfd \/ DrainError \/ PrepareRead
      BY <2>1, <3>3 DEF DrainEventfd, DrainError, PrepareRead
    <3>4. CASE SubmitReadHost
      BY <2>1, <3>4 DEF SubmitReadHost, SubmitRead, SubmitRefused
    <3>5. CASE HarvestRead \/ ReadTimeout \/ ParseAndCompose
      BY <2>1, <3>5 DEF HarvestRead, GetEvent, ReadTimeout, ParseAndCompose
    <3>6. CASE SubmitWriteHost
      BY <2>1, <3>6 DEF SubmitWriteHost, SubmitWrite, SubmitRefused, NextPart
    <3>7. CASE HarvestWrite \/ WriteTimeout
      BY <2>1, <3>7 DEF HarvestWrite, WriteTimeout, GetEvent, NextPart
    <3>8. CASE DisableGadget
      BY <2>1, <3>8 DEF DisableGadget, Unbind, Shutdown
    <3>9. CASE Release \/ CleanupError \/ Return
      BY <2>1, <3>9 DEF Release, CleanupError, Return
    <3> QED
      BY <2>2, <3>1, <3>2, <3>3, <3>4, <3>5, <3>6, <3>7, <3>8, <3>9 DEF Service
  <2>3. CASE StopRequest
    BY <2>1, <2>3 DEF StopRequest
  <2>4. CASE Host /\ UNCHANGED svcVars
    BY <2>1, <2>4 DEF Host, HostConfigure, HostReset, HostNotify, HostSend, HostRecv,
       Shutdown
  <2>5. CASE UNCHANGED vars
    BY <2>1, <2>5 DEF vars
  <2> QED BY <2>2, <2>3, <2>4, <2>5 DEF Next
<1>3. QInv => QuietWhenReleased
  BY DEF QInv, QuietWhenReleased
<1> QED BY <1>1, <1>2, <1>3, PTL DEF Spec

----------------------------------------------------------------------------
(* The eventfd wakes the routine again. *)

\* The eventfd is clear only on the way to a completion that will set it.
Awake == ~efd => pc \in {"rprep", "rsub"} \/ (pc = "rwait" /\ ring = <<>>)

\* The steps of the routine keep it: it clears the eventfd only before a read.
LEMMA ServiceAwake ==
  ASSUME IInv, Awake, Service, ~ReadTimeout, ~WriteTimeout
  PROVE  Awake'
<1> USE DEF Awake, kernelVars, hostVars, Goto, GiveUp
<1>1. CASE LoopHead \/ Select \/ SelectTimeout \/ SelectError
  BY <1>1 DEF LoopHead, Select, SelectTimeout, SelectError
<1>2. CASE ReadControl \/ NoControl \/ ReadControlError
  BY <1>2 DEF ReadControl, NoControl, ReadControlError
<1>3. CASE DrainEventfd \/ DrainError \/ PrepareRead
  BY <1>3 DEF DrainEventfd, DrainError, PrepareRead
<1>4. CASE SubmitReadHost
  <2>1. outq = <<>> /\ inq = <<>> /\ ring = <<>> /\ SlotsInUse = 0
    BY <1>4 DEF SubmitReadHost, IInv, OneRequest, SlotsInUse
  <2>2. ring' = ring /\ pc' = "rwait"
    BY <1>4, <2>1, BoundsAssumption DEF SubmitReadHost, SubmitRead, SubmitRefused
  <2> QED BY <2>1, <2>2
<1>5. CASE HarvestRead \/ HarvestWrite
  BY <1>5 DEF HarvestRead, HarvestWrite, GetEvent
<1>6. CASE ReadTimeout \/ WriteTimeout
  BY <1>6
<1>7. CASE ParseAndCompose
  BY <1>7 DEF ParseAndCompose
<1>8. CASE SubmitWriteHost
  BY <1>8 DEF SubmitWriteHost, SubmitWrite, SubmitRefused
<1>9. CASE DisableGadget
  BY <1>9 DEF DisableGadget, Unbind, Signal
<1>10. CASE Release \/ CleanupError \/ Return
  BY <1>10 DEF Release, CleanupError, Return
<1> QED
  BY <1>1, <1>2, <1>3, <1>4, <1>5, <1>6, <1>7, <1>8, <1>9, <1>10 DEF Service

\* A step that is not a timeout keeps it.
LEMMA StaysAwake ==
  ASSUME IInv, Awake, [Next]_vars, ~ReadTimeout, ~WriteTimeout
  PROVE  Awake'
<1>1. CASE Service
  BY <1>1, ServiceAwake
<1>2. CASE StopRequest
  BY <1>2 DEF StopRequest, kernelVars, Awake
<1>3. CASE Host /\ UNCHANGED svcVars
  BY <1>3 DEF Host, HostConfigure, HostReset, HostNotify, HostSend, HostRecv, Signal,
     svcVars, Awake, IInv, OneRequest, Outstanding
<1>4. CASE UNCHANGED vars
  BY <1>4 DEF vars, svcVars, kernelVars, Awake
<1> QED BY <1>1, <1>2, <1>3, <1>4 DEF Next

\* Where waits do not time out, or main stops the routine before they can, it is never
\* back at its select with the eventfd clear while it is to run: there is always
\* something that makes it try another read.
THEOREM HearsTheHost == (MayTimeout => PromptStop) => (Spec => []NeverDeaf)
<1> SUFFICES ASSUME MayTimeout => PromptStop PROVE Spec => []NeverDeaf
  OBVIOUS
<1> DEFINE DInv == TypeOK /\ ((IInv /\ Awake) \/ Late)
<1>1. Init => DInv
  BY InitInv DEF Init, KernelInit, IInv, Awake
<1>2. DInv /\ [Next]_vars => DInv'
  <2> SUFFICES ASSUME DInv, [Next]_vars PROVE DInv'
    OBVIOUS
  <2>1. TypeOK'
    BY NextType
  <2>2. CASE Late
    BY <2>1, <2>2, LateStays
  <2>3. CASE IInv /\ Awake /\ (ReadTimeout \/ WriteTimeout)
    BY <2>1, <2>3, TimeoutIsLate
  <2>4. CASE IInv /\ Awake /\ ~ReadTimeout /\ ~WriteTimeout
    BY <2>1, <2>4, NextInv, StaysAwake
  <2> QED BY <2>2, <2>3, <2>4
<1>3. DInv => NeverDeaf
  BY DEF IInv, Awake, Late, NeverDeaf
<1> QED BY <1>1, <1>2, <1>3, PTL DEF Spec

----------------------------------------------------------------------------
(* Order. *)

\* The packets composed up to the present one.  The one being written is queued
\* or sent only when write_host waits.
UpTo(p, at, reply, k) ==
  \/ p[1] < reply
  \/ p[1] = reply /\ (at = "wsub" => p[2] < k) /\ (at = "wwait" => p[2] <= k)

Composed(p) == UpTo(p, pc, Len(processed), part)

\* The same after a step.
StillComposed(p) == UpTo(p, pc', Len(processed'), part')

\* What the host has, then what is queued, is in order and composed already.
InOrder ==
  /\ RepliesInOrder
  /\ \A i \in DOMAIN inq, j \in DOMAIN inq : i < j => Before(inq[i].pkt, inq[j].pkt)
  /\ \A i \in DOMAIN hostGot, j \in DOMAIN inq : Before(hostGot[i], inq[j].pkt)
  /\ \A i \in DOMAIN hostGot : Composed(hostGot[i])
  /\ \A j \in DOMAIN inq : Composed(inq[j].pkt)

\* The conjunction that is inductive.
OInv == TypeOK /\ InOrder

\* The queues hold packets, which are pairs of numbers.
LEMMA PacketTypes ==
  ASSUME TypeOK
  PROVE  /\ Len(processed) \in Nat /\ part \in Nat
         /\ DOMAIN inq = 1..Len(inq) /\ Len(inq) \in Nat
         /\ DOMAIN hostGot = 1..Len(hostGot) /\ Len(hostGot) \in Nat
         /\ \A j \in DOMAIN inq : inq[j].pkt \in Nat \X Nat
         /\ \A i \in DOMAIN hostGot : hostGot[i] \in Nat \X Nat
<1>1. \A j \in DOMAIN inq : inq[j] \in WriteRequests
  BY DEF TypeOK
<1> QED BY <1>1 DEF TypeOK, WriteRequests

\* Steps that leave the queues alone and compose no less.
LEMMA SameQueues ==
  ASSUME OInv, TypeOK', UNCHANGED hostGot, inq' = inq \/ inq' = <<>>,
         \A p \in Nat \X Nat : Composed(p) => StillComposed(p)
  PROVE  OInv'
<1>1. /\ \A i \in DOMAIN hostGot : StillComposed(hostGot[i])
      /\ \A j \in DOMAIN inq : StillComposed(inq[j].pkt)
  BY PacketTypes DEF OInv, InOrder
<1>2. CASE inq' = inq
  BY <1>1, <1>2 DEF OInv, InOrder, RepliesInOrder, Composed, StillComposed
<1>3. CASE inq' = <<>>
  BY <1>1, <1>3 DEF OInv, InOrder, RepliesInOrder, Composed, StillComposed
<1> QED BY <1>2, <1>3

\* The steps of the host.
LEMMA HostOrder ==
  ASSUME OInv, Host, UNCHANGED svcVars
  PROVE  OInv'
<1> USE DEF svcVars, hostVars
<1>1. TypeOK'
  BY HostType DEF OInv
<1>2. \A p : StillComposed(p) <=> Composed(p)
  BY DEF Composed, StillComposed, UpTo
<1>3. CASE HostConfigure \/ HostReset \/ HostNotify \/ HostSend
  BY <1>1, <1>2, <1>3, SameQueues
     DEF HostConfigure, HostReset, HostNotify, HostSend, Shutdown
<1>4. CASE HostRecv
  <2> DEFINE pkt == Head(inq).pkt
  <2>1. inq # <<>> /\ hostGot' = Append(hostGot, pkt) /\ inq' = Tail(inq)
    BY <1>4 DEF HostRecv
  <2>2. /\ pkt = inq[1].pkt /\ 1 \in DOMAIN inq /\ pkt \in Nat \X Nat
        /\ Len(inq') = Len(inq) - 1
        /\ \A j \in DOMAIN inq' : j + 1 \in DOMAIN inq /\ inq'[j] = inq[j + 1]
    <3>1. inq \in Seq(WriteRequests)
      BY DEF OInv, TypeOK
    <3>2. Len(inq) \in Nat /\ Len(inq) # 0 /\ DOMAIN inq = 1..Len(inq)
      BY <2>1, <3>1
    <3>3. /\ DOMAIN inq' = 1..Len(inq') /\ Len(inq') = Len(inq) - 1
          /\ \A j \in 1..Len(inq') : inq'[j] = inq[j + 1]
      BY <2>1, <3>1, <3>2
    <3>4. 1 \in DOMAIN inq /\ \A j \in DOMAIN inq' : j + 1 \in DOMAIN inq
      BY <3>2, <3>3
    <3>5. Head(inq) = inq[1]
      BY <3>1
    <3>6. inq[1].pkt \in Nat \X Nat
      BY <3>4, PacketTypes DEF OInv
    <3> QED BY <3>3, <3>4, <3>5, <3>6
  <2>3. /\ Len(hostGot') = Len(hostGot) + 1
        /\ DOMAIN hostGot' = 1..(Len(hostGot) + 1)
        /\ \A i \in DOMAIN hostGot : hostGot'[i] = hostGot[i]
        /\ hostGot'[Len(hostGot) + 1] = pkt
    <3>1. hostGot \in Seq(Nat \X Nat)
      BY DEF OInv, TypeOK
    <3>2. pkt \in Nat \X Nat
      BY <2>2
    <3> HIDE DEF pkt
    <3>3. hostGot' \in Seq(Nat \X Nat) /\ Len(hostGot') = Len(hostGot) + 1
      BY <2>1, <3>1, <3>2, AppendProperties
    <3>4. \A i \in 1..Len(hostGot) : hostGot'[i] = hostGot[i]
      BY <2>1, <3>1, <3>2, AppendProperties
    <3>5. hostGot'[Len(hostGot) + 1] = pkt
      BY <2>1, <3>1, <3>2, AppendProperties
    <3>6. DOMAIN hostGot = 1..Len(hostGot) /\ DOMAIN hostGot' = 1..Len(hostGot')
      BY <3>1, <3>3
    <3> QED BY <3>3, <3>4, <3>5, <3>6
  <2>4. /\ Len(hostGot) \in Nat /\ Len(inq') \in Nat
        /\ DOMAIN inq' = 1..Len(inq') /\ DOMAIN hostGot = 1..Len(hostGot)
    <3>1. inq' \in Seq(WriteRequests) /\ hostGot \in Seq(Nat \X Nat)
      BY <1>1 DEF OInv, TypeOK
    <3> QED BY <3>1
  <2> HIDE DEF pkt
  <2>5. RepliesInOrder'
    <3> SUFFICES ASSUME NEW i \in 1..(Len(hostGot') - 1)
                 PROVE  Before(hostGot'[i], hostGot'[i + 1])
      BY DEF RepliesInOrder
    <3>0. i \in DOMAIN hostGot /\ hostGot'[i] = hostGot[i]
      BY <2>3, <2>4
    <3>1. CASE i = Len(hostGot)
      <4>1. \A j \in DOMAIN inq : Before(hostGot[i], inq[j].pkt)
        BY <3>0 DEF OInv, InOrder
      <4>2. Before(hostGot[i], pkt)
        BY <2>2, <4>1
      <4> QED BY <2>3, <3>0, <3>1, <4>2
    <3>2. CASE i # Len(hostGot)
      <4>1. i \in 1..(Len(hostGot) - 1) /\ i + 1 \in DOMAIN hostGot
        BY <2>4, <3>0, <3>2
      <4>2. Before(hostGot[i], hostGot[i + 1])
        BY <4>1 DEF OInv, InOrder, RepliesInOrder
      <4> QED BY <2>3, <3>0, <4>1, <4>2
    <3> QED BY <3>1, <3>2
  <2>6. \A i \in DOMAIN inq', j \in DOMAIN inq' : i < j => Before(inq'[i].pkt, inq'[j].pkt)
    <3> SUFFICES ASSUME NEW i \in DOMAIN inq', NEW j \in DOMAIN inq', i < j
                 PROVE  Before(inq'[i].pkt, inq'[j].pkt)
      OBVIOUS
    <3>1. i + 1 < j + 1
      BY <2>4
    <3>2. Before(inq[i + 1].pkt, inq[j + 1].pkt)
      BY <2>2, <3>1 DEF OInv, InOrder
    <3> QED BY <2>2, <3>2
  <2>7. \A i \in DOMAIN hostGot', j \in DOMAIN inq' : Before(hostGot'[i], inq'[j].pkt)
    <3> SUFFICES ASSUME NEW i \in DOMAIN hostGot', NEW j \in DOMAIN inq'
                 PROVE  Before(hostGot'[i], inq'[j].pkt)
      OBVIOUS
    <3>1. j + 1 \in DOMAIN inq /\ inq'[j] = inq[j + 1] /\ 1 < j + 1
      BY <2>2, <2>4
    <3>2. CASE i = Len(hostGot) + 1
      <4>1. Before(inq[1].pkt, inq[j + 1].pkt)
        BY <2>2, <3>1 DEF OInv, InOrder
      <4> QED BY <2>2, <2>3, <3>1, <3>2, <4>1
    <3>3. CASE i # Len(hostGot) + 1
      <4>1. i \in DOMAIN hostGot
        BY <2>3, <2>4, <3>3
      <4>2. Before(hostGot[i], inq[j + 1].pkt)
        BY <3>1, <4>1 DEF OInv, InOrder
      <4> QED BY <2>3, <3>1, <4>1, <4>2
    <3> QED BY <3>2, <3>3
  <2>8. \A i \in DOMAIN hostGot' : StillComposed(hostGot'[i])
    <3> SUFFICES ASSUME NEW i \in DOMAIN hostGot' PROVE StillComposed(hostGot'[i])
      BY <1>2
    <3>1. CASE i = Len(hostGot) + 1
      BY <1>2, <2>2, <2>3, <3>1 DEF OInv, InOrder
    <3>2. CASE i # Len(hostGot) + 1
      <4>1. i \in DOMAIN hostGot
        BY <2>3, <2>4, <3>2
      <4>2. Composed(hostGot[i])
        BY <4>1 DEF OInv, InOrder
      <4> QED BY <1>2, <2>3, <4>1, <4>2
    <3> QED BY <3>1, <3>2
  <2>9. \A j \in DOMAIN inq' : StillComposed(inq'[j].pkt)
    BY <1>2, <2>2 DEF OInv, InOrder
  <2> QED BY <1>1, <2>5, <2>6, <2>7, <2>8, <2>9
         DEF OInv, InOrder, Composed, StillComposed
<1> QED BY <1>3, <1>4 DEF Host

\* The packet a write queues comes after all that were composed before it.
LEMMA WriteOrder ==
  ASSUME OInv, TypeOK', pc = "wsub", pc' = "wwait", UNCHANGED <<hostGot, processed, part>>,
         SubmitWrite(<<Len(processed), part>>)
  PROVE  OInv'
<1> DEFINE cur == <<Len(processed), part>>
<1>1. /\ Len(inq') = Len(inq) + 1
      /\ \A j \in DOMAIN inq : inq'[j] = inq[j]
      /\ inq'[Len(inq) + 1].pkt = cur
  <2> DEFINE req == WriteRequest(nsub + 1, cur)
  <2>1. inq' = Append(inq, req)
    BY DEF SubmitWrite
  <2>2. req \in WriteRequests
    <3>1. nsub + 1 \in Nat
      BY DEF OInv, TypeOK
    <3>2. cur \in Nat \X Nat
      BY PacketTypes DEF OInv
    <3> HIDE DEF cur
    <3> QED BY <3>1, <3>2 DEF WriteRequest, WriteRequests
  <2>3. req.pkt = cur
    BY DEF WriteRequest
  <2>4. inq \in Seq(WriteRequests) /\ DOMAIN inq = 1..Len(inq)
    <3>1. inq \in Seq(WriteRequests)
      BY DEF OInv, TypeOK
    <3> QED BY <3>1
  <2> HIDE DEF req, cur
  <2>5. /\ Len(inq') = Len(inq) + 1
        /\ \A j \in 1..Len(inq) : inq'[j] = inq[j]
        /\ inq'[Len(inq) + 1] = req
    BY <2>1, <2>2, <2>4, AppendProperties
  <2> QED BY <2>3, <2>4, <2>5
<1>2. DOMAIN inq' = 1..(Len(inq) + 1) /\ DOMAIN inq = 1..Len(inq) /\ Len(inq) \in Nat
  <2>1. inq' \in Seq(WriteRequests) /\ inq \in Seq(WriteRequests)
    BY DEF OInv, TypeOK
  <2> QED BY <1>1, <2>1
<1>3. \A p \in Nat \X Nat : Composed(p) => Before(p, cur) /\ StillComposed(p)
  BY PacketTypes DEF OInv, Composed, StillComposed, UpTo, Before
<1>4. StillComposed(cur)
  BY PacketTypes DEF OInv, Composed, StillComposed, UpTo
<1> HIDE DEF cur
<1>5. RepliesInOrder'
  BY DEF OInv, InOrder, RepliesInOrder
<1>6. \A i \in DOMAIN inq', j \in DOMAIN inq' : i < j => Before(inq'[i].pkt, inq'[j].pkt)
  <2> SUFFICES ASSUME NEW i \in DOMAIN inq', NEW j \in DOMAIN inq', i < j
               PROVE  Before(inq'[i].pkt, inq'[j].pkt)
    OBVIOUS
  <2>1. i \in DOMAIN inq
    BY <1>2
  <2>2. CASE j = Len(inq) + 1
    <3>1. Composed(inq[i].pkt) /\ inq[i].pkt \in Nat \X Nat
      BY <2>1, PacketTypes DEF OInv, InOrder
    <3> QED BY <1>1, <1>3, <2>1, <2>2, <3>1
  <2>3. CASE j # Len(inq) + 1
    <3>1. j \in DOMAIN inq
      BY <1>2, <2>3
    <3>2. Before(inq[i].pkt, inq[j].pkt)
      BY <2>1, <3>1 DEF OInv, InOrder
    <3> QED BY <1>1, <2>1, <3>1, <3>2
  <2> QED BY <2>2, <2>3
<1>7. \A i \in DOMAIN hostGot', j \in DOMAIN inq' : Before(hostGot'[i], inq'[j].pkt)
  <2> SUFFICES ASSUME NEW i \in DOMAIN hostGot, NEW j \in DOMAIN inq'
               PROVE  Before(hostGot[i], inq'[j].pkt)
    OBVIOUS
  <2>1. CASE j = Len(inq) + 1
    BY <1>1, <1>3, <2>1, PacketTypes DEF OInv, InOrder
  <2>2. CASE j # Len(inq) + 1
    <3>1. j \in DOMAIN inq
      BY <1>2, <2>2
    <3>2. Before(hostGot[i], inq[j].pkt)
      BY <3>1 DEF OInv, InOrder
    <3> QED BY <1>1, <3>1, <3>2
  <2> QED BY <2>1, <2>2
<1>8. \A i \in DOMAIN hostGot' : StillComposed(hostGot'[i])
  BY <1>3, PacketTypes DEF OInv, InOrder
<1>9. \A j \in DOMAIN inq' : StillComposed(inq'[j].pkt)
  <2> SUFFICES ASSUME NEW j \in DOMAIN inq' PROVE StillComposed(inq'[j].pkt)
    OBVIOUS
  <2>1. CASE j = Len(inq) + 1
    BY <1>1, <1>4, <2>1
  <2>2. CASE j # Len(inq) + 1
    <3>1. j \in DOMAIN inq
      BY <1>2, <2>2
    <3>2. Composed(inq[j].pkt) /\ inq[j].pkt \in Nat \X Nat
      BY <3>1, PacketTypes DEF OInv, InOrder
    <3> QED BY <1>1, <1>3, <3>1, <3>2
  <2> QED BY <2>1, <2>2
<1> QED BY <1>5, <1>6, <1>7, <1>8, <1>9 DEF OInv, InOrder, Composed, StillComposed

\* The steps of the routine.
LEMMA ServiceOrder ==
  ASSUME OInv, Service
  PROVE  OInv'
<1> USE DEF kernelVars, hostVars, Goto, GiveUp
<1>1. TypeOK'
  BY ServiceType DEF OInv
<1>2. ASSUME UNCHANGED <<hostGot, processed>>, inq' = inq \/ inq' = <<>>,
             pc' \notin {"wsub", "wwait"}
      PROVE  OInv'
  <2>1. \A p \in Nat \X Nat : Composed(p) => StillComposed(p)
    BY <1>2 DEF Composed, StillComposed, UpTo
  <2> QED BY <1>1, <1>2, <2>1, SameQueues
<1>3. ASSUME UNCHANGED <<hostGot, processed, inq>>, pc \in {"wsub", "wwait"}, NextPart
      PROVE  OInv'
  <2>1. \A p \in Nat \X Nat : Composed(p) => StillComposed(p)
    BY <1>3, PacketTypes DEF OInv, NextPart, Composed, StillComposed, UpTo
  <2> QED BY <1>1, <1>3, <2>1, SameQueues
<1>4. CASE LoopHead \/ Select \/ SelectTimeout \/ SelectError
  BY <1>2, <1>4 DEF LoopHead, Select, SelectTimeout, SelectError
<1>5. CASE ReadControl \/ NoControl \/ ReadControlError
  BY <1>2, <1>5 DEF ReadControl, NoControl, ReadControlError, AfterControl
<1>6. CASE DrainEventfd \/ DrainError \/ PrepareRead
  BY <1>2, <1>6 DEF DrainEventfd, DrainError, PrepareRead
<1>7. CASE SubmitReadHost
  BY <1>2, <1>7 DEF SubmitReadHost, SubmitRead, SubmitRefused
<1>8. CASE HarvestRead \/ ReadTimeout
  BY <1>2, <1>8 DEF HarvestRead, GetEvent, ReadTimeout
<1>9. CASE ParseAndCompose
  <2>1. Len(processed') = Len(processed) + 1
    <3>1. processed' = Append(processed, buf) /\ buf \in Nat /\ processed \in Seq(Nat)
      BY <1>9 DEF OInv, TypeOK, ParseAndCompose
    <3> QED BY <3>1, AppendProperties
  <2>2. \A p \in Nat \X Nat : Composed(p) => StillComposed(p)
    BY <2>1, PacketTypes DEF OInv, Composed, StillComposed, UpTo
  <2>3. UNCHANGED <<hostGot, inq>>
    BY <1>9 DEF ParseAndCompose
  <2> QED BY <1>1, <2>2, <2>3, SameQueues
<1>10. CASE SubmitWriteHost
  <2>1. CASE SubmitWrite(<<Len(processed), part>>) /\ Goto("wwait") /\ UNCHANGED part
    BY <1>1, <1>10, <2>1, WriteOrder DEF SubmitWriteHost, SubmitWrite
  <2>2. CASE SubmitRefused /\ NextPart
    BY <1>3, <1>10, <2>2 DEF SubmitWriteHost, SubmitRefused
  <2> QED BY <1>10, <2>1, <2>2 DEF SubmitWriteHost
<1>11. CASE HarvestWrite \/ WriteTimeout
  BY <1>3, <1>11 DEF HarvestWrite, GetEvent, WriteTimeout
<1>12. CASE DisableGadget
  BY <1>2, <1>12 DEF DisableGadget, Unbind, Shutdown
<1>13. CASE Release \/ CleanupError \/ Return
  BY <1>2, <1>13 DEF Release, CleanupError, Return
<1> QED
  BY <1>4, <1>5, <1>6, <1>7, <1>8, <1>9, <1>10, <1>11, <1>12, <1>13 DEF Service

\* The packets of the replies reach the host in the order they were composed and
\* none twice, whatever timed out, was refused or was cut short by a reset.
THEOREM RepliesOrdered == Spec => []RepliesInOrder
<1>1. Init => OInv
  BY InitType DEF Init, KernelInit, OInv, InOrder, RepliesInOrder
<1>2. OInv /\ [Next]_vars => OInv'
  <2> SUFFICES ASSUME OInv, [Next]_vars PROVE OInv'
    OBVIOUS
  <2>1. TypeOK'
    BY NextType DEF OInv
  <2>2. CASE Service
    BY <2>2, ServiceOrder
  <2>3. CASE Host /\ UNCHANGED svcVars
    BY <2>3, HostOrder
  <2>4. CASE StopRequest \/ UNCHANGED vars
    <3>1. UNCHANGED <<hostGot, inq, pc, processed, part>>
      BY <2>4 DEF StopRequest, vars, svcVars, kernelVars, hostVars
    <3>2. \A p : StillComposed(p) <=> Composed(p)
      BY <3>1 DEF Composed, StillComposed, UpTo
    <3> QED BY <2>1, <3>1, <3>2, SameQueues
  <2> QED BY <2>2, <2>3, <2>4 DEF Next
<1>3. OInv => RepliesInOrder
  BY DEF OInv, InOrder
<1> QED BY <1>1, <1>2, <1>3, PTL DEF Spec

----------------------------------------------------------------------------
(* Count. *)

OkRead(c) == c.op = "read" /\ c.ok

\* Packets given to the parser, or about to be.
Spoken == Len(processed) + (IF pc = "parse" THEN 1 ELSE 0)

\* The reads that have completed with data can be numbered: each stands for a
\* packet of its own, accepted after those the parser was given.
Numbered(f) ==
  /\ \A i \in DOMAIN ring : OkRead(ring[i]) => Spoken < f[i] /\ f[i] <= sent
  /\ \A i \in DOMAIN ring, j \in DOMAIN ring :
       i < j /\ OkRead(ring[i]) /\ OkRead(ring[j]) => f[i] < f[j]

\* The conjunction that is inductive.
NInv ==
  /\ TypeOK
  /\ Spoken <= sent
  /\ \E f \in [Nat -> Nat] : Numbered(f)

\* The ring is a sequence, and what is counted are numbers.
LEMMA RingTypes ==
  ASSUME TypeOK
  PROVE  /\ DOMAIN ring = 1..Len(ring) /\ Len(ring) \in Nat
         /\ Spoken \in Nat /\ sent \in Nat /\ Len(processed) \in Nat
  BY DEF TypeOK, Spoken

\* Steps that leave the count alone and add no read that succeeded.
LEMMA SameCount ==
  ASSUME NInv, TypeOK', Spoken' = Spoken, sent' = sent,
         \A i \in DOMAIN ring' :
           (i \in DOMAIN ring /\ ring'[i] = ring[i]) \/ ~OkRead(ring'[i])
  PROVE  NInv'
<1>1. PICK f \in [Nat -> Nat] : Numbered(f)
  BY DEF NInv
<1>2. /\ \A i \in DOMAIN ring' : OkRead(ring'[i]) => Spoken' < f[i] /\ f[i] <= sent'
      /\ \A i \in DOMAIN ring', j \in DOMAIN ring' :
           i < j /\ OkRead(ring'[i]) /\ OkRead(ring'[j]) => f[i] < f[j]
  BY <1>1 DEF Numbered
<1> QED BY <1>2 DEF NInv, Numbered, OkRead

\* No read succeeds among what stopping the endpoints completes.
LEMMA ShutdownAdds ==
  ASSUME TypeOK, Shutdown
  PROVE  \A i \in DOMAIN ring' :
           (i \in DOMAIN ring /\ ring'[i] = ring[i]) \/ ~OkRead(ring'[i])
<1> DEFINE a == Cancelled(outq)
           b == Cancelled(inq)
<1>1. a \in Seq(Completions) /\ b \in Seq(Completions)
  BY CancelledType DEF TypeOK
<1>2. /\ \A i \in DOMAIN a : ~OkRead(a[i])
      /\ \A i \in DOMAIN b : ~OkRead(b[i])
  BY DEF Cancelled, Completion, OkRead
<1> HIDE DEF a, b
<1>3. ASSUME NEW x \in Seq(Completions), \A i \in DOMAIN x : ~OkRead(x[i]),
             NEW y \in Seq(Completions), \A i \in DOMAIN y : ~OkRead(y[i]),
             NEW r, r = ring \o x \o y, NEW i \in DOMAIN r
      PROVE  (i \in DOMAIN ring /\ r[i] = ring[i]) \/ ~OkRead(r[i])
  <2>1. /\ ring \in Seq(Completions) /\ ring \o x \in Seq(Completions)
        /\ Len(ring) \in Nat /\ Len(x) \in Nat /\ Len(y) \in Nat
        /\ DOMAIN ring = 1..Len(ring) /\ DOMAIN x = 1..Len(x) /\ DOMAIN y = 1..Len(y)
    BY ConcatProperties DEF TypeOK
  <2>2. Len(ring \o x) = Len(ring) + Len(x) /\ r \in Seq(Completions)
        /\ Len(r) = Len(ring) + Len(x) + Len(y)
    BY <1>3, <2>1, ConcatProperties
  <2>3. i \in 1..(Len(ring) + Len(x) + Len(y))
    BY <2>2
  <2>4. r[i] = IF i <= Len(ring) + Len(x) THEN (ring \o x)[i]
                                         ELSE y[i - (Len(ring) + Len(x))]
    BY <1>3, <2>1, <2>2, <2>3, ConcatProperties
  <2>5. CASE i <= Len(ring)
    BY <2>1, <2>3, <2>4, <2>5, ConcatProperties
  <2>6. CASE i > Len(ring) /\ i <= Len(ring) + Len(x)
    <3>1. r[i] = x[i - Len(ring)] /\ i - Len(ring) \in DOMAIN x
      BY <2>1, <2>3, <2>4, <2>6, ConcatProperties
    <3> QED BY <1>3, <3>1
  <2>7. CASE i > Len(ring) + Len(x)
    <3>1. r[i] = y[i - (Len(ring) + Len(x))] /\ i - (Len(ring) + Len(x)) \in DOMAIN y
      BY <2>1, <2>3, <2>4, <2>7
    <3> QED BY <1>3, <3>1
  <2> QED BY <2>1, <2>3, <2>5, <2>6, <2>7
<1>4. ring' = ring \o a \o b \/ ring' = ring \o b \o a
  BY DEF Shutdown, a, b
<1> QED BY <1>1, <1>2, <1>3, <1>4

\* A completion is added at the end.
LEMMA CompletionAdded ==
  ASSUME TypeOK, NEW c \in Completions, ring' = Append(ring, c)
  PROVE  /\ DOMAIN ring' = 1..(Len(ring) + 1)
         /\ \A i \in DOMAIN ring : ring'[i] = ring[i]
         /\ ring'[Len(ring) + 1] = c
<1>1. ring' \in Seq(Completions) /\ Len(ring') = Len(ring) + 1
  BY AppendProperties DEF TypeOK
<1> QED BY <1>1, AppendProperties, RingTypes DEF TypeOK

\* The last place of a sequence and those before it.
LEMMA LastPlace ==
  ASSUME NEW n \in Nat
  PROVE  /\ \A i \in 1..n : i # n + 1
         /\ \A i \in 1..(n + 1) : i \in Nat /\ (i = n + 1 \/ i \in 1..n)
         /\ \A i \in 1..(n + 1), j \in 1..(n + 1) : i < j => i \in 1..n
  OBVIOUS

\* The steps of the host: a packet accepted is the next number.
LEMMA HostCounts ==
  ASSUME NInv, Host, UNCHANGED svcVars
  PROVE  NInv'
<1> USE DEF svcVars, hostVars
<1>1. TypeOK' /\ Spoken' = Spoken
  BY HostType DEF NInv, Spoken
<1>2. CASE HostConfigure \/ HostNotify
  BY <1>1, <1>2, SameCount DEF HostConfigure, HostNotify
<1>3. CASE HostReset
  BY <1>1, <1>3, ShutdownAdds, SameCount DEF NInv, HostReset
<1>4. CASE HostRecv
  <2> DEFINE c == Completion(Head(inq), TRUE)
  <2>1. Head(inq) \in WriteRequests
    BY <1>4, HeadTailProperties DEF NInv, TypeOK, HostRecv
  <2>2. c \in Completions /\ ~OkRead(c)
    BY <2>1 DEF Completion, Completions, WriteRequests, OkRead
  <2>3. ring' = Append(ring, c) /\ sent' = sent
    BY <1>4 DEF HostRecv
  <2> HIDE DEF c
  <2>4. \A i \in DOMAIN ring' :
          (i \in DOMAIN ring /\ ring'[i] = ring[i]) \/ ~OkRead(ring'[i])
    <3>1. Len(ring) \in Nat /\ DOMAIN ring = 1..Len(ring)
      BY RingTypes DEF NInv
    <3>2. /\ DOMAIN ring' = 1..(Len(ring) + 1)
          /\ \A i \in DOMAIN ring : ring'[i] = ring[i]
          /\ ring'[Len(ring) + 1] = c
      BY <2>2, <2>3, CompletionAdded DEF NInv
    <3>3. \A i \in DOMAIN ring' : i \in DOMAIN ring \/ i = Len(ring) + 1
      BY <3>1, <3>2
    <3> QED BY <2>2, <3>2, <3>3
  <2> QED BY <1>1, <2>3, <2>4, SameCount
<1>5. CASE HostSend
  <2> DEFINE c == Completion(Head(outq), TRUE)
  <2>1. Head(outq) \in ReadRequests
    BY <1>5, HeadTailProperties DEF NInv, TypeOK, HostSend
  <2>2. c \in Completions
    BY <2>1 DEF Completion, Completions, ReadRequests
  <2>3. ring' = Append(ring, c) /\ sent' = sent + 1
    BY <1>5 DEF HostSend
  <2> HIDE DEF c
  <2>4. PICK f \in [Nat -> Nat] : Numbered(f)
    BY DEF NInv
  <2>5. Spoken \in Nat /\ sent \in Nat /\ Spoken <= sent
    BY RingTypes DEF NInv
  <2> DEFINE last == Len(ring) + 1
  <2>6. /\ \A i \in DOMAIN ring : i # last
        /\ \A i \in DOMAIN ring' : i \in Nat /\ (i = last \/ i \in DOMAIN ring)
        /\ \A i, j \in DOMAIN ring' : i < j => i \in DOMAIN ring
        /\ \A i \in DOMAIN ring : ring'[i] = ring[i]
    <3>1. Len(ring) \in Nat /\ DOMAIN ring = 1..Len(ring)
      BY RingTypes DEF NInv
    <3>2. DOMAIN ring' = 1..last /\ \A i \in DOMAIN ring : ring'[i] = ring[i]
      BY <2>2, <2>3, CompletionAdded DEF NInv
    <3>3. /\ \A i \in 1..Len(ring) : i # last
          /\ \A i \in 1..last : i \in Nat /\ (i = last \/ i \in 1..Len(ring))
          /\ \A i, j \in 1..last : i < j => i \in 1..Len(ring)
      BY <3>1, LastPlace
    <3> QED BY <3>1, <3>2, <3>3
  <2> DEFINE g == [i \in Nat |-> IF i = last THEN sent + 1 ELSE f[i]]
  <2>7. /\ \A i \in Nat : f[i] \in Nat
        /\ g \in [Nat -> Nat]
        /\ last \in DOMAIN ring' => g[last] = sent + 1
        /\ \A i \in DOMAIN ring' : i # last => g[i] = f[i]
    <3>1. \A i \in Nat : f[i] \in Nat
      BY <2>4
    <3>2. g \in [Nat -> Nat]
      BY <2>5, <3>1
    <3> QED BY <2>6, <3>1, <3>2
  <2> HIDE DEF last, g
  <2>8. ASSUME NEW i \in DOMAIN ring', i # last, OkRead(ring'[i])
        PROVE  Spoken < g[i] /\ g[i] <= sent /\ g[i] \in Nat
    <3>1. i \in DOMAIN ring /\ OkRead(ring[i]) /\ g[i] = f[i] /\ f[i] \in Nat
      BY <2>6, <2>7, <2>8
    <3>2. Spoken < f[i] /\ f[i] <= sent
      BY <2>4, <3>1 DEF Numbered
    <3> QED BY <3>1, <3>2
  <2>9. ASSUME NEW i \in DOMAIN ring', OkRead(ring'[i])
        PROVE  Spoken' < g[i] /\ g[i] <= sent'
    <3>1. CASE i = last
      <4>1. g[i] = sent + 1
        BY <2>7, <3>1
      <4> QED BY <1>1, <2>3, <2>5, <4>1
    <3>2. CASE i # last
      <4>1. Spoken < g[i] /\ g[i] <= sent /\ g[i] \in Nat
        BY <2>8, <2>9, <3>2
      <4>2. \A x \in Nat : x <= sent => x <= sent + 1
        BY <2>5
      <4> QED BY <1>1, <2>3, <4>1, <4>2, Zenon
    <3> QED BY <3>1, <3>2
  <2>10. ASSUME NEW i \in DOMAIN ring', NEW j \in DOMAIN ring', i < j,
                OkRead(ring'[i]), OkRead(ring'[j])
         PROVE  g[i] < g[j]
    <3>1. i \in DOMAIN ring /\ i # last
      BY <2>6, <2>10
    <3>2. CASE j = last
      <4>1. g[j] = sent + 1
        BY <2>7, <3>2
      <4> QED BY <2>5, <2>8, <2>10, <3>1, <4>1
    <3>3. CASE j # last
      <4>1. j \in DOMAIN ring /\ g[i] = f[i] /\ g[j] = f[j]
        BY <2>6, <2>7, <3>1, <3>3
      <4> QED BY <2>4, <2>6, <2>10, <3>1, <4>1 DEF Numbered
    <3> QED BY <3>2, <3>3
  <2>11. Spoken' <= sent'
    BY <1>1, <2>3, <2>5
  <2> QED BY <1>1, <2>7, <2>9, <2>10, <2>11 DEF NInv, Numbered, OkRead
<1> QED BY <1>2, <1>3, <1>4, <1>5 DEF Host

\* The oldest completion is harvested: it is taken for a packet only if it is a
\* read that succeeded, and then its number is used up.
LEMMA HarvestCounts ==
  ASSUME NInv, TypeOK', GetEvent, processed' = processed, pc # "parse",
         pc' = "parse" => OkRead(Head(ring))
  PROVE  NInv'
<1>1. ring # <<>> /\ ring' = Tail(ring) /\ sent' = sent
  BY DEF GetEvent, hostVars
<1>2. /\ 1 \in DOMAIN ring /\ Head(ring) = ring[1]
      /\ \A i \in DOMAIN ring' :
           i \in Nat \ {0} /\ i + 1 \in DOMAIN ring /\ ring'[i] = ring[i + 1]
  <2>1. ring \in Seq(Completions) /\ ring' \in Seq(Completions)
    BY DEF NInv, TypeOK
  <2>2. Len(ring') = Len(ring) - 1 /\ Len(ring) \in Nat /\ Len(ring) # 0
    BY <1>1, <2>1, HeadTailProperties, EmptySeq
  <2>3. DOMAIN ring = 1..Len(ring) /\ DOMAIN ring' = 1..(Len(ring) - 1)
    BY <2>1, <2>2
  <2>4. \A i \in DOMAIN ring' : ring'[i] = ring[i + 1]
    BY <1>1, <2>1, <2>2, <2>3, HeadTailProperties, EmptySeq
  <2>5. 1 \in DOMAIN ring /\ Head(ring) = ring[1]
    BY <2>1, <2>2, <2>3
  <2>6. \A i \in 1..(Len(ring) - 1) : i \in Nat \ {0} /\ i + 1 \in 1..Len(ring)
    BY <2>2
  <2> QED BY <2>3, <2>4, <2>5, <2>6
<1>3. PICK f \in [Nat -> Nat] : Numbered(f)
  BY DEF NInv
<1> DEFINE g == [i \in Nat |-> f[i + 1]]
<1>4. g \in [Nat -> Nat] /\ \A i \in Nat : g[i] = f[i + 1] /\ f[i + 1] \in Nat
  <2>1. \A i \in Nat : f[i + 1] \in Nat
    BY <1>3
  <2> QED BY <2>1
<1> HIDE DEF g
<1>5. /\ Spoken \in Nat /\ sent \in Nat /\ f[1] \in Nat /\ Spoken <= sent
      /\ Spoken' = Spoken + (IF pc' = "parse" THEN 1 ELSE 0)
  BY <1>3, RingTypes DEF NInv, Spoken
<1>6. OkRead(ring[1]) => Spoken < f[1] /\ f[1] <= sent
  BY <1>2, <1>3 DEF Numbered
<1>7. Spoken' <= sent'
  BY <1>1, <1>2, <1>5, <1>6
<1>8. \A i \in DOMAIN ring' : OkRead(ring'[i]) => Spoken' < g[i] /\ g[i] <= sent'
  <2> SUFFICES ASSUME NEW i \in DOMAIN ring', OkRead(ring'[i])
               PROVE  Spoken' < g[i] /\ g[i] <= sent'
    OBVIOUS
  <2>1. i \in Nat \ {0} /\ i + 1 \in DOMAIN ring /\ ring'[i] = ring[i + 1]
        /\ g[i] = f[i + 1] /\ f[i + 1] \in Nat
    BY <1>2, <1>4
  <2>2. Spoken < f[i + 1] /\ f[i + 1] <= sent
    BY <1>3, <2>1 DEF Numbered
  <2>3. CASE pc' = "parse"
    <3>1. OkRead(ring[1]) /\ OkRead(ring[i + 1]) /\ 1 < i + 1
      BY <1>2, <2>1, <2>3
    <3>2. f[1] < f[i + 1]
      BY <1>2, <1>3, <2>1, <3>1 DEF Numbered
    <3>3. Spoken' = Spoken + 1 /\ sent' = sent
      BY <1>1, <1>5, <2>3
    <3>4. Spoken < f[1] /\ f[1] \in Nat
      BY <1>5, <1>6, <3>1
    <3> HIDE <2>3
    <3>5. Spoken + 1 < f[i + 1]
      BY <1>5, <2>1, <3>2, <3>4
    <3> QED BY <2>1, <2>2, <3>3, <3>5
  <2>4. CASE pc' # "parse"
    <3>1. Spoken' = Spoken /\ sent' = sent
      BY <1>1, <1>5, <2>4
    <3> QED BY <2>1, <2>2, <3>1
  <2> QED BY <2>3, <2>4
<1>9. \A i \in DOMAIN ring', j \in DOMAIN ring' :
        i < j /\ OkRead(ring'[i]) /\ OkRead(ring'[j]) => g[i] < g[j]
  <2> SUFFICES ASSUME NEW i \in DOMAIN ring', NEW j \in DOMAIN ring', i < j,
                      OkRead(ring'[i]), OkRead(ring'[j])
               PROVE  g[i] < g[j]
    OBVIOUS
  <2>1. /\ i \in Nat /\ i + 1 \in DOMAIN ring /\ ring'[i] = ring[i + 1]
        /\ j \in Nat /\ j + 1 \in DOMAIN ring /\ ring'[j] = ring[j + 1]
        /\ i + 1 < j + 1
    BY <1>2
  <2>2. f[i + 1] < f[j + 1]
    BY <1>3, <2>1 DEF Numbered
  <2> QED BY <1>4, <2>1, <2>2
<1> QED BY <1>4, <1>7, <1>8, <1>9 DEF NInv, Numbered, OkRead

\* The steps of the routine.
LEMMA ServiceCounts ==
  ASSUME NInv, Service
  PROVE  NInv'
<1> USE DEF kernelVars, hostVars, Goto, GiveUp
<1>1. TypeOK'
  BY ServiceType DEF NInv
<1>2. ASSUME UNCHANGED <<sent, processed, ring>>, pc # "parse", pc' # "parse"
      PROVE  NInv'
  BY <1>1, <1>2, SameCount DEF Spoken
<1>3. CASE LoopHead \/ Select \/ SelectTimeout \/ SelectError
  BY <1>2, <1>3 DEF LoopHead, Select, SelectTimeout, SelectError
<1>4. CASE ReadControl \/ NoControl \/ ReadControlError
  BY <1>2, <1>4 DEF ReadControl, NoControl, ReadControlError, AfterControl
<1>5. CASE DrainEventfd \/ DrainError \/ PrepareRead
  BY <1>2, <1>5 DEF DrainEventfd, DrainError, PrepareRead
<1>6. CASE SubmitReadHost \/ ReadTimeout
  BY <1>2, <1>6 DEF SubmitReadHost, SubmitRead, SubmitRefused, ReadTimeout
<1>7. CASE HarvestRead
  BY <1>1, <1>7, HarvestCounts DEF HarvestRead, ReadMatches, OkRead
<1>8. CASE ParseAndCompose
  <2>1. processed' = Append(processed, buf) /\ buf \in Nat /\ processed \in Seq(Nat)
    BY <1>8 DEF NInv, TypeOK, ParseAndCompose
  <2>2. Len(processed') = Len(processed) + 1
    BY <2>1, AppendProperties
  <2>3. Spoken' = Spoken
    BY <1>8, <2>2, RingTypes DEF NInv, Spoken, ParseAndCompose
  <2> QED BY <1>1, <1>8, <2>3, SameCount DEF ParseAndCompose
<1>9. CASE SubmitWriteHost
  BY <1>2, <1>9 DEF SubmitWriteHost, SubmitWrite, SubmitRefused, NextPart
<1>10. CASE HarvestWrite
  <2>1. pc = "wwait" /\ pc' # "parse"
    BY <1>10 DEF HarvestWrite, NextPart
  <2> QED BY <1>1, <1>10, <2>1, HarvestCounts DEF HarvestWrite
<1>11. CASE WriteTimeout
  BY <1>2, <1>11 DEF WriteTimeout, NextPart
<1>12. CASE DisableGadget
  <2>1. Shutdown /\ sent' = sent /\ Spoken' = Spoken
    BY <1>12 DEF DisableGadget, Unbind, Spoken
  <2> QED BY <1>1, <2>1, ShutdownAdds, SameCount DEF NInv
<1>13. CASE Release \/ CleanupError \/ Return
  BY <1>2, <1>13 DEF Release, CleanupError, Return
<1> QED
  BY <1>3, <1>4, <1>5, <1>6, <1>7, <1>8, <1>9, <1>10, <1>11, <1>12, <1>13
     DEF Service

\* A reply is started only for a packet the host has sent, although waits time out
\* and completions are harvested by whoever waits next.
THEOREM RepliesHaveCause == Spec => []NoSpuriousReply
<1>1. Init => NInv
  <2> SUFFICES ASSUME Init PROVE NInv
    OBVIOUS
  <2>1. TypeOK /\ ring = <<>> /\ sent = 0 /\ Spoken = 0
    BY InitType DEF Init, KernelInit, Spoken
  <2>2. Numbered([i \in Nat |-> 0])
    BY <2>1 DEF Numbered
  <2>3. [i \in Nat |-> 0] \in [Nat -> Nat]
    OBVIOUS
  <2> QED BY <2>1, <2>2, <2>3 DEF NInv
<1>2. NInv /\ [Next]_vars => NInv'
  <2> SUFFICES ASSUME NInv, [Next]_vars PROVE NInv'
    OBVIOUS
  <2>1. TypeOK'
    BY NextType DEF NInv
  <2>2. CASE Service
    BY <2>2, ServiceCounts
  <2>3. CASE Host /\ UNCHANGED svcVars
    BY <2>3, HostCounts
  <2>4. CASE StopRequest \/ UNCHANGED vars
    <3>1. UNCHANGED <<ring, sent, pc, processed>>
      BY <2>4 DEF StopRequest, vars, svcVars, kernelVars, hostVars
    <3> QED BY <2>1, <3>1, SameCount DEF Spoken
  <2> QED BY <2>2, <2>3, <2>4 DEF Next
<1>3. NInv => NoSpuriousReply
  BY RingTypes DEF NInv, Spoken, NoSpuriousReply
<1> QED BY <1>1, <1>2, <1>3, PTL DEF Spec

----------------------------------------------------------------------------
(* Contents. *)

\* From read_host's zeroing of the buffer to the parse, what the buffer holds is
\* zeroes or a packet later than all that were parsed: only the driver writes to
\* it, and it writes packets that are new.
BufferIsFresh ==
  /\ buf <= sent
  /\ \A i \in DOMAIN processed : processed[i] <= sent
  /\ pc \in {"rsub", "rwait", "parse"} =>
       \A i \in DOMAIN processed : Fresh(processed[i], buf)

\* The conjunction that is inductive.
CInv == TypeOK /\ ParsedAtMostOnce /\ BufferIsFresh

\* Steps that leave buffer and parser alone, and prepare no read.
LEMMA SameContents ==
  ASSUME CInv, TypeOK', UNCHANGED <<sent, buf, processed>>,
         pc' \in {"rsub", "rwait", "parse"} => pc \in {"rsub", "rwait", "parse"}
  PROVE  CInv'
BY DEF CInv, ParsedAtMostOnce, BufferIsFresh

\* A packet the driver writes to the buffer is later than all before it.
LEMMA SendContents ==
  ASSUME CInv, TypeOK', sent' = sent + 1, buf' = sent + 1, UNCHANGED <<processed, pc>>
  PROVE  CInv'
<1>1. sent \in Nat /\ processed \in Seq(Nat)
  BY DEF CInv, TypeOK
<1>2. \A i \in DOMAIN processed : processed[i] \in Nat /\ processed[i] <= sent
  BY <1>1 DEF CInv, BufferIsFresh
<1>3. \A n \in Nat : n <= sent => n <= sent + 1 /\ n < sent + 1
  BY <1>1
<1>4. sent + 1 <= sent + 1
  BY <1>1
<1>5. BufferIsFresh'
  BY <1>2, <1>3, <1>4 DEF BufferIsFresh, Fresh
<1> QED BY <1>5 DEF CInv, ParsedAtMostOnce

\* The parser is given what the buffer holds.
LEMMA ParseContents ==
  ASSUME CInv, TypeOK', ParseAndCompose
  PROVE  CInv'
<1>1. /\ processed' = Append(processed, buf) /\ pc = "parse" /\ pc' = "wsub"
      /\ sent' = sent /\ buf' = buf
  BY DEF ParseAndCompose, Goto, kernelVars, hostVars
<1>2. processed \in Seq(Nat) /\ buf \in Nat
  BY DEF CInv, TypeOK
<1> DEFINE last == Len(processed) + 1
<1>3. /\ DOMAIN processed = 1..Len(processed) /\ DOMAIN processed' = 1..last
      /\ processed'[last] = buf
      /\ \A i \in DOMAIN processed : processed'[i] = processed[i]
      /\ Len(processed) \in Nat
  <2>1. Len(processed') = last /\ processed' \in Seq(Nat)
    BY <1>1, <1>2, AppendProperties
  <2> QED BY <1>1, <1>2, <2>1, AppendProperties
<1>4. /\ \A i \in DOMAIN processed' : i = last \/ i \in DOMAIN processed
      /\ \A i, j \in DOMAIN processed' : i < j => i \in DOMAIN processed
  BY <1>3
<1> HIDE DEF last
<1>5. \A i \in DOMAIN processed : Fresh(processed[i], buf) /\ processed[i] <= sent
  BY <1>1 DEF CInv, BufferIsFresh
<1>6. ParsedAtMostOnce'
  <2> SUFFICES ASSUME NEW i \in DOMAIN processed', NEW j \in DOMAIN processed', i < j
               PROVE  Fresh(processed'[i], processed'[j])
    BY DEF ParsedAtMostOnce
  <2>1. i \in DOMAIN processed /\ processed'[i] = processed[i]
    BY <1>3, <1>4
  <2>2. CASE j = last
    BY <1>3, <1>5, <2>1, <2>2
  <2>3. CASE j # last
    BY <1>3, <1>4, <2>1, <2>3 DEF CInv, ParsedAtMostOnce
  <2> QED BY <2>2, <2>3
<1>7. BufferIsFresh'
  BY <1>1, <1>3, <1>4, <1>5 DEF CInv, BufferIsFresh
<1> QED BY <1>6, <1>7 DEF CInv

\* The parser is never given a packet twice, nor one after a later one, although a
\* wait that timed out leaves its request queued and its completion to another.
THEOREM NoneParsedTwice == Spec => []ParsedAtMostOnce
<1>1. Init => CInv
  BY InitType DEF Init, KernelInit, CInv, ParsedAtMostOnce, BufferIsFresh
<1>2. CInv /\ [Next]_vars => CInv'
  <2> SUFFICES ASSUME CInv, [Next]_vars PROVE CInv'
    OBVIOUS
  <2> USE DEF kernelVars, hostVars, Goto, GiveUp
  <2>1. TypeOK'
    BY NextType DEF CInv
  <2>2. CASE LoopHead \/ Select \/ SelectTimeout \/ SelectError
    BY <2>1, <2>2, SameContents DEF LoopHead, Select, SelectTimeout, SelectError
  <2>3. CASE ReadControl \/ NoControl \/ ReadControlError \/ DrainEventfd \/ DrainError
    BY <2>1, <2>3, SameContents
       DEF ReadControl, NoControl, ReadControlError, AfterControl, DrainEventfd,
           DrainError
  <2>4. CASE PrepareRead
    <3>1. buf' = 0 /\ UNCHANGED <<sent, processed>>
      BY <2>4 DEF PrepareRead
    <3>2. sent \in Nat
      BY DEF CInv, TypeOK
    <3> QED BY <2>1, <3>1, <3>2 DEF CInv, ParsedAtMostOnce, BufferIsFresh, Fresh
  <2>5. CASE SubmitReadHost \/ HarvestRead \/ ReadTimeout
    BY <2>1, <2>5, SameContents
       DEF SubmitReadHost, SubmitRead, SubmitRefused, HarvestRead, GetEvent,
           ReadTimeout
  <2>6. CASE ParseAndCompose
    BY <2>1, <2>6, ParseContents
  <2>7. CASE SubmitWriteHost \/ HarvestWrite \/ WriteTimeout
    BY <2>1, <2>7, SameContents
       DEF SubmitWriteHost, SubmitWrite, SubmitRefused, HarvestWrite, GetEvent,
           WriteTimeout, NextPart
  <2>8. CASE DisableGadget \/ Release \/ CleanupError \/ Return
    BY <2>1, <2>8, SameContents
       DEF DisableGadget, Unbind, Shutdown, Release, CleanupError, Return
  <2>9. CASE HostSend /\ UNCHANGED svcVars
    BY <2>1, <2>9, SendContents DEF HostSend, svcVars
  <2>10. CASE (HostConfigure \/ HostReset \/ HostNotify \/ HostRecv) /\ UNCHANGED svcVars
    BY <2>1, <2>10, SameContents
       DEF HostConfigure, HostReset, HostNotify, HostRecv, Shutdown, svcVars
  <2>11. CASE StopRequest \/ UNCHANGED vars
    BY <2>1, <2>11, SameContents DEF StopRequest, vars, svcVars
  <2> QED
    BY <2>2, <2>3, <2>4, <2>5, <2>6, <2>7, <2>8, <2>9, <2>10, <2>11
       DEF Next, Service, Host
<1>3. CInv => ParsedAtMostOnce
  BY DEF CInv
<1> QED BY <1>1, <1>2, <1>3, PTL DEF Spec

----------------------------------------------------------------------------
(* The backlog of waits that timed out. *)

\* The lengths the slots are counted by.
LEMMA SlotTypes ==
  ASSUME TypeOK
  PROVE  /\ Len(outq) \in Nat /\ Len(inq) \in Nat /\ Len(ring) \in Nat
         /\ Awaited \in {0, 1}
  BY DEF TypeOK, Awaited

\* Cancelling requests loses none of them.
LEMMA CancelledLength ==
  ASSUME NEW q, q \in Seq(ReadRequests) \/ q \in Seq(WriteRequests)
  PROVE  Cancelled(q) \in Seq(Completions) /\ Len(Cancelled(q)) = Len(q)
<1>1. Len(q) \in Nat /\ DOMAIN q = 1..Len(q)
  OBVIOUS
<1>2. Cancelled(q) \in Seq(Completions)
  BY CancelledType
<1>3. DOMAIN Cancelled(q) = 1..Len(q)
  BY <1>1 DEF Cancelled
<1> QED BY <1>1, <1>2, <1>3

\* The length of three sequences in a row.
LEMMA ThreeLengths ==
  ASSUME NEW S, NEW x \in Seq(S), NEW y \in Seq(S), NEW z \in Seq(S)
  PROVE  Len(x \o y \o z) = Len(x) + Len(y) + Len(z)
<1>1. x \o y \in Seq(S) /\ Len(x \o y) = Len(x) + Len(y)
  BY ConcatProperties
<1> DEFINE xy == x \o y
<1> HIDE DEF xy
<1>2. Len(xy \o z) = Len(xy) + Len(z)
  BY <1>1, ConcatProperties DEF xy
<1> QED BY <1>1, <1>2 DEF xy

\* The requests of endpoints that stop are completed, and hold their slots.
LEMMA ShutdownSlots ==
  ASSUME TypeOK, Shutdown
  PROVE  SlotsInUse' = SlotsInUse
<1> DEFINE o == Cancelled(outq)
           i == Cancelled(inq)
<1>1. /\ o \in Seq(Completions) /\ Len(o) = Len(outq)
      /\ i \in Seq(Completions) /\ Len(i) = Len(inq)
      /\ ring \in Seq(Completions)
  BY CancelledLength DEF TypeOK
<1>2. outq' = <<>> /\ inq' = <<>> /\ (ring' = ring \o o \o i \/ ring' = ring \o i \o o)
  BY DEF Shutdown
<1> HIDE DEF o, i
<1>0. o \in Seq(Completions) /\ i \in Seq(Completions) /\ ring \in Seq(Completions)
  BY <1>1
<1>3. Len(ring \o o \o i) = Len(ring) + Len(o) + Len(i)
  BY <1>0, ThreeLengths
<1>4. Len(ring \o i \o o) = Len(ring) + Len(i) + Len(o)
  BY <1>0, ThreeLengths
<1>5. Len(ring') = Len(ring) + Len(outq) + Len(inq)
  <2>1. CASE ring' = ring \o o \o i
    BY <1>1, <1>3, <2>1
  <2>2. CASE ring' = ring \o i \o o
    <3>1. Len(ring') = Len(ring) + Len(inq) + Len(outq)
      BY <1>1, <1>4, <2>2
    <3> QED BY <3>1, SlotTypes
  <2> QED BY <1>2, <2>1, <2>2
<1>6. Len(outq') = 0 /\ Len(inq') = 0 /\ Len(ring') \in Nat
  BY <1>2, <1>5, SlotTypes
<1> QED BY <1>5, <1>6, SlotTypes DEF SlotsInUse

\* Steps that neither queue a request nor harvest a completion, nor begin a wait.
LEMMA SameBacklog ==
  ASSUME TypeOK, SlotsInUse' = SlotsInUse,
         pc' \in {"rwait", "wwait"} => pc \in {"rwait", "wwait"}
  PROVE  BacklogKept
<1>1. Awaited' = 0 \/ (Awaited = 1 /\ Awaited' = 1)
  BY DEF Awaited
<1>2. SlotsInUse \in Nat /\ (Awaited = 0 \/ Awaited = 1)
  BY SlotTypes DEF SlotsInUse
<1>3. CASE Awaited' = 0
  BY <1>2, <1>3 DEF BacklogKept
<1>4. CASE Awaited = 1 /\ Awaited' = 1
  BY <1>2, <1>4 DEF BacklogKept
<1> QED BY <1>1, <1>3, <1>4

\* A request that io_submit takes is awaited.
LEMMA SubmitBacklog ==
  ASSUME TypeOK, pc \notin {"rwait", "wwait"},
         SubmitRead \/ \E pkt \in Nat \X Nat : SubmitWrite(pkt)
  PROVE  BacklogKept
<1>1. SlotsInUse \in Nat /\ Awaited = 0 /\ (Awaited' = 0 \/ Awaited' = 1)
  BY SlotTypes DEF SlotsInUse, Awaited
<1>2. SlotsInUse' = SlotsInUse + 1
  <2>1. CASE SubmitRead
    <3>1. ReadRequest(nsub + 1) \in ReadRequests
      BY DEF TypeOK, ReadRequest, ReadRequests
    <3>2. Len(outq') = Len(outq) + 1
      BY <2>1, <3>1, AppendProperties DEF TypeOK, SubmitRead
    <3> QED BY <2>1, <3>2, SlotTypes DEF SubmitRead, SlotsInUse
  <2>2. ASSUME NEW pkt \in Nat \X Nat, SubmitWrite(pkt)
        PROVE  SlotsInUse' = SlotsInUse + 1
    <3>1. WriteRequest(nsub + 1, pkt) \in WriteRequests
      BY DEF TypeOK, WriteRequest, WriteRequests
    <3>2. Len(inq') = Len(inq) + 1
      BY <2>2, <3>1, AppendProperties DEF TypeOK, SubmitWrite
    <3> QED BY <2>2, <3>2, SlotTypes DEF SubmitWrite, SlotsInUse
  <2> QED BY <2>1, <2>2
<1>3. CASE Awaited' = 0
  BY <1>1, <1>2, <1>3 DEF BacklogKept
<1>4. CASE Awaited' = 1
  BY <1>1, <1>2, <1>4 DEF BacklogKept
<1> QED BY <1>1, <1>3, <1>4

\* A completion is harvested by a wait, and ends it.
LEMMA HarvestBacklog ==
  ASSUME TypeOK, pc \in {"rwait", "wwait"}, GetEvent, pc' \notin {"rwait", "wwait"}
  PROVE  BacklogKept
<1>1. SlotsInUse \in Nat /\ Awaited = 1 /\ Awaited' = 0
  BY SlotTypes DEF SlotsInUse, Awaited
<1>2. Len(ring') = Len(ring) - 1
  BY HeadTailProperties DEF TypeOK, GetEvent
<1>3. SlotsInUse' = SlotsInUse - 1
  BY <1>2, SlotTypes DEF GetEvent, SlotsInUse
<1> QED BY <1>1, <1>3 DEF BacklogKept

\* A packet taken or sent turns a queued request into a completion.
LEMMA TransferSlots ==
  ASSUME TypeOK, HostSend \/ HostRecv
  PROVE  SlotsInUse' = SlotsInUse
<1>1. CASE HostSend
  <2>1. Head(outq) \in ReadRequests
    BY <1>1, HeadTailProperties DEF TypeOK, HostSend
  <2>2. Completion(Head(outq), TRUE) \in Completions
    BY <2>1 DEF Completion, Completions, ReadRequests
  <2>3. Len(outq') = Len(outq) - 1 /\ Len(ring') = Len(ring) + 1
    BY <1>1, <2>2, AppendProperties, HeadTailProperties DEF TypeOK, HostSend
  <2> QED BY <1>1, <2>3, SlotTypes DEF HostSend, SlotsInUse
<1>2. CASE HostRecv
  <2>1. Head(inq) \in WriteRequests
    BY <1>2, HeadTailProperties DEF TypeOK, HostRecv
  <2>2. Completion(Head(inq), TRUE) \in Completions
    BY <2>1 DEF Completion, Completions, WriteRequests
  <2>3. Len(inq') = Len(inq) - 1 /\ Len(ring') = Len(ring) + 1
    BY <1>2, <2>2, AppendProperties, HeadTailProperties DEF TypeOK, HostRecv
  <2> QED BY <1>2, <2>3, SlotTypes DEF HostRecv, SlotsInUse
<1> QED BY <1>1, <1>2

\* A wait that timed out is never made good: as long as the AIO context exists, the
\* requests it holds beyond the awaited one never become fewer.
THEOREM BacklogStays == Spec => NeverCatchesUp
<1>1. TypeOK /\ [Next]_vars => [BacklogKept]_vars
  <2> SUFFICES ASSUME TypeOK, Next PROVE BacklogKept
    OBVIOUS
  <2> USE DEF kernelVars, hostVars, Goto, GiveUp
  <2>1. CASE LoopHead \/ Select \/ SelectTimeout \/ SelectError
    BY <2>1, SameBacklog DEF LoopHead, Select, SelectTimeout, SelectError, SlotsInUse
  <2>2. CASE ReadControl \/ NoControl \/ ReadControlError \/ DrainEventfd \/ DrainError
    BY <2>2, SameBacklog
       DEF ReadControl, NoControl, ReadControlError, AfterControl, DrainEventfd,
           DrainError, SlotsInUse
  <2>3. CASE PrepareRead \/ ReadTimeout \/ ParseAndCompose
    BY <2>3, SameBacklog DEF PrepareRead, ReadTimeout, ParseAndCompose, SlotsInUse
  <2>4. CASE SubmitReadHost
    <3>1. CASE SubmitRead
      BY <2>4, <3>1, SubmitBacklog DEF SubmitReadHost
    <3>2. CASE SubmitRefused /\ Goto("top")
      BY <3>2, SameBacklog DEF SubmitRefused, SlotsInUse
    <3> QED BY <2>4, <3>1, <3>2 DEF SubmitReadHost
  <2>5. CASE SubmitWriteHost
    <3>1. <<Len(processed), part>> \in Nat \X Nat
      BY DEF TypeOK
    <3>2. CASE SubmitWrite(<<Len(processed), part>>)
      BY <2>5, <3>1, <3>2, SubmitBacklog DEF SubmitWriteHost
    <3>3. CASE SubmitRefused /\ NextPart
      BY <3>3, SameBacklog, NextPartType DEF SubmitRefused, SlotsInUse
    <3> QED BY <2>5, <3>2, <3>3 DEF SubmitWriteHost
  <2>6. CASE HarvestRead
    BY <2>6, HarvestBacklog DEF HarvestRead
  <2>7. CASE HarvestWrite
    BY <2>7, HarvestBacklog, NextPartType DEF HarvestWrite
  <2>8. CASE WriteTimeout
    BY <2>8, SameBacklog, NextPartType DEF WriteTimeout, SlotsInUse
  <2>9. CASE DisableGadget
    BY <2>9, ShutdownSlots, SameBacklog DEF DisableGadget, Unbind
  <2>10. CASE Release \/ CleanupError \/ Return \/ StopRequest
    BY <2>10, SameBacklog
       DEF Release, CleanupError, Return, StopRequest, SlotsInUse
  <2>11. CASE HostReset /\ UNCHANGED svcVars
    BY <2>11, ShutdownSlots, SameBacklog DEF HostReset, svcVars
  <2>12. CASE (HostSend \/ HostRecv) /\ UNCHANGED svcVars
    BY <2>12, TransferSlots, SameBacklog DEF svcVars
  <2>13. CASE (HostConfigure \/ HostNotify) /\ UNCHANGED svcVars
    BY <2>13, SameBacklog DEF HostConfigure, HostNotify, svcVars, SlotsInUse
  <2> QED
    BY <2>1, <2>2, <2>3, <2>4, <2>5, <2>6, <2>7, <2>8, <2>9, <2>10, <2>11, <2>12,
       <2>13
       DEF Next, Service, Host
<1>2. Spec => []TypeOK
  BY TypeCorrect
<1> QED BY <1>1, <1>2, PTL DEF Spec, NeverCatchesUp

----------------------------------------------------------------------------
(* Towards main: the two flags, and the way out. *)

\* The routine is on its way out, or has returned, only with run_control down.
Down == pc \in {"out", "close", "exit", "returned", "dead"} => ~run_control

MapsToHandshake == [H!Next]_(H!vars)

\* A step that moves neither flag and neither begins nor ends the way out.
LEMMA FlagsStay ==
  ASSUME Down, UNCHANGED <<run_control, run_status>>,
         \/ UNCHANGED pc
         \/ pc' \notin {"out", "close", "exit", "returned", "dead"}
              /\ pc \notin {"returned", "dead"}
  PROVE  Down' /\ MapsToHandshake
<1>1. (pc' \in {"returned", "dead"}) <=> (pc \in {"returned", "dead"})
  OBVIOUS
<1>2. Down'
  BY DEF Down
<1> QED BY <1>1, <1>2 DEF MapsToHandshake, H!vars

\* A failed call that leaves the loop, or cleanup(), is main's request or the thread's own.
LEMMA GivingUp ==
  ASSUME run_control' = FALSE, UNCHANGED run_status,
         pc \notin {"returned", "dead"}, pc' \notin {"returned", "dead"}
  PROVE  Down' /\ MapsToHandshake
BY DEF Down, MapsToHandshake, H!Next, H!Stop

LEMMA ServiceHandshake ==
  ASSUME Down, Service
  PROVE  Down' /\ MapsToHandshake
<1>1. CASE LoopHead
  <2>1. CASE run_control
    BY <1>1, <2>1 DEF LoopHead, Goto, Down, MapsToHandshake, H!Next, H!Raise
  <2>2. CASE ~run_control
    BY <1>1, <2>2 DEF LoopHead, Goto, Down, MapsToHandshake, H!vars
  <2> QED BY <2>1, <2>2
<1>2. CASE Select \/ SelectTimeout \/ NoControl
  BY <1>2, FlagsStay DEF Select, SelectTimeout, NoControl, AfterControl, Goto
<1>3. CASE ReadControl
  BY <1>3, FlagsStay DEF ReadControl, AfterControl, Goto
<1>4. CASE DrainEventfd \/ PrepareRead \/ HarvestRead \/ ReadTimeout \/ ParseAndCompose
  BY <1>4, FlagsStay
     DEF DrainEventfd, PrepareRead, HarvestRead, ReadTimeout, ParseAndCompose, Goto
<1>5. CASE SubmitReadHost
  BY <1>5, FlagsStay DEF SubmitReadHost, Goto
<1>6. CASE SubmitWriteHost \/ HarvestWrite \/ WriteTimeout
  BY <1>6, FlagsStay DEF SubmitWriteHost, HarvestWrite, WriteTimeout, NextPart, Goto
<1>7. CASE SelectError \/ ReadControlError \/ CleanupError
  BY <1>7, GivingUp DEF SelectError, ReadControlError, CleanupError, GiveUp, Goto
<1>8. CASE DrainError
  BY <1>8 DEF DrainError, GiveUp, Goto, Down, MapsToHandshake, H!Next, H!Cut
<1>9. CASE DisableGadget \/ Release
  <2>1. pc \in {"out", "close"} /\ pc' \in {"close", "exit"}
    BY <1>9 DEF DisableGadget, Release, Goto
  <2>2. UNCHANGED <<run_control, run_status>>
    BY <1>9 DEF DisableGadget, Release
  <2> QED BY <2>1, <2>2 DEF Down, MapsToHandshake, H!vars
<1>10. CASE Return
  BY <1>10 DEF Return, Goto, Down, MapsToHandshake, H!Next, H!Finish
<1> QED
  BY <1>1, <1>2, <1>3, <1>4, <1>5, <1>6, <1>7, <1>8, <1>9, <1>10 DEF Service

\* Whatever fails and whatever times out, the routine raises run_status only while it is
\* wanted and lowers it only as its last act, with run_control down; the one other way to
\* end is that of read_eventfd, which leaves run_status as it is.
THEOREM ServiceKeepsHandshake == Spec => KeepsHandshake
<1>1. Init => Down /\ H!Init
  BY DEF Init, Down, H!Init
<1>2. Down /\ [Next]_vars => Down' /\ [H!Next]_(H!vars)
  <2> SUFFICES ASSUME Down, [Next]_vars PROVE Down' /\ MapsToHandshake
    BY DEF MapsToHandshake
  <2>1. CASE Service
    BY <2>1, ServiceHandshake
  <2>2. CASE StopRequest
    <3>1. pc \notin {"returned", "dead"}
      BY <2>2 DEF StopRequest, Down
    <3> QED BY <2>2, <3>1, GivingUp DEF StopRequest
  <2>3. CASE (Host /\ UNCHANGED svcVars) \/ UNCHANGED vars
    BY <2>3, FlagsStay DEF vars, svcVars
  <2> QED BY <2>1, <2>2, <2>3 DEF Next
<1> QED BY <1>1, <1>2, PTL DEF Spec, KeepsHandshake, H!Spec

----------------------------------------------------------------------------
\* The steps of the routine, with run_control down: each lowers Remaining.
LEMMA ServiceNearer ==
  ASSUME TypeOK, ~run_control, Service
  PROVE  ~run_control' /\ Remaining' < Remaining
<1>1. /\ ReplyPackets \in Nat /\ part \in Nat
      /\ 1 <= ReplyPackets /\ 1 <= part /\ part <= ReplyPackets
  BY ServiceAssumption DEF TypeOK
<1>2. CASE LoopHead
  BY <1>2 DEF LoopHead, Goto, Remaining
<1>3. CASE Select \/ SelectTimeout
  BY <1>1, <1>3 DEF Select, SelectTimeout, Goto, Remaining
<1>4. CASE ReadControl \/ NoControl
  <2>1. pc = "ctrl" /\ pc' \in {"drain", "top"} /\ UNCHANGED run_control
    BY <1>4 DEF ReadControl, NoControl, AfterControl, Goto
  <2> QED BY <1>1, <2>1 DEF Remaining
<1>5. CASE SelectError \/ ReadControlError \/ DrainError
  <2>1. pc \in {"mgmt", "ctrl", "drain"} /\ pc' \in {"out", "dead"} /\ ~run_control'
    BY <1>5 DEF SelectError, ReadControlError, DrainError, GiveUp, Goto
  <2> QED BY <1>1, <2>1 DEF Remaining
<1>6. CASE DrainEventfd \/ PrepareRead
  <2>1. \/ pc = "drain" /\ pc' = "rprep"
        \/ pc = "rprep" /\ pc' = "rsub"
    BY <1>6 DEF DrainEventfd, PrepareRead, Goto
  <2>2. UNCHANGED run_control
    BY <1>6 DEF DrainEventfd, PrepareRead
  <2> QED BY <1>1, <2>1, <2>2 DEF Remaining
<1>7. CASE SubmitReadHost
  <2>1. pc = "rsub" /\ pc' \in {"rwait", "top"} /\ UNCHANGED run_control
    BY <1>7 DEF SubmitReadHost, Goto
  <2> QED BY <1>1, <2>1 DEF Remaining
<1>8. CASE HarvestRead \/ ReadTimeout
  <2>1. pc = "rwait" /\ pc' \in {"parse", "top"} /\ UNCHANGED run_control
    BY <1>8 DEF HarvestRead, ReadTimeout, Goto
  <2> QED BY <1>1, <2>1 DEF Remaining
<1>9. CASE ParseAndCompose
  <2>1. pc = "parse" /\ pc' = "wsub" /\ part' = 1 /\ UNCHANGED run_control
    BY <1>9 DEF ParseAndCompose, Goto
  <2> QED BY <1>1, <2>1 DEF Remaining
<1>10. CASE SubmitWriteHost \/ HarvestWrite \/ WriteTimeout
  <2>1. /\ pc \in {"wsub", "wwait"} /\ UNCHANGED run_control
        /\ \/ pc = "wsub" /\ pc' = "wwait" /\ part' = part
           \/ part < ReplyPackets /\ part' = part + 1 /\ pc' = "wsub"
           \/ pc' = "top"
    BY <1>10 DEF SubmitWriteHost, HarvestWrite, WriteTimeout, NextPart, Goto
  <2> QED BY <1>1, <2>1 DEF Remaining
<1>11. CASE DisableGadget \/ Release \/ CleanupError \/ Return
  <2>1. \/ pc = "out" /\ pc' \in {"close", "exit"}
        \/ pc = "close" /\ pc' = "exit"
        \/ pc = "exit" /\ pc' = "returned"
    BY <1>11 DEF DisableGadget, Release, CleanupError, Return, GiveUp, Goto
  <2>2. ~run_control'
    BY <1>11 DEF DisableGadget, Release, CleanupError, Return, GiveUp
  <2> QED BY <2>1, <2>2 DEF Remaining
<1> QED
  BY <1>2, <1>3, <1>4, <1>5, <1>6, <1>7, <1>8, <1>9, <1>10, <1>11 DEF Service

\* Remaining is a number, and no more than that of the step behind select.
AtMost == 11 + 2 * ReplyPackets

LEMMA RemainingBounded ==
  ASSUME TypeOK
  PROVE  Remaining \in Nat /\ Remaining <= AtMost
<1>1. /\ ReplyPackets \in Nat /\ part \in Nat
      /\ 1 <= ReplyPackets /\ 1 <= part /\ part <= ReplyPackets
  BY ServiceAssumption DEF TypeOK
<1>2. CASE pc \in {"wsub", "wwait"}
  BY <1>1, <1>2 DEF Remaining, AtMost
<1>3. CASE pc \in {"mgmt", "ctrl", "drain", "rprep", "rsub", "rwait", "parse"}
  BY <1>1, <1>3 DEF Remaining, AtMost
<1>4. CASE pc \in {"top", "out", "close", "exit", "returned", "dead"}
  BY <1>1, <1>4 DEF Remaining, AtMost
<1>5. pc \in PCs
  BY DEF TypeOK
<1> QED BY <1>2, <1>3, <1>4, <1>5 DEF PCs

\* Asked to stop, the routine is at most 11 + 2 * ReplyPackets of its own steps from its
\* end, whatever fails, times out or arrives on the way: what StopHonoured rests on.
THEOREM StopIsNear == Spec => StopGetsNearer /\ [](Remaining \in Nat /\ Remaining <= AtMost)
<1>1. TypeOK /\ [Next]_vars => [StepsToTheEnd]_vars
  <2> SUFFICES ASSUME TypeOK, Next, ~run_control PROVE StepsToTheEnd
    BY DEF StepsToTheEnd
  <2>1. CASE Service
    BY <2>1, ServiceNearer DEF StepsToTheEnd
  <2>2. CASE StopRequest
    BY <2>2 DEF StopRequest
  <2>3. CASE Host /\ UNCHANGED svcVars
    BY <2>3 DEF svcVars, StepsToTheEnd
  <2> QED BY <2>1, <2>2, <2>3 DEF Next
<1> QED BY TypeCorrect, RemainingBounded, <1>1, PTL DEF Spec, StopGetsNearer
=============================================================================
