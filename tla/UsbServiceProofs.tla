------------------------- MODULE UsbServiceProofs -------------------------
(***************************************************************************)
(* UsbService for every value of its constants: its types, and, where no wait*)
(* times out, what its synchronous I/O gives and that it implements the steps*)
(* of Responder.                                                           *)
(***************************************************************************)
EXTENDS UsbService, TLAPS, SequenceTheorems

USE BoundsAssumption, ServiceAssumption

----------------------------------------------------------------------------
(* The queues of the driver. *)

\* An event added to the queue leaves a queue of events.
LEMMA AddEventType ==
  ASSUME NEW q \in Seq(Events), NEW e \in Events
  PROVE  AddEvent(q, e) \in Seq(Events)
<1> DEFINE kept == ToSet(q) \ Superseded(e)
<1>1. kept \subseteq Events
  BY DEF ToSet
<1>2. CASE kept = {}
  BY <1>2 DEF AddEvent
<1>3. CASE kept # {}
  <2>1. (CHOOSE x \in kept : TRUE) \in kept
    BY <1>3
  <2>2. (CHOOSE x \in kept : TRUE) \in Events
    BY <1>1, <2>1
  <2> QED BY <1>3, <2>2 DEF AddEvent
<1> QED BY <1>2, <1>3

\* Requests of either kind that are cancelled become completions.
LEMMA CancelledType ==
  ASSUME NEW q, q \in Seq(ReadRequests) \/ q \in Seq(WriteRequests)
  PROVE  Cancelled(q) \in Seq(Completions)
<1>1. /\ Len(q) \in Nat
      /\ DOMAIN q = 1..Len(q)
      /\ \A i \in 1..Len(q) : q[i] \in ReadRequests \cup WriteRequests
  OBVIOUS
<1>2. \A i \in 1..Len(q) : Completion(q[i], FALSE) \in Completions
  BY <1>1 DEF Completion, Completions, ReadRequests, WriteRequests
<1>3. Cancelled(q) \in [1..Len(q) -> Completions]
  BY <1>1, <1>2 DEF Cancelled
<1> QED
  BY <1>1, <1>3, SeqDef

\* Stopping the endpoints leaves queues of the right type.
LEMMA ShutdownType ==
  ASSUME TypeOK, Shutdown
  PROVE  /\ epOn' \in BOOLEAN
         /\ outq' \in Seq(ReadRequests) /\ inq' \in Seq(WriteRequests)
         /\ ring' \in Seq(Completions)
<1>1. Cancelled(outq) \in Seq(Completions) /\ Cancelled(inq) \in Seq(Completions)
  BY CancelledType DEF TypeOK
<1>2. /\ ring \o Cancelled(outq) \o Cancelled(inq) \in Seq(Completions)
      /\ ring \o Cancelled(inq) \o Cancelled(outq) \in Seq(Completions)
  BY <1>1, ConcatProperties DEF TypeOK
<1>3. <<>> \in Seq(ReadRequests) /\ <<>> \in Seq(WriteRequests)
  BY EmptySeq
<1>4. ring' \in Seq(Completions)
  BY <1>2, Zenon DEF Shutdown
<1> QED
  BY <1>3, <1>4 DEF Shutdown

\* Signalling an event keeps the types of the queue and of the eventfd.
LEMMA SignalType ==
  ASSUME TypeOK, NEW e \in Events, Signal(e)
  PROVE  evq' \in Seq(Events) /\ efd' \in BOOLEAN
  BY AddEventType DEF TypeOK, Signal

----------------------------------------------------------------------------
(* Typing. *)

\* The initial state has the types.
LEMMA InitType == Init => TypeOK
<1> SUFFICES ASSUME Init PROVE TypeOK
  OBVIOUS
<1>1. evq \in Seq(Events)
  BY DEF Init, KernelInit, Events, StateEvents
<1>2. /\ outq \in Seq(ReadRequests) /\ inq \in Seq(WriteRequests)
      /\ ring \in Seq(Completions) /\ hostGot \in Seq(Nat \X Nat)
      /\ processed \in Seq(Nat)
  BY EmptySeq DEF Init, KernelInit
<1>3. part \in 1..ReplyPackets /\ rfds \subseteq {"ctrl", "efd"} /\ pc \in PCs
  BY DEF Init, PCs
<1>4. /\ sent \in 0..MaxSend /\ resets \in 0..MaxReset /\ notifies \in 0..MaxNotify
      /\ buf \in Nat /\ nsub \in Nat
  BY DEF Init, KernelInit
<1> QED
  BY <1>1, <1>2, <1>3, <1>4 DEF Init, KernelInit, TypeOK

\* Every step of the host keeps them.
LEMMA HostType ==
  ASSUME TypeOK, Host, UNCHANGED svcVars
  PROVE  TypeOK'
<1> USE DEF svcVars, hostVars
<1>1. CASE HostConfigure
  BY <1>1, SignalType DEF TypeOK, HostConfigure, Events, StateEvents
<1>2. CASE HostReset
  <2>1. Shutdown /\ Signal("DISABLE") /\ "DISABLE" \in Events
    BY <1>2 DEF HostReset, Events, StateEvents
  <2> QED
    BY <1>2, <2>1, SignalType, ShutdownType DEF TypeOK, HostReset
<1>3. CASE HostNotify
  BY <1>3, SignalType DEF TypeOK, HostNotify, Events
<1>4. CASE HostSend
  <2>0. Head(outq) \in ReadRequests
    BY <1>4, HeadTailProperties DEF TypeOK, HostSend
  <2>1. Completion(Head(outq), TRUE) \in Completions
    BY <2>0 DEF Completion, Completions, ReadRequests
  <2>2. ring' \in Seq(Completions) /\ outq' \in Seq(ReadRequests)
    BY <1>4, <2>1, AppendProperties, HeadTailProperties DEF TypeOK, HostSend
  <2>3. sent' \in 0..MaxSend /\ buf' \in Nat
    BY <1>4 DEF TypeOK, HostSend
  <2> QED
    BY <1>4, <2>2, <2>3 DEF TypeOK, HostSend
<1>5. CASE HostRecv
  <2>0. Head(inq) \in WriteRequests
    BY <1>5, HeadTailProperties DEF TypeOK, HostRecv
  <2>1. /\ Completion(Head(inq), TRUE) \in Completions
        /\ Head(inq).pkt \in Nat \X Nat
    BY <2>0 DEF Completion, Completions, WriteRequests
  <2>2. /\ ring' \in Seq(Completions) /\ inq' \in Seq(WriteRequests)
        /\ hostGot' \in Seq(Nat \X Nat)
    BY <1>5, <2>1, AppendProperties, HeadTailProperties DEF TypeOK, HostRecv
  <2> QED
    BY <1>5, <2>2 DEF TypeOK, HostRecv
<1> QED
  BY <1>1, <1>2, <1>3, <1>4, <1>5 DEF Host

\* The calls of the routine into the driver keep the types of what they change.
LEMMA IoType ==
  ASSUME TypeOK
  PROVE  /\ SubmitRead => nsub' \in Nat /\ outq' \in Seq(ReadRequests)
         /\ \A pkt \in Nat \X Nat :
              SubmitWrite(pkt) => nsub' \in Nat /\ inq' \in Seq(WriteRequests)
         /\ GetEvent => ring' \in Seq(Completions)
<1>1. ASSUME SubmitRead PROVE nsub' \in Nat /\ outq' \in Seq(ReadRequests)
  <2>1. ReadRequest(nsub + 1) \in ReadRequests
    BY DEF TypeOK, ReadRequest, ReadRequests
  <2>2. nsub \in Nat /\ nsub' = nsub + 1 /\ outq \in Seq(ReadRequests)
        /\ outq' = Append(outq, ReadRequest(nsub + 1))
    BY <1>1 DEF TypeOK, SubmitRead
  <2> QED BY <2>1, <2>2
<1>2. ASSUME NEW pkt \in Nat \X Nat, SubmitWrite(pkt)
      PROVE  nsub' \in Nat /\ inq' \in Seq(WriteRequests)
  <2>1. WriteRequest(nsub + 1, pkt) \in WriteRequests
    BY DEF TypeOK, WriteRequest, WriteRequests
  <2>2. nsub \in Nat /\ nsub' = nsub + 1 /\ inq \in Seq(WriteRequests)
        /\ inq' = Append(inq, WriteRequest(nsub + 1, pkt))
    BY <1>2 DEF TypeOK, SubmitWrite
  <2> QED BY <2>1, <2>2
<1>3. ASSUME GetEvent PROVE ring' \in Seq(Completions)
  <2>1. ring \in Seq(Completions) /\ ring # <<>> /\ ring' = Tail(ring)
    BY <1>3 DEF TypeOK, GetEvent
  <2> QED BY <2>1
<1> QED BY <1>1, <1>2, <1>3

\* The next part of a reply is one of its parts.
LEMMA NextPartType ==
  ASSUME TypeOK, NextPart
  PROVE  part' \in 1..ReplyPackets /\ pc' \in {"wsub", "top"}
  BY DEF TypeOK, NextPart, Goto

\* Every step of the routine keeps the types.
LEMMA ServiceType ==
  ASSUME TypeOK, Service
  PROVE  TypeOK'
<1> USE DEF PCs, hostVars, kernelVars, Goto, GiveUp
<1>1. CASE LoopHead \/ Select \/ SelectTimeout \/ SelectError
  <2>1. CASE LoopHead
    <3>1. pc' \in PCs /\ run_status' \in BOOLEAN
      BY <2>1 DEF TypeOK, LoopHead
    <3> QED BY <2>1, <3>1 DEF TypeOK, LoopHead
  <2>2. CASE Select
    <3>1. rfds' \subseteq {"ctrl", "efd"}
      BY <2>2 DEF Select, Readable
    <3> QED BY <2>2, <3>1 DEF TypeOK, Select
  <2>3. CASE SelectTimeout
    BY <2>3 DEF TypeOK, SelectTimeout
  <2>4. CASE SelectError
    BY <2>4 DEF TypeOK, SelectError
  <2> QED BY <1>1, <2>1, <2>2, <2>3, <2>4
<1>2. CASE ReadControl
  <2>1. evq' \in Seq(Events)
    BY <1>2, HeadTailProperties DEF TypeOK, ReadControl
  <2>2. BindedAfter(Head(evq)) \in BOOLEAN /\ EnabledAfter(Head(evq)) \in BOOLEAN
    BY DEF TypeOK, BindedAfter, EnabledAfter
  <2>3. AfterControl(ffs_enabled') \in PCs
    BY DEF AfterControl
  <2> QED
    BY <1>2, <2>1, <2>2, <2>3 DEF TypeOK, ReadControl
<1>3. CASE NoControl
  <2>1. AfterControl(ffs_enabled) \in PCs
    BY DEF AfterControl
  <2> QED BY <1>3, <2>1 DEF TypeOK, NoControl
<1>4. CASE ReadControlError \/ DrainError
  <2>1. CASE ReadControlError
    BY <2>1 DEF TypeOK, ReadControlError
  <2>2. CASE DrainError
    BY <2>2 DEF TypeOK, DrainError
  <2> QED BY <1>4, <2>1, <2>2
<1>5. CASE DrainEventfd
  BY <1>5 DEF TypeOK, DrainEventfd
<1>6. CASE PrepareRead
  <2>1. buf' \in Nat
    BY <1>6 DEF PrepareRead
  <2> QED
    BY <1>6, <2>1 DEF TypeOK, PrepareRead
<1>7. CASE SubmitReadHost
  <2>1. CASE SubmitRead /\ Goto("rwait")
    <3>1. nsub' \in Nat /\ outq' \in Seq(ReadRequests)
      BY <2>1, IoType
    <3> QED BY <1>7, <2>1, <3>1 DEF TypeOK, SubmitReadHost, SubmitRead
  <2>2. CASE SubmitRefused /\ Goto("top")
    BY <1>7, <2>2 DEF TypeOK, SubmitReadHost, SubmitRefused
  <2> QED BY <1>7, <2>1, <2>2 DEF SubmitReadHost
<1>8. CASE HarvestRead
  <2>1. ring' \in Seq(Completions)
    BY <1>8, IoType DEF HarvestRead
  <2> QED BY <1>8, <2>1 DEF TypeOK, HarvestRead, GetEvent
<1>9. CASE ReadTimeout
  BY <1>9 DEF TypeOK, ReadTimeout
<1>10. CASE ParseAndCompose
  <2>1. processed' \in Seq(Nat)
    BY <1>10, AppendProperties DEF TypeOK, ParseAndCompose
  <2>2. part' \in 1..ReplyPackets
    BY <1>10 DEF ParseAndCompose
  <2> QED BY <1>10, <2>1, <2>2 DEF TypeOK, ParseAndCompose
<1>11. CASE SubmitWriteHost
  <2>1. <<Len(processed), part>> \in Nat \X Nat
    BY DEF TypeOK
  <2>2. CASE SubmitWrite(<<Len(processed), part>>) /\ Goto("wwait") /\ UNCHANGED part
    <3>1. nsub' \in Nat /\ inq' \in Seq(WriteRequests)
      BY <2>1, <2>2, IoType
    <3> QED BY <1>11, <2>2, <3>1 DEF TypeOK, SubmitWriteHost, SubmitWrite
  <2>3. CASE SubmitRefused /\ NextPart
    <3>1. part' \in 1..ReplyPackets /\ pc' \in {"wsub", "top"}
      BY <2>3, NextPartType
    <3> QED BY <1>11, <2>3, <3>1 DEF TypeOK, SubmitWriteHost, SubmitRefused
  <2> QED BY <1>11, <2>2, <2>3 DEF SubmitWriteHost
<1>12. CASE HarvestWrite
  <2>1. ring' \in Seq(Completions)
    BY <1>12, IoType DEF HarvestWrite
  <2>2. part' \in 1..ReplyPackets /\ pc' \in {"wsub", "top"}
    BY <1>12, NextPartType DEF HarvestWrite
  <2> QED BY <1>12, <2>1, <2>2 DEF TypeOK, HarvestWrite, GetEvent
<1>13. CASE WriteTimeout
  <2>1. part' \in 1..ReplyPackets /\ pc' \in {"wsub", "top"}
    BY <1>13, NextPartType DEF WriteTimeout
  <2> QED BY <1>13, <2>1 DEF TypeOK, WriteTimeout
<1>14. CASE DisableGadget
  <2>1. Shutdown /\ Signal("UNBIND") /\ "UNBIND" \in Events
    BY <1>14 DEF DisableGadget, Unbind, Events, StateEvents
  <2> QED
    BY <1>14, <2>1, ShutdownType, SignalType DEF TypeOK, DisableGadget, Unbind
<1>15. CASE Release \/ CleanupError \/ Return
  <2>1. CASE Release
    BY <2>1 DEF TypeOK, Release
  <2>2. CASE CleanupError
    BY <2>2 DEF TypeOK, CleanupError
  <2>3. CASE Return
    BY <2>3 DEF TypeOK, Return
  <2> QED BY <1>15, <2>1, <2>2, <2>3
<1> QED
  BY <1>1, <1>2, <1>3, <1>4, <1>5, <1>6, <1>7, <1>8, <1>9, <1>10, <1>11, <1>12,
     <1>13, <1>14, <1>15
     DEF Service

\* So does every step.
LEMMA NextType ==
  ASSUME TypeOK, [Next]_vars
  PROVE  TypeOK'
<1>1. CASE Service
  BY <1>1, ServiceType
<1>2. CASE StopRequest
  BY <1>2 DEF TypeOK, StopRequest, kernelVars, hostVars
<1>3. CASE Host /\ UNCHANGED svcVars
  BY <1>3, HostType
<1>4. CASE UNCHANGED vars
  BY <1>4 DEF TypeOK, vars, svcVars, kernelVars, hostVars
<1> QED BY <1>1, <1>2, <1>3, <1>4 DEF Next

\* TypeOK holds in every reachable state, whatever fails and however long the
\* host takes.
THEOREM TypeCorrect == Spec => []TypeOK
<1>1. TypeOK /\ [Next]_vars => TypeOK'
  BY NextType
<1> QED BY InitType, <1>1, PTL DEF Spec

----------------------------------------------------------------------------
(* Without timeouts the routine's I/O is synchronous. *)

\* The conjunction that is inductive when io_getevents does not give up:
\* neither ParsedInOrder nor ResultMatchesRequest is, alone.
IInv == TypeOK /\ OneRequest /\ ParsedInOrder /\ Accounting

\* What cancelling makes of no request and of one.
LEMMA CancelledCases ==
  /\ Cancelled(<<>>) = <<>>
  /\ \A r : Cancelled(<<r>>) = <<Completion(r, FALSE)>>
<1>1. Cancelled(<<>>) = <<>>
  BY DEF Cancelled
<1>2. ASSUME NEW r PROVE Cancelled(<<r>>) = <<Completion(r, FALSE)>>
  <2> DEFINE c == Completion(r, FALSE)
  <2>0. DOMAIN <<r>> = 1..1 /\ \A i \in 1..1 : <<r>>[i] = r
    OBVIOUS
  <2>1. Cancelled(<<r>>) = [i \in 1..1 |-> c]
    BY <2>0, Zenon DEF Cancelled
  <2>2. <<c>> \in Seq({c}) /\ [i \in 1..1 |-> c] \in Seq({c})
    BY SeqDef
  <2>3. Len([i \in 1..1 |-> c]) = 1 /\ Len(<<c>>) = 1
    OBVIOUS
  <2> HIDE DEF c
  <2>4. [i \in 1..1 |-> c] = <<c>>
    BY <2>2, <2>3, SeqEqual
  <2> QED BY <2>1, <2>4 DEF c
<1> QED BY <1>1, <1>2

\* Concatenations around a single completion.
LEMMA Singleton ==
  ASSUME NEW c
  PROVE  <<>> \o <<c>> \o <<>> = <<c>> /\ <<>> \o <<>> \o <<c>> = <<c>>
<1>1. <<c>> \in Seq({c})
  OBVIOUS
<1> QED BY <1>1, ConcatEmptySeq

\* At the start nothing is submitted, accepted or parsed.
LEMMA InitInv == Init => IInv
<1> SUFFICES ASSUME Init PROVE IInv
  OBVIOUS
<1>1. TypeOK
  BY InitType
<1>2. OneRequest
  BY DEF Init, KernelInit, OneRequest
<1>3. ParsedInOrder /\ Accounting
  BY DEF Init, KernelInit, ParsedInOrder, Accounting, Landed
<1> QED BY <1>1, <1>2, <1>3 DEF IInv

\* Stopping the endpoints turns the outstanding request, if there is one, into
\* a completion that reports failure.
LEMMA ShutdownInv ==
  ASSUME IInv, Shutdown, UNCHANGED <<pc, nsub, part, processed, buf, sent>>
  PROVE  OneRequest' /\ Accounting'
<1> USE CancelledCases DEF Shutdown
<1>1. CASE pc = "rwait"
  <2>1. inq = <<>> /\ Outstanding(outq, ReadRequest(nsub))
    BY <1>1 DEF IInv, OneRequest
  <2>2. CASE outq = <<ReadRequest(nsub)>> /\ ring = <<>>
    <3>1. ring' = <<Completion(ReadRequest(nsub), FALSE)>>
      BY <2>1, <2>2, Singleton
    <3> QED
      BY <1>1, <2>1, <2>2, <3>1
         DEF IInv, OneRequest, Outstanding, Accounting, Landed, Completion
  <2>3. CASE outq = <<>> /\ \E good \in BOOLEAN : ring = <<Completion(ReadRequest(nsub), good)>>
    <3>1. ring' = ring
      BY <2>1, <2>3
    <3> QED
      BY <1>1, <2>1, <2>3, <3>1
         DEF IInv, OneRequest, Outstanding, Accounting, Landed
  <2> QED BY <2>1, <2>2, <2>3 DEF Outstanding
<1>2. CASE pc = "wwait"
  <2> DEFINE req == WriteRequest(nsub, <<Len(processed), part>>)
  <2>1. outq = <<>> /\ Outstanding(inq, req)
    BY <1>2 DEF IInv, OneRequest
  <2>2. CASE inq = <<req>> /\ ring = <<>>
    <3>1. ring' = <<Completion(req, FALSE)>>
      BY <2>1, <2>2, Singleton
    <3> QED
      BY <1>2, <2>1, <2>2, <3>1
         DEF IInv, OneRequest, Outstanding, Accounting, Landed
  <2>3. CASE inq = <<>> /\ \E good \in BOOLEAN : ring = <<Completion(req, good)>>
    <3>1. ring' = ring
      BY <2>1, <2>3
    <3> QED
      BY <1>2, <2>1, <2>3, <3>1
         DEF IInv, OneRequest, Outstanding, Accounting, Landed
  <2> QED BY <2>1, <2>2, <2>3 DEF Outstanding
<1>3. CASE pc \notin {"rwait", "wwait"}
  <2>1. outq = <<>> /\ inq = <<>> /\ ring = <<>>
    BY <1>3 DEF IInv, OneRequest
  <2>2. ring' = <<>>
    BY <2>1
  <2> QED
    BY <1>3, <2>1, <2>2 DEF IInv, OneRequest, Accounting, Landed
<1> QED BY <1>1, <1>2, <1>3

\* The host completes the request that is outstanding, and no other.
LEMMA HostInv ==
  ASSUME IInv, Host, UNCHANGED svcVars
  PROVE  IInv'
<1>1. TypeOK'
  BY HostType DEF IInv
<1>2. ParsedInOrder'
  BY DEF IInv, ParsedInOrder, svcVars
<1> USE DEF svcVars, hostVars
<1>3. CASE HostConfigure \/ HostNotify
  BY <1>1, <1>2, <1>3
     DEF IInv, HostConfigure, HostNotify, OneRequest, Outstanding, Accounting, Landed
<1>4. CASE HostReset
  BY <1>1, <1>2, <1>4, ShutdownInv DEF IInv, HostReset
<1>5. CASE HostSend
  <2>1. pc = "rwait" /\ inq = <<>> /\ ring = <<>> /\ outq = <<ReadRequest(nsub)>>
    BY <1>5 DEF IInv, OneRequest, Outstanding, HostSend
  <2>2. /\ outq' = <<>> /\ inq' = <<>>
        /\ ring' = <<Completion(ReadRequest(nsub), TRUE)>>
    BY <1>5, <2>1 DEF HostSend
  <2>3. OneRequest'
    BY <1>5, <2>1, <2>2 DEF OneRequest, Outstanding, HostSend
  <2>4. ~Landed /\ Landed'
    BY <2>1, <2>2 DEF Landed, Completion
  <2>5. Accounting'
    BY <1>5, <2>4 DEF IInv, TypeOK, Accounting, HostSend
  <2> QED BY <1>1, <1>2, <2>3, <2>5 DEF IInv
<1>6. CASE HostRecv
  <2> DEFINE req == WriteRequest(nsub, <<Len(processed), part>>)
  <2>1. pc = "wwait" /\ outq = <<>> /\ ring = <<>> /\ inq = <<req>>
    BY <1>6 DEF IInv, OneRequest, Outstanding, HostRecv
  <2>2. outq' = <<>> /\ inq' = <<>> /\ ring' = <<Completion(req, TRUE)>>
    BY <1>6, <2>1 DEF HostRecv
  <2>3. OneRequest'
    BY <1>6, <2>1, <2>2 DEF OneRequest, Outstanding, HostRecv
  <2>4. Accounting'
    BY <1>6, <2>1 DEF IInv, Accounting, Landed, HostRecv
  <2> QED BY <1>1, <1>2, <2>3, <2>4 DEF IInv
<1> QED
  BY <1>3, <1>4, <1>5, <1>6 DEF Host

\* A wait that never gives up has no step of its own for it.
LEMMA NoTimeouts == MayTimeout = FALSE => ~ReadTimeout /\ ~WriteTimeout
  BY DEF ReadTimeout, WriteTimeout

\* The routine submits one request and harvests it before it goes on.
LEMMA ServiceInv ==
  ASSUME IInv, Service, ~ReadTimeout, ~WriteTimeout
  PROVE  IInv'
<1>1. TypeOK'
  BY ServiceType DEF IInv
<1> USE DEF IInv, kernelVars, hostVars, Goto, GiveUp
<1>2. CASE LoopHead \/ Select \/ SelectTimeout \/ SelectError
  BY <1>1, <1>2 DEF LoopHead, Select, SelectTimeout, SelectError,
     OneRequest, ParsedInOrder, Accounting, Landed
<1>3. CASE ReadControl
  BY <1>1, <1>3 DEF ReadControl, AfterControl,
     OneRequest, ParsedInOrder, Accounting, Landed
<1>4. CASE NoControl
  BY <1>1, <1>4 DEF NoControl, AfterControl,
     OneRequest, ParsedInOrder, Accounting, Landed
<1>5. CASE ReadControlError \/ DrainEventfd \/ DrainError
  BY <1>1, <1>5 DEF ReadControlError, DrainEventfd, DrainError,
     OneRequest, ParsedInOrder, Accounting, Landed
<1>6. CASE PrepareRead
  BY <1>1, <1>6 DEF PrepareRead, OneRequest, ParsedInOrder, Accounting, Landed
<1>7. CASE SubmitReadHost
  <2>1. outq = <<>> /\ inq = <<>> /\ ring = <<>>
    BY <1>7 DEF SubmitReadHost, OneRequest
  <2>2. CASE SubmitRead /\ Goto("rwait")
    <3>1. outq' = <<ReadRequest(nsub')>> /\ inq' = <<>> /\ ring' = <<>>
      BY <2>1, <2>2 DEF SubmitRead
    <3> QED
      BY <1>1, <1>7, <2>2, <3>1 DEF SubmitReadHost, SubmitRead,
         OneRequest, Outstanding, ParsedInOrder, Accounting, Landed
  <2>3. CASE SubmitRefused /\ Goto("top")
    BY <1>1, <1>7, <2>1, <2>3 DEF SubmitReadHost, SubmitRefused,
       OneRequest, ParsedInOrder, Accounting, Landed
  <2> QED BY <1>7, <2>2, <2>3 DEF SubmitReadHost
<1>8. CASE HarvestRead
  <2>1. PICK good \in BOOLEAN :
          /\ outq = <<>> /\ inq = <<>>
          /\ ring = <<Completion(ReadRequest(nsub), good)>>
    BY <1>8 DEF HarvestRead, GetEvent, OneRequest, Outstanding
  <2>2. ring' = <<>> /\ outq' = <<>> /\ inq' = <<>>
    BY <1>8, <2>1 DEF HarvestRead, GetEvent
  <2>3. Head(ring).op = "read" /\ Head(ring).ok = good /\ ring[1].ok = good
    BY <2>1 DEF Completion, ReadRequest
  <2>4. pc' = IF good THEN "parse" ELSE "top"
    BY <1>8, <2>3 DEF HarvestRead, ReadMatches
  <2>5. Landed' = Landed
    BY <1>8, <2>1, <2>2, <2>3, <2>4 DEF HarvestRead, Landed
  <2>6. OneRequest'
    BY <2>2, <2>4 DEF OneRequest
  <2> QED
    BY <1>1, <1>8, <2>5, <2>6 DEF HarvestRead, GetEvent, ParsedInOrder, Accounting
<1>9. CASE ReadTimeout \/ WriteTimeout
  BY <1>9
<1>10. CASE ParseAndCompose
  <2>1. Landed /\ ~Landed'
    BY <1>10 DEF ParseAndCompose, Landed
  <2>2. buf = Len(processed) + 1
    BY <2>1 DEF Accounting
  <2>3. /\ Len(processed') = Len(processed) + 1
        /\ \A i \in 1..Len(processed) : processed'[i] = processed[i]
        /\ processed'[Len(processed) + 1] = buf
    BY <1>10, AppendProperties DEF TypeOK, ParseAndCompose
  <2>4. ParsedInOrder'
    <3>1. /\ Len(processed) \in Nat /\ DOMAIN processed = 1..Len(processed)
          /\ DOMAIN processed' = 1..Len(processed')
      BY <1>1 DEF TypeOK
    <3> QED
      BY <2>2, <2>3, <3>1 DEF ParsedInOrder
  <2>5. OneRequest'
    BY <1>10 DEF ParseAndCompose, OneRequest
  <2>6. Accounting'
    BY <1>10, <2>1, <2>3 DEF TypeOK, ParseAndCompose, Accounting
  <2> QED BY <1>1, <2>4, <2>5, <2>6
<1>11. CASE SubmitWriteHost
  <2>1. outq = <<>> /\ inq = <<>> /\ ring = <<>>
    BY <1>11 DEF SubmitWriteHost, OneRequest
  <2> DEFINE pkt == <<Len(processed), part>>
  <2>2. CASE SubmitWrite(pkt) /\ Goto("wwait") /\ UNCHANGED part
    <3>1. outq' = <<>> /\ inq' = <<WriteRequest(nsub', pkt)>> /\ ring' = <<>>
      BY <2>1, <2>2 DEF SubmitWrite
    <3> QED
      BY <1>1, <1>11, <2>2, <3>1 DEF SubmitWriteHost, SubmitWrite,
         OneRequest, Outstanding, ParsedInOrder, Accounting, Landed
  <2>3. CASE SubmitRefused /\ NextPart
    BY <1>1, <1>11, <2>1, <2>3, NextPartType DEF SubmitWriteHost, SubmitRefused,
       OneRequest, ParsedInOrder, Accounting, Landed
  <2> QED BY <1>11, <2>2, <2>3 DEF SubmitWriteHost
<1>12. CASE HarvestWrite
  <2>1. outq = <<>> /\ inq = <<>> /\ Len(ring) = 1
    BY <1>12 DEF HarvestWrite, GetEvent, OneRequest, Outstanding
  <2>2. outq' = <<>> /\ inq' = <<>> /\ ring' = <<>>
    <3>1. /\ ring \in Seq(Completions) /\ ring' = Tail(ring)
          /\ outq' = outq /\ inq' = inq
      BY <1>12 DEF TypeOK, HarvestWrite, GetEvent
    <3>2. Tail(ring) = <<>>
      BY <2>1, <3>1
    <3> QED BY <2>1, <3>1, <3>2
  <2>3. pc' \in {"wsub", "top"}
    BY <1>12, NextPartType DEF HarvestWrite
  <2> QED
    BY <1>1, <1>12, <2>2, <2>3 DEF HarvestWrite, GetEvent,
       OneRequest, ParsedInOrder, Accounting, Landed
<1>13. CASE DisableGadget
  <2>1. outq = <<>> /\ inq = <<>> /\ ring = <<>>
    BY <1>13 DEF DisableGadget, OneRequest
  <2>2. outq' = <<>> /\ inq' = <<>> /\ ring' = <<>>
    BY <1>13, <2>1, CancelledCases DEF DisableGadget, Unbind, Shutdown
  <2> QED
    BY <1>1, <1>13, <2>2 DEF DisableGadget, Unbind,
       OneRequest, ParsedInOrder, Accounting, Landed
<1>14. CASE Release \/ CleanupError \/ Return
  BY <1>1, <1>14 DEF Release, CleanupError, Return,
     OneRequest, ParsedInOrder, Accounting, Landed
<1> QED
  BY <1>2, <1>3, <1>4, <1>5, <1>6, <1>7, <1>8, <1>9, <1>10, <1>11, <1>12, <1>13,
     <1>14 DEF Service

\* So does every step but a timeout keep it.
LEMMA NextInv ==
  ASSUME IInv, [Next]_vars, ~ReadTimeout, ~WriteTimeout
  PROVE  IInv'
<1>1. CASE Service
  BY <1>1, ServiceInv
<1>2. CASE StopRequest
  <2>1. UNCHANGED <<kernelVars, pc, part, processed>>
    BY <1>2 DEF StopRequest
  <2>2. TypeOK'
    BY <1>2 DEF IInv, TypeOK, StopRequest, kernelVars, hostVars
  <2> QED
    BY <2>1, <2>2 DEF IInv, kernelVars, hostVars, OneRequest, Outstanding,
       ParsedInOrder, Accounting, Landed
<1>3. CASE Host /\ UNCHANGED svcVars
  BY <1>3, HostInv
<1>4. CASE UNCHANGED vars
  <2>1. TypeOK'
    BY <1>4 DEF IInv, TypeOK, vars, svcVars, kernelVars, hostVars
  <2> QED
    BY <1>4, <2>1 DEF IInv, OneRequest, Outstanding, ParsedInOrder, Accounting,
       Landed, vars, svcVars, kernelVars, hostVars
<1> QED BY <1>1, <1>2, <1>3, <1>4 DEF Next

\* With a wait that does not time out, IInv holds in every reachable state.
THEOREM SynchronousIO == MayTimeout = FALSE => (Spec => []IInv)
<1> SUFFICES ASSUME MayTimeout = FALSE PROVE Spec => []IInv
  OBVIOUS
<1>1. IInv /\ [Next]_vars => IInv'
  BY NextInv, NoTimeouts
<1> QED BY InitInv, <1>1, PTL DEF Spec

\* A completion that io_getevents returns is that of the request the caller has
\* just submitted, and the only one.
THEOREM CompletionsMatch == MayTimeout = FALSE => (Spec => []ResultMatchesRequest)
<1> SUFFICES ASSUME MayTimeout = FALSE PROVE Spec => []ResultMatchesRequest
  OBVIOUS
<1>1. IInv => ResultMatchesRequest
  BY DEF IInv, OneRequest, Outstanding, ResultMatchesRequest, Completion,
         ReadRequest, WriteRequest
<1> QED BY <1>1, SynchronousIO, PTL

\* Every packet the device accepts is parsed, once, unchanged and in order.
THEOREM PacketsParsed == MayTimeout = FALSE => (Spec => []EveryPacketParsedOnce)
<1> SUFFICES ASSUME MayTimeout = FALSE PROVE Spec => []EveryPacketParsedOnce
  OBVIOUS
<1>1. IInv => EveryPacketParsedOnce
  BY DEF IInv, TypeOK, ParsedInOrder, Accounting, Landed, EveryPacketParsedOnce
<1> QED BY <1>1, SynchronousIO, PTL

\* A request exists only while its caller waits for it.
THEOREM RequestsAlone == MayTimeout = FALSE => (Spec => []OneRequest)
<1> SUFFICES ASSUME MayTimeout = FALSE PROVE Spec => []OneRequest
  OBVIOUS
<1>1. IInv => OneRequest
  BY DEF IInv
<1> QED BY <1>1, SynchronousIO, PTL

----------------------------------------------------------------------------
(* Waits that may end, in a routine that is stopped before they do. *)

\* Where the routine may be once a wait has ended: it has no more than its reply to
\* write, and it parses nothing more.
WayOut == {"top", "wsub", "wwait", "out", "close", "exit", "returned", "dead"}
Late == ~run_control /\ pc \in WayOut /\ ParsedInOrder

\* The disjunction that is inductive there.
SInv == TypeOK /\ (IInv \/ Late)

\* Where it is stopped first, a wait that ends leaves the routine on its way out.
LEMMA TimeoutIsLate ==
  ASSUME IInv, MayTimeout => PromptStop, ReadTimeout \/ WriteTimeout
  PROVE  Late'
<1>1. /\ ~run_control /\ run_control' = run_control /\ processed' = processed
      /\ pc' \in WayOut
  BY DEF ReadTimeout, WriteTimeout, NextPart, Goto, WayOut
<1> QED BY <1>1 DEF Late, IInv, ParsedInOrder

\* On its way out the routine stays on it.
LEMMA LateStays ==
  ASSUME TypeOK, Late, [Next]_vars
  PROVE  Late'
<1> USE DEF WayOut, Goto, GiveUp
<1>1. ASSUME run_control' = FALSE, pc' \in WayOut, processed' = processed PROVE Late'
  BY <1>1 DEF Late, ParsedInOrder
<1>2. CASE Service
  <2>1. CASE LoopHead
    BY <1>1, <2>1 DEF TypeOK, Late, LoopHead
  <2>2. CASE SubmitWriteHost
    BY <1>1, <2>2 DEF TypeOK, Late, SubmitWriteHost, NextPart
  <2>3. CASE HarvestWrite
    BY <1>1, <2>3 DEF TypeOK, Late, HarvestWrite, NextPart
  <2>4. CASE WriteTimeout
    BY <1>1, <2>4 DEF TypeOK, Late, WriteTimeout, NextPart
  <2>5. CASE DisableGadget \/ Release \/ CleanupError \/ Return
    BY <1>1, <2>5 DEF TypeOK, Late, DisableGadget, Release, CleanupError, Return
  <2>6. CASE Select \/ SelectTimeout \/ SelectError
    BY <2>6 DEF Late, Select, SelectTimeout, SelectError
  <2>7. CASE ReadControl \/ NoControl \/ ReadControlError
    BY <2>7 DEF Late, ReadControl, NoControl, ReadControlError
  <2>8. CASE DrainEventfd \/ DrainError \/ PrepareRead
    BY <2>8 DEF Late, DrainEventfd, DrainError, PrepareRead
  <2>9. CASE SubmitReadHost \/ HarvestRead \/ ReadTimeout \/ ParseAndCompose
    BY <2>9 DEF Late, SubmitReadHost, HarvestRead, ReadTimeout, ParseAndCompose
  <2> QED
    BY <1>2, <2>1, <2>2, <2>3, <2>4, <2>5, <2>6, <2>7, <2>8, <2>9 DEF Service
<1>3. CASE StopRequest
  BY <1>3 DEF Late, StopRequest
<1>4. CASE Host /\ UNCHANGED svcVars
  BY <1>1, <1>4 DEF TypeOK, Late, svcVars
<1>5. CASE UNCHANGED vars
  BY <1>1, <1>5 DEF TypeOK, Late, vars, svcVars
<1> QED BY <1>2, <1>3, <1>4, <1>5 DEF Next

\* Where main stops the routine before a wait can end, its I/O is synchronous and every
\* packet is accounted for as long as it is wanted; and even after the stop, whatever
\* times out then, it parses the packets as they were sent.
THEOREM TimeoutsHarmless ==
  (MayTimeout => PromptStop) => (Spec => [](SoundWhileWanted /\ ParsedInOrder))
<1> SUFFICES ASSUME MayTimeout => PromptStop
             PROVE  Spec => [](SoundWhileWanted /\ ParsedInOrder)
  OBVIOUS
<1>1. Init => SInv
  BY InitInv DEF SInv, IInv
<1>2. SInv /\ [Next]_vars => SInv'
  <2> SUFFICES ASSUME SInv, [Next]_vars PROVE SInv'
    OBVIOUS
  <2>1. TypeOK'
    BY NextType DEF SInv
  <2>2. CASE Late
    BY <2>1, <2>2, LateStays DEF SInv
  <2>3. CASE IInv /\ (ReadTimeout \/ WriteTimeout)
    BY <2>1, <2>3, TimeoutIsLate DEF SInv
  <2>4. CASE IInv /\ ~ReadTimeout /\ ~WriteTimeout
    BY <2>1, <2>4, NextInv DEF SInv
  <2> QED BY <2>2, <2>3, <2>4 DEF SInv
<1>3. SInv => SoundWhileWanted /\ ParsedInOrder
  BY DEF SInv, IInv, Late, SoundWhileWanted
<1> QED BY <1>1, <1>2, <1>3, PTL DEF Spec

----------------------------------------------------------------------------
(* The abstract specification: every step is one of Responder's, or none. *)

\* Where the reply stands, between the routine and the host.
Progress ==
  /\ hostGot # <<>> => hostGot[Len(hostGot)][1] <= Len(processed)
  /\ pc \in {"wsub", "wwait"} => processed # <<>>
  /\ pc = "wsub" \/ (pc = "wwait" /\ inq # <<>>) =>
       R!Delivered < part /\ (resets = 0 => R!Delivered = part - 1)
  /\ pc = "wwait" /\ inq = <<>> =>
       R!Delivered <= part /\ (resets = 0 => R!Delivered = part)
  /\ pc \notin {"wsub", "wwait"} => R!Finished \/ resets > 0

\* The conjunction that is inductive.
RInv == IInv /\ Progress

MapsToStep == [R!Next]_(R!vars)

\* What the host has of the reply is a number.
LEMMA DeliveredType ==
  ASSUME TypeOK
  PROVE  R!Delivered \in Nat /\ Len(hostGot) \in Nat /\ Len(processed) \in Nat
<1>1. ASSUME hostGot # <<>> PROVE hostGot[Len(hostGot)] \in Nat \X Nat
  BY <1>1 DEF TypeOK
<1> QED BY <1>1 DEF TypeOK, R!Delivered, R!Reply

\* A part that arrives is what the host has of the reply from then on.
LEMMA PartArrives ==
  ASSUME TypeOK, processed' = processed, processed # <<>>,
         NEW k \in 1..ReplyPackets, hostGot' = Append(hostGot, <<Len(processed), k>>)
  PROVE  /\ hostGot' # <<>> /\ hostGot'[Len(hostGot')][1] = Len(processed')
         /\ R!Delivered' = k
<1>1. /\ Len(hostGot') = Len(hostGot) + 1
      /\ hostGot'[Len(hostGot')] = <<Len(processed), k>>
  BY AppendProperties DEF TypeOK
<1>2. hostGot' # <<>>
  BY <1>1, DeliveredType
<1> QED BY <1>1, <1>2 DEF R!Delivered, R!Reply

\* Steps that touch neither the reply nor the host map to a stutter.
LEMMA Stutter ==
  ASSUME UNCHANGED <<sent, processed, hostGot, resets>>
  PROVE  /\ MapsToStep
         /\ R!Delivered' = R!Delivered /\ R!Finished' = R!Finished
  BY DEF MapsToStep, R!vars, R!Delivered, R!Finished, R!Reply

\* The steps of the host.
LEMMA HostRefines ==
  ASSUME RInv, Host, UNCHANGED svcVars
  PROVE  RInv' /\ MapsToStep
<1> USE DEF svcVars, hostVars
<1>1. IInv'
  BY HostInv DEF RInv
<1>2. CASE HostConfigure \/ HostNotify
  <2>1. UNCHANGED <<sent, processed, hostGot, resets>>
    BY <1>2 DEF HostConfigure, HostNotify
  <2> QED BY <1>1, <1>2, <2>1, Stutter DEF RInv, Progress, HostConfigure, HostNotify
<1>3. CASE HostReset
  <2>1. resets' = resets + 1 /\ resets \in Nat
    BY <1>3 DEF HostReset, RInv, IInv, TypeOK
  <2>2. UNCHANGED <<sent, processed, hostGot, pc, part>> /\ inq' = <<>>
    BY <1>3 DEF HostReset, Shutdown
  <2>3. R!Delivered' = R!Delivered
    BY <2>2 DEF R!Delivered, R!Reply
  <2>4. R!Reset
    BY <2>1, <2>2 DEF R!Reset
  <2>5. MapsToStep
    BY <2>4 DEF MapsToStep, R!Next
  <2>6. Progress'
    BY <2>1, <2>2, <2>3, DeliveredType DEF RInv, IInv, TypeOK, Progress
  <2> QED BY <1>1, <2>5, <2>6 DEF RInv
<1>4. CASE HostSend
  <2>1. pc = "rwait" /\ ring = <<>>
    BY <1>4 DEF RInv, IInv, OneRequest, Outstanding, HostSend
  <2>2. sent = Len(processed)
    BY <2>1, DeliveredType DEF RInv, IInv, TypeOK, Accounting, Landed
  <2>3. R!Take
    BY <1>4, <2>1, <2>2 DEF RInv, IInv, TypeOK, Progress, HostSend, R!Take, R!Reply
  <2>4. MapsToStep
    BY <2>3 DEF MapsToStep, R!Next
  <2>5. R!Finished' = R!Finished
    BY <1>4 DEF HostSend, R!Finished, R!Delivered, R!Reply
  <2>6. Progress'
    BY <1>4, <2>1, <2>5 DEF RInv, Progress, HostSend
  <2> QED BY <1>1, <2>4, <2>6 DEF RInv
<1>5. CASE HostRecv
  <2> DEFINE req == WriteRequest(nsub, <<Len(processed), part>>)
  <2>1. pc = "wwait" /\ ring = <<>> /\ inq = <<req>>
    BY <1>5 DEF RInv, IInv, OneRequest, Outstanding, HostRecv
  <2>2. inq' = <<>> /\ hostGot' = Append(hostGot, <<Len(processed), part>>)
    BY <1>5, <2>1 DEF HostRecv, WriteRequest
  <2>3. /\ UNCHANGED <<sent, processed, resets, pc, part>>
        /\ processed # <<>> /\ part \in 1..ReplyPackets
    BY <1>5, <2>1 DEF RInv, IInv, TypeOK, Progress, HostRecv
  <2>4. sent = Len(processed)
    BY <2>1, DeliveredType DEF RInv, IInv, TypeOK, Accounting, Landed
  <2>5. R!Delivered < part /\ (resets = 0 => R!Delivered = part - 1)
    BY <2>1 DEF RInv, Progress
  <2>6. R!Deliver(part)
    BY <2>2, <2>3, <2>4, <2>5, DeliveredType DEF RInv, IInv, R!Deliver, R!Reply
  <2>7. MapsToStep
    BY <2>3, <2>6 DEF MapsToStep, R!Next
  <2>8. /\ hostGot' # <<>> /\ hostGot'[Len(hostGot')][1] = Len(processed')
        /\ R!Delivered' = part
    BY <2>2, <2>3, PartArrives DEF RInv, IInv
  <2>9. Progress'
    BY <2>1, <2>2, <2>3, <2>8, DeliveredType DEF RInv, IInv, Progress
  <2> QED BY <1>1, <2>7, <2>9 DEF RInv
<1> QED BY <1>2, <1>3, <1>4, <1>5 DEF Host

\* A write that is over leaves the reply at its next part, or finished.
LEMMA NextPartProgress ==
  ASSUME RInv, pc = "wwait", inq = <<>>, NextPart, inq' = inq,
         UNCHANGED <<sent, processed, hostGot, resets>>
  PROVE  Progress' /\ MapsToStep
<1>1. R!Delivered' = R!Delivered /\ R!Finished' = R!Finished /\ MapsToStep
  BY Stutter
<1>2. /\ R!Delivered \in Nat /\ part \in 1..ReplyPackets /\ processed # <<>>
      /\ R!Delivered <= part /\ (resets = 0 => R!Delivered = part)
  BY DeliveredType DEF RInv, IInv, TypeOK, Progress
<1>3. CASE part < ReplyPackets
  BY <1>1, <1>2, <1>3 DEF RInv, Progress, NextPart, Goto
<1>4. CASE ~(part < ReplyPackets)
  <2>1. part = ReplyPackets /\ pc' = "top"
    BY <1>2, <1>4 DEF NextPart, Goto
  <2>2. R!Finished \/ resets > 0
    BY <1>2, <2>1 DEF R!Finished, RInv, IInv, TypeOK
  <2> QED BY <1>1, <2>1, <2>2 DEF RInv, Progress
<1> QED BY <1>1, <1>3, <1>4

\* The steps of the routine.
LEMMA ServiceRefines ==
  ASSUME RInv, Service, MayTimeout = FALSE
  PROVE  RInv' /\ MapsToStep
<1> USE DEF kernelVars, hostVars, Goto, GiveUp
<1>1. IInv'
  BY ServiceInv, NoTimeouts DEF RInv
<1>2. ASSUME UNCHANGED <<sent, processed, hostGot, resets>>,
             pc \notin {"wsub", "wwait"}, pc' \notin {"wsub", "wwait"}
      PROVE  RInv' /\ MapsToStep
  BY <1>1, <1>2, Stutter DEF RInv, Progress
<1>3. CASE LoopHead \/ Select \/ SelectTimeout \/ SelectError
  BY <1>2, <1>3 DEF LoopHead, Select, SelectTimeout, SelectError
<1>4. CASE ReadControl \/ NoControl \/ ReadControlError
  BY <1>2, <1>4 DEF ReadControl, NoControl, ReadControlError, AfterControl
<1>5. CASE DrainEventfd \/ DrainError \/ PrepareRead
  BY <1>2, <1>5 DEF DrainEventfd, DrainError, PrepareRead
<1>6. CASE SubmitReadHost
  BY <1>2, <1>6 DEF SubmitReadHost, SubmitRead, SubmitRefused
<1>7. CASE HarvestRead
  BY <1>2, <1>7 DEF HarvestRead, GetEvent
<1>8. CASE ParseAndCompose
  <2>1. pc = "parse" /\ pc' = "wsub" /\ part' = 1
    BY <1>8 DEF ParseAndCompose
  <2>2. buf = sent /\ sent = Len(processed) + 1
    BY <2>1 DEF RInv, IInv, Accounting, Landed
  <2>3. R!Parse
    BY <1>8, <2>2, DeliveredType
       DEF RInv, IInv, TypeOK, ParseAndCompose, R!Parse, R!Reply
  <2>4. MapsToStep
    BY <2>3 DEF MapsToStep, R!Next
  <2>5. Len(processed') = Len(processed) + 1 /\ processed' # <<>>
    <3>1. processed' = Append(processed, buf) /\ buf \in Nat /\ processed \in Seq(Nat)
      BY <1>8 DEF RInv, IInv, TypeOK, ParseAndCompose
    <3> QED BY <3>1, AppendProperties
  <2>6. hostGot' = hostGot /\ (hostGot # <<>> => hostGot[Len(hostGot)] \in Nat \X Nat)
    BY <1>8 DEF RInv, IInv, TypeOK, ParseAndCompose
  <2>7. hostGot # <<>> => hostGot[Len(hostGot)][1] <= Len(processed)
    BY DEF RInv, Progress
  <2>8. R!Delivered' = 0
    BY <2>5, <2>6, <2>7, DeliveredType DEF RInv, IInv, R!Delivered, R!Reply
  <2>9. Progress'
    BY <2>1, <2>5, <2>6, <2>7, <2>8, DeliveredType DEF RInv, IInv, Progress
  <2> QED BY <1>1, <2>4, <2>9 DEF RInv
<1>9. CASE SubmitWriteHost
  <2>1. SlotsInUse = 0
    BY <1>9 DEF SubmitWriteHost, RInv, IInv, OneRequest, SlotsInUse
  <2>2. SubmitWrite(<<Len(processed), part>>) /\ pc' = "wwait" /\ part' = part
    BY <1>9, <2>1 DEF SubmitWriteHost, SubmitRefused
  <2>3. UNCHANGED <<sent, processed, hostGot, resets>>
    BY <1>9, <2>2 DEF SubmitWriteHost, SubmitWrite
  <2>4. inq' # <<>>
    <3>1. inq' = Append(inq, WriteRequest(nsub + 1, <<Len(processed), part>>))
      BY <2>2 DEF SubmitWrite
    <3>2. WriteRequest(nsub + 1, <<Len(processed), part>>) \in WriteRequests
      BY DEF RInv, IInv, TypeOK, WriteRequest, WriteRequests
    <3>3. inq \in Seq(WriteRequests)
      BY DEF RInv, IInv, TypeOK
    <3> QED BY <3>1, <3>2, <3>3, AppendProperties
  <2>5. pc = "wsub"
    BY <1>9 DEF SubmitWriteHost
  <2> QED BY <1>1, <2>2, <2>3, <2>4, <2>5, Stutter DEF RInv, Progress
<1>10. CASE HarvestWrite
  <2>1. pc = "wwait" /\ ring # <<>> /\ NextPart /\ inq' = inq
        /\ UNCHANGED <<sent, processed, hostGot, resets>>
    BY <1>10 DEF HarvestWrite, GetEvent
  <2>2. inq = <<>>
    BY <2>1 DEF RInv, IInv, OneRequest, Outstanding
  <2> QED BY <1>1, <2>1, <2>2, NextPartProgress DEF RInv
<1>11. CASE DisableGadget
  BY <1>2, <1>11 DEF DisableGadget, Unbind
<1>12. CASE Release \/ CleanupError \/ Return
  BY <1>2, <1>12 DEF Release, CleanupError, Return
<1>13. CASE ReadTimeout \/ WriteTimeout
  BY <1>13 DEF ReadTimeout, WriteTimeout
<1> QED
  BY <1>3, <1>4, <1>5, <1>6, <1>7, <1>8, <1>9, <1>10, <1>11, <1>12, <1>13
     DEF Service

\* While waits do not time out, every run of the service is one of the abstract
\* responder: packets are taken one at a time, parsed as sent, and the reply is
\* delivered whole and in order before the next is taken, unless the host resets.
THEOREM ServiceImplementsResponder ==
  MayTimeout = FALSE => (Spec => ImplementsResponder)
<1> SUFFICES ASSUME MayTimeout = FALSE PROVE Spec => ImplementsResponder
  OBVIOUS
<1>1. Init => RInv /\ R!Init
  <2> SUFFICES ASSUME Init PROVE RInv /\ R!Init
    OBVIOUS
  <2>1. IInv
    BY InitInv
  <2> QED BY <2>1 DEF Init, KernelInit, RInv, Progress, R!Init, R!Finished
<1>2. RInv /\ [Next]_vars => RInv' /\ [R!Next]_(R!vars)
  <2> SUFFICES ASSUME RInv, [Next]_vars PROVE RInv' /\ MapsToStep
    BY DEF MapsToStep
  <2>1. CASE Service
    BY <2>1, ServiceRefines
  <2>2. CASE StopRequest
    <3>1. IInv'
      BY <2>2, NextInv, NoTimeouts DEF RInv, Next
    <3>2. UNCHANGED <<sent, processed, hostGot, resets, pc, part, inq>>
      BY <2>2 DEF StopRequest, kernelVars, hostVars
    <3> QED BY <3>1, <3>2, Stutter DEF RInv, Progress
  <2>3. CASE Host /\ UNCHANGED svcVars
    BY <2>3, HostRefines
  <2>4. CASE UNCHANGED vars
    <3>1. IInv'
      BY <2>4, NextInv, NoTimeouts DEF RInv
    <3>2. UNCHANGED <<sent, processed, hostGot, resets, pc, part, inq>>
      BY <2>4 DEF vars, kernelVars, hostVars, svcVars
    <3> QED BY <3>1, <3>2, Stutter DEF RInv, Progress
  <2> QED BY <2>1, <2>2, <2>3, <2>4 DEF Next
<1> QED BY <1>1, <1>2, PTL DEF Spec, ImplementsResponder, R!Spec
=============================================================================
