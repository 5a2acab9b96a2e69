# Verification of the OneKey USB service

TLA+ models of the program in `src/`: a Linux process that sets up a USB gadget
through configfs and FunctionFS and serves a host on two bulk endpoints. TLC checks
the models on small instances, TLAPS proves some of the results for every instance.

    tlc -workers 2 -config ServiceNoTimeout.cfg MCDialogue.tla
    tlapm UsbServiceProofs.tla

## The system

| part | source | state it keeps | operations |
|---|---|---|---|
| main | `main.cpp` | `thread_run_control`, `thread_run_status`, a counter | start and detach the service thread, wait until it runs, wait 20 s, stop it, wait, return |
| bootloader service | `onekey_usb_bootloader_mode.hpp` | the two buffers, the handles below | `init`, `cleanup`, `usb_service_routine` (the thread) |
| FunctionFS handler | `onekey_usb_functionfs.hpp` | descriptors of ep0, IN, OUT and an eventfd; `ffs_binded`, `ffs_enabled`; an AIO context and two iocbs | `ffs_init`, `ffs_cleanup`, `aio_init`, `aio_cleanup`, `aio_set_timeout`, select, `read_ctrl`, `process_control_event`, `read_eventfd`, `read_host`, `write_host` |
| configfs handle | `onekey_usb_configfs.hpp` | libusbgx state, gadget, config, function, UDC | `init`, `enable`, `disable`, `cleanup` |
| parser | `onekey_protocol.hpp` | packets of the message so far, the message | `parse_legacy` |
| composer | `onekey_protocol.hpp` | packets of the message, the message | `compose_legacy` |
| kernel and host | not in the repository | event queue, endpoints, AIO queues, eventfd | used through select, read, `io_submit`, `io_getevents`, configfs, mount |
| firmware mode | `onekey_usb.hpp`, `onekey_usb_firmware_mode.hpp` | - | not built, or empty: not modelled |

How they interact. `main` and the thread share two atomic flags. The thread is a loop:
select on ep0 and the eventfd; if ep0 is readable, read one event (ENABLE and DISABLE
set `ffs_enabled`); if enabled and the eventfd was readable, read the eventfd, then
`read_host` queues a read of 64 bytes and waits for a completion, `parse_legacy` gets
the buffer, a Features message of 84 bytes is composed into two packets whatever was
parsed, and `write_host` queues and awaits each. The same eventfd is raised by every
event of ep0 and by every completion, those of `write_host` included; that is what
makes the loop try another read.

What is hard in it, and what makes each part right:

- **the service**: the completion a wait returns must be that of the request just
  submitted; one buffer serves every read, and is zero-filled before each; one wakeup
  stands for several completions; the device can be reset at any point, also between
  the test of `ffs_enabled` and `io_submit`, which then blocks; the driver discards
  events it has queued. Right means: every packet parsed once and unchanged, answered,
  replies in order, the flag follows the endpoints, never deaf, stops when told.
- **start and stop**: a dozen kernel objects acquired in order, any of which may fail,
  with no undo; a detached thread on main's locals; what a killed program leaves in
  configfs and in the mount table. Right means: nothing left by a clean run, no step
  out of order, main never returns while the thread still uses its locals, the program ends.
- **parser, composer**: boundaries of packets, header fields, a message begun inside
  another. Right means: the data comes back, nothing is skipped or repeated, and the
  packets kept are those of one message.

The full list of what is hard to test, line by line, is `hazards` in `PROJECT.json`.

## Modules

| module | models | extends / uses |
|---|---|---|
| `Responder` | what the service promises: packets taken one at a time, parsed, answered in full | |
| `Handshake` | what `main` may rely on: how the thread's two flags rise and fall | |
| `FfsKernel` | driver, AIO context, eventfd and host, as far as the service can tell | |
| `UsbService` | `usb_service_routine` between `init` and `cleanup`, one action per call it makes | `FfsKernel`, instances of `Responder` and `Handshake` |
| `UsbServiceProofs` | typing; synchronous I/O and what follows from it; the steps of the service are steps of `Responder`; what a prompt stop saves | `UsbService` |
| `UsbServiceFaultProofs` | the flag, the events and the wakeups; the order of release; what holds of replies, parsed packets and the backlog although waits time out; the flags and the way out | `UsbServiceProofs` |
| `LegacyPacket` | packet layout, header fields, `message_parsed` | |
| `Composer`, `Parser` | the two classes of `onekey_protocol.hpp` | `LegacyPacket` |
| `FlattenProofs` | what `FlattenSeq` makes of a sequence one longer, by induction | |
| `ParserProofs` | one message, and the data of the pack, for every sequence of packets | `Parser`, `FlattenProofs` |
| `Codec` | both back to back, as two peers running this code would use them | `Composer`, an instance of `Parser` |
| `CodecProofs` | packets carry the message and the parser recovers it, for every size | `Codec` |
| `Dialogue` | the service and its parser: the buffer the driver fills is what is parsed | `UsbService`, an instance of `Parser` |
| `DialogueProofs` | the message of the host arrives, whatever its packets hold, for every number of packets and resets | `Dialogue`, `UsbServiceProofs`, `FlattenProofs` |
| `AioTimeout` | how long the waits of `read_host` and `write_host` are | |
| `AioTimeoutProofs` | there is one timeout | `AioTimeout` |
| `Lifecycle` | main, `init`, `cleanup`, the ways out of the thread, several programs in a row | an instance of `Handshake` |
| `LifecycleProofs` | its invariants, whatever fails; its steps are steps of `Handshake` | `Lifecycle` |
| `MCDialogue`, `MCParser`, `MCCodec`, `MCAioTimeout` | packets, messages and timeouts for TLC | |

Correspondence with the code:

- *UsbService.* `pc` names the call the thread is about to make (the table is at the head of
  the module). A call that blocks is an action that is not enabled. The kernel can move
  between any two calls. `buf` is the memory of `buf_read_host`: the driver writes it when a
  queued read takes a packet, `PrepareRead` zero-fills it, and `ParseAndCompose` reads it,
  two actions later. Packets are numbers, 0 is the zero-filled buffer; a packet of a reply
  is (reply, part). What the parser makes of the buffer does not change what the loop does,
  so parsing and composing are one step here, and have modules of their own. `SubmitRefused`
  is `io_submit` with a full context, `MayTimeout` whether `io_getevents` may return 0;
  `Faults` names the other calls that may fail. `PromptStop` is what `main.cpp` adds: it
  asks the thread to stop 20 s after it has seen it run, and a wait ends after 60 s, so no
  wait ends before the request to stop. Without it the service may be driven by an owner
  that lets it run. A failing `read_eventfd` returns without cleanup and with `run_status`
  still true (`DrainError`), as in the code; `StopHonoured` admits that way out, and no
  other, as one that leaves `run_status` set. `RAC_ADVANCE` is not in the repository (a
  submodule); that `continue` and `break` in its last argument act on the loop around it is
  read off the output in `Readme.md`.
- *FfsKernel.* FunctionFS keeps one event of a kind: a state event discards queued state
  events, a notification only its like. Stopping the endpoints completes every queued
  request with an error, in either order of the endpoints. The OUT endpoint takes a
  packet only into a queued read. `io_submit` on an endpoint that is not enabled waits.
- *Responder.* The abstract specification. `taken` is what the driver accepted (`sent`),
  `parsed` what the parser was given (`processed`), `got` what the host received
  (`hostGot`); the names in parentheses are the refinement mapping, the instance `R` of
  `UsbService`. The routine's `pc`, the endpoints, the requests, the completions, the
  events and the eventfd have no counterpart: their steps are stutters. A reset is kept,
  because it excuses a reply that was cut short.
- *Handshake.* The abstract specification towards `main`: `control` and `status` are
  `run_control` and `run_status`, `over` that the thread has used them for the last time.
  Two modules implement it, `UsbService` with `over` for `pc` at `returned` or `dead`, and
  `Lifecycle` with `over` for `step` in `Left`: the one step "run" of `Lifecycle` and the
  whole of `UsbService` keep the same promise. `Finish` is the clearing of `run_status`,
  `Cut` the return from a failed `read_eventfd` and the end of the process. When `main` may
  ask to stop is left open, so nothing the thread does rests on it.
- *Dialogue.* `UsbService` numbers the packets; here they have contents, and
  `ParseAndCompose` is joined with `Parser`'s `Parse` on what `buf` holds at that moment,
  zeroes or a packet. An exception of the parser ends the process. `HostAssumption` asks of
  the host's packets only that they are not longer than a packet and not shorter than a
  header; they may hold any bytes. So a message may have no data, as the Initialize of the
  Readme, it may announce too little or too much, and packets may come before any first one;
  `DataOf` is what the parser takes of each.
- *AioTimeout.* `TooLow` is the test as the language reads it, a Boolean compared with a
  number. `MayTimeout` is the choice of the last argument of `io_getevents`. That a wait of
  60000 ms, given to the kernel as nanoseconds, ends after 60 s is taken from the target,
  aarch64 with its 64-bit `time_t` and `long`, and from a kernel that adds the nanoseconds up.
- *Composer.* One action per packet. Behind data shorter than the first packet
  `compose_legacy` reads on: `JunkBytes` is what it may find, `Crash` that it faults. An
  empty message is copied from `begin()` of an empty vector, which is null unless the vector
  once held data: `allocated` says so, and without it `Begin` is not enabled and only
  `Crash` is left.
- *Codec.* The caller composes a message only when the last one is across, and calls
  `parse_legacy` on one packet after another; the wire loses nothing. `Recognised` says
  which packs the parser can tell apart: none behind the first packet begins with the bytes
  "?##", and the size the parser reads, with its bytes swapped, passes the test of the
  second branch. The rest is in "Further behaviour".
- *Parser.* One action per call. `JunkBytes` is what the loads behind a short packet
  may find; `at(0)` of an empty packet and `assign` from behind the end throw.
- *Lifecycle.* `Program` is the order of the calls of `init`, the loop as one step, and
  `cleanup`; `step` is where the thread is in it. `Gains` and `Loses` say what a step
  acquires and releases, `CanSucceed` what it needs of the kernel. `held` outlives the
  process, `own` does not. `usbg_cleanup` on a failed libusbgx call frees the state; a
  missing UDC frees it and goes on (`UdcMissing`). Descriptors the driver refuses are
  logged and `init` goes on (`DescsRefused`): the driver then refuses the strings. Any
  other failed call returns from the routine, releasing nothing. Clearing `run_status`
  (`ClearStatus`, "exit" to "leave") and the end of the detached thread (`ThreadReturns`,
  "leave" to "returned") are two steps, and `main` may return between them: what is left to
  do there, the return, the routine's own locals and its `AutoLog`, is nothing of main's.
  `Left` are those two places. `Die` is being killed; that `filesystem::remove` throws on a
  path still mounted cannot happen (`PathIsFree`).

Definitions whose comment begins with "Mutant" are slips the properties are shown to
detect; nothing uses them.

## Runs

| run | question | states |
|---|---|---|
| `ServiceNoTimeout` | is the loop right while waits do not time out, through resets, notifications and failing calls, does it implement `Responder`, and does the message reach the parser? | 225 000 |
| `ServiceTimeout` | what still holds when they do and the AIO context (3 slots) fills, and does the routine stop, on the shortest way and as `Handshake` says? | 1 167 000 |
| `ServicePrompt` | is the service sound as `main.cpp` runs it, stopped before a wait can end, with replies of three packets? | 392 000 |
| `ParserPackets` | do data and pack agree after any four calls, and are they of one message? | 3 900 |
| `CodecData` | are messages at and around packet ends split correctly, and does the parser recover what the composer splits? | 10 600 |
| `LifecycleFaults` | with any step failing and the process killed, are order and leftovers right over three programs, and the flags as `Handshake` says? | 1 663 |
| `LifecycleEnds` | with `init` succeeding and `cleanup` failing anywhere, does the program end, on live state, and never wait in vain? | 188 |

Runs that end in a counterexample, each a statement of the repository that the code
does not keep (`findings` in `PROJECT.json`):

- `ServiceMismatch`: "result should always match the request we just submitted". A wait
  that times out leaves its request queued; the next one gets its completion. It takes no
  more than `main.cpp`: asked to stop while it writes the first packet of a reply, the
  routine waits that write out and gets its late completion for the second. In a routine
  that is not stopped within 60 s `ParsedInOrder`, `EveryPacketParsedOnce` and `NeverDeaf`
  fall too.
- `ServiceLost`: the read errors "are not important". The packet of the read that timed
  out lands in the buffer, wakes the loop, and is zero-filled before it is harvested. This
  takes a routine that outlives a wait of 60 s; in the demo, which stops it after 20 s,
  no packet is lost (`ServicePrompt`).
- `ParserOverflow`: "make sure parsed + new data won't overflow informed total size".
  The test does not use the data parsed so far: a packet is taken whenever it alone is short
  enough for the announced size. In the trace a message of 125 bytes grows beyond them
  with packets cut to 40 bytes; with whole packets every message of 126 or more can.
- `CodecHeader`: the packets shown in the Readme have id and size most significant byte
  first, which is how the composer writes and not how the parser reads. The messages there
  have 55 bytes and more, which `compose_legacy` can read to fill the first packet.
- `TimeoutKept`: "Timeout too low, correrted!". The test is always true, so a timeout
  above the minimum and the -1 of an unlimited wait are replaced as well. With it falls
  the way out of the first two findings: everything below that is said to hold "while
  waits do not time out" is said of a handler that no caller of `aio_set_timeout` can
  have. Of the program it holds as long as `run_control` is up, because `main.cpp` lowers it
  before a wait of 60 s can end (`ServicePrompt`, `TimeoutsHarmless`), which rests on two
  numbers in two files.

Further behaviour that the models show and no line of the repository denies: `main` spins
for ever if `init` fails (`MainEnds` with an `init` step in `Faulty`), if `read_eventfd`
does, or if the loop fails so early that `run_status` rises and falls between two reads of
it (`MainEnds` with "run" in `Faulty`); a missing UDC leads to the use of a freed state
(`NoUseAfterFree` with `get_udc` in `Faulty`); and with timeouts a service that is not
stopped before them can stop hearing the host (`NeverDeaf` with `MayTimeout` and no
`PromptStop`). A message with "##" where the data of a packet behind the first begins is not
recovered: the packet is taken for the first of another message; nor is one whose size is a
multiple of 2^24, which is read as less than 256 and refused its second packet
(`DataSurvives` without `Recognised`). Refused descriptors, which `RAC_SIMPLE` lets pass,
are on the other hand caught one step later: the driver refuses the strings, and the gadget
is not enabled (`FilesUnderMount` with `descs` in `Faulty`).

Why the bounds are enough. In `ServiceNoTimeout` a reply has two packets, as the 84 bytes of
the Features message do, and the host has four packets of ten bytes: Initialize, which
announces no data, and a message of three packets, the last of them short, so that one
message follows another, is continued twice and ends before a packet does. Two resets allow
one while a reply is half sent and one while `io_submit` is blocked on the first; one
notification suffices to hold each of the event queue's two places; two AIO slots are what a
synchronous loop needs at most. In `ServiceTimeout` three packets, three slots and no
notification let three reads be outstanding on the one buffer, one more than it takes for a
completion to be taken for another's, and fill the context, so that refusals occur at every
call; a reply has one packet there, which leaves room for them (the order inside a reply is
in `ServicePrompt`, where a reply has three packets, so that two of them can be left queued
before the last is tried; in `ServiceNoTimeout` through `Responder`; and in
`RepliesOrdered`, for every length). `ServicePrompt` keeps the two slots: after the stop the
context fills with the first waits that end, and the refusals are there. In `CodecData` the
sizes of messages stand one below, at and one above the ends of the first, second and fifth
packet (55, 118, 307), among them those of one byte and of none, and the 84 bytes of
Features; three calls let a message follow a longer one and a rejected call. `MCParser`
announces sizes on both sides of the 126 the second branch compares with, and cuts packets
to 0, 1, 2, 8, 9 and 40 bytes. Three programs are a failed one, one that finds what it left,
and one that finds what that left. No bound cuts off the service: it keeps running when the
host has used up its packets.

Deadlock is not checked: the service may return, or wait for a host that stays silent,
and callers of parser and composer stop calling.

## Fairness

- `WF(Service)`: one thread, always scheduled; a blocked call disables its action.
- `WF(HostRecv)`: a host polls the IN endpoint of a device it has configured. Without it
  a reply never completes, in the model as on the bus.
- `WF(HostConfigure)`: the host configures the device again after a reset. `StopHonoured`
  depends on it: `io_submit` on a disabled endpoint does not look at `run_control`. The
  host is under no obligation to send, reset or notify.
- `WF(Thread)`, `WF(Main)` in `Lifecycle`: two threads that run when they can.
- `WF(ComposeNext \/ Finish)` in `Codec`: a function that goes on.

Being killed, failing and timing out are never fair.

## Proofs

Every theorem is for all values of the constants. Those on `UsbService` use only the
types of the constants, unless `MayTimeout = FALSE` or `MayTimeout => PromptStop` is named.

With timeouts, faults, any number of packets and resets:

- `TypeCorrect`.
- `FlagFollows`. `FlagTracksKernel` is not inductive: one must know what the queued event
  says. `EInv` adds `EventsTell`: the queue holds at most one state event and one
  notification, and the state event is true of the endpoints (ENABLE: up; DISABLE: down;
  BIND: down and the flag clear; UNBIND: only when nothing will be read). Lemmas
  `AddStateEvent`, `AddNotification` and `ReadEvent` say what the driver's discarding and
  the routine's reading do to such a queue; every other step leaves queue, flag and
  endpoints alone.
- `ReleasedQuiet` rests on `QInv`: from `disable` on, unbound implies endpoints down and
  queues empty, and an unbound gadget cannot be configured again.
- `RepliesOrdered`. `OInv` adds to what the host has what is still queued on the IN
  endpoint: the two in a row are ordered, and nothing in them is later than the packet
  the routine is writing. The steps that matter are `HostRecv`, which moves a packet from
  one to the other, and `SubmitWriteHost`, which appends the next.
- `RepliesHaveCause`. That there are no more parses than packets is not inductive: several
  reads may have completed and be harvested later. `NInv` numbers the reads in the ring
  that succeeded: the numbers ascend, lie above the packets parsed and not above those
  sent. Harvesting one uses up its number.
- `NoneParsedTwice`. `CInv` says that between the zeroing of the buffer and the parse the
  buffer holds zeroes or a packet later than all that were parsed. It is the zeroing in
  `read_host` that makes it hold: the step that costs a packet in `ServiceLost` is the one
  that keeps an old packet from being parsed again.
- `BacklogStays` is the action property `NeverCatchesUp`: the requests in the AIO context
  beyond the awaited one never become fewer while the context exists. Beside the types it
  needs no invariant; the lemmas count the slots: `ShutdownSlots` (a reset completes
  requests and frees no slot), `TransferSlots`, and `HarvestBacklog` and `SubmitBacklog`
  (a slot is freed or taken with a wait that ends or begins). Once timeouts have filled
  the context, `io_submit` therefore refuses for good.

- `ServiceKeepsHandshake`, the refinement of `Handshake`, from `Down`: the routine is on its
  way out only with `run_control` down. `LoopHead` is `Raise`, `StopRequest` and every failed
  call are `Stop`, `Return` is `Finish`, `DrainError` is `Cut`, all else stutters.
- `StopIsNear` is the action property `StopGetsNearer`: with `run_control` down every step of
  the routine lowers `Remaining`, a number of at most 11 + 2 * `ReplyPackets`, whatever the
  driver and the host do in between (`ServiceNearer`, `RemainingBounded`). It is the part of
  `StopHonoured` that needs no fairness; that a step comes at all is the other part.

With `MayTimeout = FALSE`; the two service counterexamples show that they need it:

- `SynchronousIO`, `RequestsAlone`, `CompletionsMatch`, `PacketsParsed`. The invariant is

      IInv == TypeOK /\ OneRequest /\ ParsedInOrder /\ Accounting

  `ResultMatchesRequest` alone says nothing of the endpoints' queues, from which the next
  completion comes: `OneRequest` says that the caller's request is the only one anywhere,
  queued or completed. `ParsedInOrder` alone does not say that the buffer holds the next
  packet when it is parsed: `Accounting` counts the packets accepted against those parsed
  and says which one the buffer holds. The interesting cases are `HostSend` and `HostReset`
  while a read is queued, `HarvestRead` and `ParseAndCompose`.
- `ServiceImplementsResponder`. `RInv` adds `Progress`, where the reply stands between
  routine and host: before a part is submitted the host has what precedes it, after it
  was taken the host has it too, and outside the writes the reply is finished or a reset
  has happened. Then `HostSend` is `Take`, `ParseAndCompose` is `Parse`, `HostRecv` is
  `Deliver`, `HostReset` is `Reset`, and the rest are stutters.
- `MessagesArrive` joins the service with its parser (`ServiceInDialogue` carries all of the
  above over to it), for every host that keeps `HostAssumption`, whatever the bytes of its
  packets. `DInv` adds to `IInv` that the parser holds the message begun last, up to packet
  `Len(processed)`: its size, and its data as what the parser took of the host's packets put
  together (`HoldsLast`), or nothing while none was begun. The step that matters is
  `ParseAndCompose`: `Accounting` says that the buffer then holds the next packet, and `TakeOne`
  what the parser makes of it, a first packet (`TakeFirst`) or another one (`TakeNext`).

With `MayTimeout => PromptStop`, which is the program with the main it has:

- `TimeoutsHarmless`: while the routine is wanted, `OneRequest` and `Accounting` hold as if
  waits did not time out, and `ParsedInOrder` holds to the end. The invariant is
  `SInv == TypeOK /\ (IInv \/ Late)`: the first wait that ends finds `run_control` down, the
  routine behind it is in `WayOut`, from which no way leads to another read
  (`TimeoutIsLate`, `LateStays`). Replies that were being written are not saved by it:
  `ServiceMismatch` keeps to `PromptStop`.
- `HearsTheHost`. `NeverDeaf` needs to know, for every `pc`, what keeps the next turn of the
  loop coming while the routine is wanted: the eventfd that is set, or the wait that will
  set it (`Awake`).

`FlattenSeq` of the community modules is what `ParsedIsPack` and `MessageArrives` put the data
together with. It is a recursive function, so `FlattenProofs` shows first that the function
exists for a sequence of every length (`FlattensExists`) and that two agree where their
sequences do (`FlattensAgree`), both by least counterexample (`LeastNumber`, from the
well-foundedness of < on the naturals), and then `FlattenOne` and `FlattenAppend`.

`Parser`, for every set of packets of whatever length:

- `ParserTypes`.
- `KeepsOneMessage`: the pack begins with the packet whose header gave id and size, no packet
  behind it starts a message, and none is kept where the announced size is below one packet
  of data. It does not say that a finished message takes no further packet:
  `ParserOverflow` shows that it does.
- `DataIsThePack`: `ParsedIsPack`, with `OneMessage`, by which no packet is accepted behind an
  empty pack. `ParseSubsequential` appends a packet to the pack
  and its payload to the data (`PayloadsAppend`, `FlattenAppend`).
- `DataIsLaidOut` says where in the data the payload of each packet lies, which `FlattenSeq`
  does not: there are cuts in the data, and the piece between two of them is the payload of
  the packet with that number. How full a packet is it leaves open: packets may be short.

`Composer`, for every packet size above the nine bytes of the header and every set of
messages whose fields fit their types: `ComposerTypes`, `ComposerCarries`, `ComposerExact`,
`ComposerFrugal`, `ComposerPads`. The properties speak of all packets composed so far, so
together with "the loop has its first packet" they are inductive, and the step that matters
is `ComposeNext`. `ComposerExact` needs two facts more: the bytes that the loop counts as
processed have a place in the packets (`Carried`), and a call that is finished has counted
the whole message (`CountedAll`). `LoopAdvances` is the measure behind `Terminates`: a step
of the loop ends it or brings the bytes composed nearer to the size by `DataSubseq`, which
is not 0 (`Sizes`).

`Codec`, for the same: `MessagesSurvive`. `CodecInv` adds to the composer's invariant that its
first packet has the header of the message and the others its first byte (`Headed`), and
that while a pack crosses the wire (`InTransit`) the wire holds the rest of it and the parser
what it has taken: as many packets, and their data in place (`Taken`). At the end the
parser has taken all, `ComposerExact` says that all is the whole message, and
`ComposerCarries` which byte is where. `RoomBelow16MB` shows how little the second half of
`Recognised` takes away: for packets of up to 129 bytes it holds of every message below
16 MB, although the size is read with its bytes swapped. No theorem could do without
the first half.

`Lifecycle`, for every set of failing steps, with and without being killed, and any number
of programs:

- `LocalsOutlive` from `Joined`: once `main` counts or waits for the stop, a cleared
  `run_status` means that the thread has nothing left to do but to return; the same holds
  when `main` is done. That the thread has returned by then is not true, and not said.
- `PathIsFree` from `Covered`: a mount that an earlier program left always comes with a gadget
  that it left, and then `create_gadget` fails before `make_path` removes the path.
- `StateUsedAlive`, if the UDC exists, from `LiveInside`: the state is not freed before
  the thread is on its way out.
- `FilesAreUnderMount` from `FInv`: up to the loop, a step has behind it what the steps
  before it acquired (`Opened`), and nothing is bound any more when `cleanup` closes the
  first file (`Rests`). An earlier program can leave a mount and a gadget, but no binding:
  the kernel closes the files it had open.
- `LeavesNothing` from `Released`: while nothing has failed, what a step of `cleanup` has
  released stays released to the end of the program.
- `MainWaitsForNews`, if the inner loop does not fail, from `Wanted` (on the way out
  `run_control` is down, and only a failure or `main` lowers it, so a clean routine comes
  to the loop before it leaves) and `Lowered` (a routine that has nothing left but to return has
  lowered `run_status`). It is the part of `MainEnds` that needs no fairness.
- `LifeKeepsHandshake`, the refinement of `Handshake`, from `Joined` and `Wanted`. `ClearStatus`
  is `Finish` because `run_control` is down from the loop on, `ThreadReturns` is a stutter, and
  a `Boot` is `Again` because `main` is done only behind the thread's last use of the flags.

`AioTimeout`: `OneTimeout`.

Only model-checked: what is temporal (`Answered`, `StopHonoured`, `MainEnds`, `Terminates`:
liveness under fairness is out of the prover's reach). Every invariant, action property and
refinement of a passing run is stated by a theorem.

## Not modelled

- What the descriptors and strings written to ep0 say: data the kernel interprets. That
  they are accepted or refused, and what follows, is in `Lifecycle`.
- Log output, and the contents of the Features message, constants of which only the
  number of packets matters.
- The resize of the buffer to the length of a completion, as a step of its own: in `Dialogue`
  the buffer has the length of the packet it holds.
- Packets shorter than a header in `Dialogue`: an exception of the parser ends the process
  there, and `Parser` has packets of every length.
- `wait_read_ctrl_ready`, `wait_read_eventfd_ready` and `ffs_check_fifo_available`, which
  nothing calls; `ffs_fifo_flush` and `ffs_close_pipe`, which are compiled as
  `return true`.
- `onekey_usb.hpp`, which no translation unit includes (`main.cpp:4` is a comment), and the
  empty class of `onekey_usb_firmware_mode.hpp`. (In the former, `init` never sets
  `is_inited`, so that its `cleanup` would release nothing; it is not part of the program.)
- The definitions of `onekey_usb_common.hpp` and `onekey_usb_util.hpp` (paths, byte order
  macros, descriptor constants), the generated protobuf code, and the build.

## What could follow

- `UsbService` between the steps of `init` and `cleanup` of `Lifecycle`, in one state. Now the
  two agree on what `main` sees (`Handshake`), and each has the other's part as a single
  step or as given.
- The routine with a context that cancels what timed out (`io_cancel`), to show that this
  alone restores what `ServiceMismatch` and `ServiceLost` refute: a change of the code.
