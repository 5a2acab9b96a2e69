-------------------------- MODULE LifecycleProofs --------------------------
(***************************************************************************)
(* Lifecycle for any number of programs in a row, any set of failing steps, *)
(* and a process that may be killed at any point.                           *)
(***************************************************************************)
EXTENDS Lifecycle, TLAPS

\* The names of the places of the routine.
LEMMA Places ==
  ToSet(Program) =
    {"usbg_init", "create_gadget", "create_function", "create_config", "add_function",
     "get_udc", "eventfd", "make_path", "mount", "open_ctrl", "descs", "strings", "open_in",
     "open_out", "io_setup", "enable", "run", "disable", "close_in", "close_out",
     "close_ctrl", "umount", "io_destroy", "rm_gadget", "exit"}
<1>1. ToSet(Program) = {Program[i] : i \in 1..25}
  BY DEF ToSet, Program
<1> QED BY <1>1 DEF Program

\* What follows each of them.
LEMMA Follows ==
  ASSUME Advance
  PROVE  \/ step = "usbg_init" /\ step' = "create_gadget"
         \/ step = "create_gadget" /\ step' = "create_function"
         \/ step = "create_function" /\ step' = "create_config"
         \/ step = "create_config" /\ step' = "add_function"
         \/ step = "add_function" /\ step' = "get_udc"
         \/ step = "get_udc" /\ step' = "eventfd"
         \/ step = "eventfd" /\ step' = "make_path"
         \/ step = "make_path" /\ step' = "mount"
         \/ step = "mount" /\ step' = "open_ctrl"
         \/ step = "open_ctrl" /\ step' = "descs"
         \/ step = "descs" /\ step' = "strings"
         \/ step = "strings" /\ step' = "open_in"
         \/ step = "open_in" /\ step' = "open_out"
         \/ step = "open_out" /\ step' = "io_setup"
         \/ step = "io_setup" /\ step' = "enable"
         \/ step = "enable" /\ step' = "run"
         \/ step = "run" /\ step' = "disable"
         \/ step = "disable" /\ step' = "close_in"
         \/ step = "close_in" /\ step' = "close_out"
         \/ step = "close_out" /\ step' = "close_ctrl"
         \/ step = "close_ctrl" /\ step' = "umount"
         \/ step = "umount" /\ step' = "io_destroy"
         \/ step = "io_destroy" /\ step' = "rm_gadget"
         \/ step = "rm_gadget" /\ step' = "exit"
<1>1. Len(Program) - 1 = 24
  BY DEF Program
<1>2. PICK i \in 1..24 : step = Program[i] /\ step' = Program[i + 1]
  BY <1>1 DEF Advance
<1> QED BY <1>2 DEF Program

\* What a step acquires or releases is one of the resources.
Resources == Outlasting \cup FfsFiles \cup {"eventfd", "descs", "strings", "aio"}

LEMMA GainsType == \A x : Gains(x) \subseteq Resources
BY DEF Gains, Resources, Outlasting, FfsFiles

\* The first program counts.
LEMMA InitTypes == Init => TypeOK
<1> SUFFICES ASSUME Init PROVE TypeOK
  OBVIOUS
<1>1. Head(Program) = "usbg_init"
  BY DEF Program
<1>2. 1 \in 1..MaxBoots
  BY LifecycleAssumption
<1> QED BY <1>1, <1>2, Places DEF Init, TypeOK, Outlasting

\* Every step keeps the types.
LEMMA NextTypes == TypeOK /\ [Next]_vars => TypeOK'
<1> SUFFICES ASSUME TypeOK, [Next]_vars PROVE TypeOK'
  OBVIOUS
<1>1. Advance => step' \in ToSet(Program) \cup Left
  BY Follows, Places
<1>2. {"exit", "leave", "returned", Head(Program)} \subseteq ToSet(Program) \cup Left
  BY Places DEF Program, Left
<1>3. CASE Succeed
  <2>1. held' \subseteq Outlasting
    BY <1>3 DEF Succeed, TypeOK
  <2>2. own' \subseteq FfsFiles \cup {"eventfd", "descs", "strings", "aio"}
    BY <1>3, GainsType DEF Succeed, TypeOK, Resources
  <2>3. s' \in {"null", "live", "freed"} /\ uaf' \in BOOLEAN
    BY <1>3 DEF Succeed, Touches, TypeOK
  <2> QED BY <1>1, <1>3, <2>1, <2>2, <2>3 DEF Succeed, TypeOK
<1>4. CASE Fail
  <2>1. s' \in {"null", "live", "freed"} /\ uaf' \in BOOLEAN
    BY <1>4 DEF Fail, TypeOK
  <2> QED BY <1>2, <1>4, <2>1 DEF Fail, TypeOK
<1>5. CASE UdcMissing \/ DescsRefused
  <2>1. CASE UdcMissing
    BY <1>1, <2>1 DEF UdcMissing, TypeOK
  <2>2. CASE DescsRefused
    BY <1>1, <2>2 DEF DescsRefused, TypeOK
  <2> QED BY <1>5, <2>1, <2>2
<1>6. CASE Running \/ LeaveLoop \/ LoopError \/ ClearStatus \/ ThreadReturns
  <2>1. CASE Running
    BY <2>1 DEF Running, TypeOK
  <2>2. CASE LeaveLoop
    BY <1>1, <2>2 DEF LeaveLoop, TypeOK
  <2>3. CASE LoopError
    <3>1. step' \in ToSet(Program) \cup Left
      BY <1>1, <1>2, <2>3 DEF LoopError
    <3> QED BY <2>3, <3>1 DEF LoopError, TypeOK
  <2>4. CASE ClearStatus \/ ThreadReturns
    BY <1>2, <2>4 DEF ClearStatus, ThreadReturns, TypeOK
  <2> QED BY <1>6, <2>1, <2>2, <2>3, <2>4
<1>7. CASE MainSeesRunning \/ MainStops
  BY <1>7 DEF MainSeesRunning, MainStops, TypeOK
<1>8. CASE MainReturns \/ Die
  BY <1>2, <1>8 DEF MainReturns, Die, ProcessEnds, TypeOK
<1>9. CASE Boot
  <2>1. boots' \in 1..MaxBoots
    BY <1>9, LifecycleAssumption DEF Boot, TypeOK
  <2> QED BY <1>2, <1>9, <2>1 DEF Boot, TypeOK
<1>10. CASE UNCHANGED vars
  BY <1>10 DEF vars, TypeOK
<1> QED
  BY <1>3, <1>4, <1>5, <1>6, <1>7, <1>8, <1>9, <1>10 DEF Next, Thread, Main

\* main, the routine and the kernel are well typed, whatever fails.
THEOREM LifecycleTypes == Spec => []TypeOK
BY InitTypes, NextTypes, PTL DEF Spec

----------------------------------------------------------------------------
\* The two flags.  Once main has seen run_status it stays up for as long as the
\* routine has anything left to do; the process ends only behind the routine.
Joined ==
  /\ main \in {"count", "wait_stop"} => run_status \/ step \in Left
  /\ main = "done" => step \in Left

LEMMA NextJoined == Joined /\ [Next]_vars => Joined'
<1> SUFFICES ASSUME Joined, [Next]_vars PROVE Joined'
  OBVIOUS
<1>1. CASE Succeed \/ Fail \/ UdcMissing \/ DescsRefused
  <2>1. step \notin Left /\ main' = main /\ run_status' = run_status /\ main # "done"
    BY <1>1, Places DEF Succeed, Fail, UdcMissing, DescsRefused, Steps, Alive, Left
  <2> QED BY <2>1 DEF Joined
<1>2. CASE Running \/ LeaveLoop \/ LoopError \/ ClearStatus \/ ThreadReturns
  BY <1>2 DEF Running, LeaveLoop, LoopError, ClearStatus, ThreadReturns, Alive, Joined, Left
<1>3. CASE Main
  BY <1>3 DEF Main, MainSeesRunning, MainStops, MainReturns, ProcessEnds, Joined
<1>4. CASE Die \/ Boot
  BY <1>4 DEF Die, Boot, ProcessEnds, Joined, Left
<1>5. CASE UNCHANGED vars
  BY <1>5 DEF vars, Joined
<1> QED BY <1>1, <1>2, <1>3, <1>4, <1>5 DEF Next, Thread

\* The detached thread never uses the locals of a main that has returned: all it may still
\* do then is return.
THEOREM LocalsOutlive == Spec => []LocalsOutliveUse
<1>1. Init => Joined
  BY DEF Init, Joined
<1>2. Joined => LocalsOutliveUse
  BY DEF Joined, LocalsOutliveUse
<1> QED BY NextJoined, <1>1, <1>2, PTL DEF Spec

----------------------------------------------------------------------------
\* The state is freed only on the way out of the routine.
LiveInside ==
  /\ step \notin {"exit"} \cup Left => s # "freed"
  /\ ~uaf

LEMMA NextLiveInside ==
  "get_udc" \notin Faulty /\ LiveInside /\ [Next]_vars => LiveInside'
<1> SUFFICES ASSUME "get_udc" \notin Faulty, LiveInside, [Next]_vars PROVE LiveInside'
  OBVIOUS
<1>1. CASE Succeed
  <2>1. step \notin {"exit"} \cup Left /\ s # "freed"
    BY <1>1, Places DEF Succeed, Steps, LiveInside, Left
  <2>2. ~uaf'
    BY <1>1, <2>1, Zenon DEF Succeed, Touches, LiveInside
  <2>3. step = "rm_gadget" => step' = "exit"
    BY <1>1, Follows DEF Succeed
  <2> QED BY <1>1, <2>1, <2>2, <2>3 DEF Succeed, LiveInside
<1>2. CASE Fail
  <2>1. s # "freed" /\ step' = "exit"
    BY <1>2, Places DEF Fail, Steps, LiveInside, Left
  <2> QED BY <1>2, <2>1 DEF Fail, LiveInside
<1>3. CASE UdcMissing \/ DescsRefused
  BY <1>3 DEF UdcMissing, DescsRefused, LiveInside, Left
<1>4. CASE Running \/ LeaveLoop \/ LoopError \/ ClearStatus \/ ThreadReturns
  BY <1>4 DEF Running, LeaveLoop, LoopError, ClearStatus, ThreadReturns, LiveInside, Left
<1>5. CASE Main \/ Die \/ Boot
  BY <1>5 DEF Main, MainSeesRunning, MainStops, MainReturns, Die, Boot, LiveInside, Left
<1>6. CASE UNCHANGED vars
  BY <1>6 DEF vars, LiveInside
<1> QED BY <1>1, <1>2, <1>3, <1>4, <1>5, <1>6 DEF Next, Thread

\* With the UDC there, the usbg_state is never used or freed after it was freed,
\* whichever of the other steps fail and whenever the process is killed.
THEOREM StateUsedAlive == "get_udc" \notin Faulty => (Spec => []NoUseAfterFree)
<1> SUFFICES ASSUME "get_udc" \notin Faulty PROVE Spec => []NoUseAfterFree
  OBVIOUS
<1>1. Init => LiveInside
  BY DEF Init, LiveInside
<1>2. LiveInside => NoUseAfterFree
  BY DEF LiveInside, NoUseAfterFree
<1> QED BY NextLiveInside, <1>1, <1>2, PTL DEF Spec

----------------------------------------------------------------------------
\* What the routine has acquired at each place between mount and the inner loop,
\* the order in which it gives it up, and what rests on what.
Opening == {"open_ctrl", "descs", "strings", "open_in", "open_out", "io_setup", "enable", "run"}
Closing == {"close_in", "close_out", "close_ctrl", "umount", "io_destroy", "rm_gadget"}

Opened ==
  /\ step \in Opening => "mount" \in held
  /\ step \in Opening \ {"open_ctrl"} => "ctrl" \in own
  /\ step \in {"open_in", "open_out", "io_setup", "enable", "run"} =>
       {"descs", "strings"} \subseteq own
  /\ step \in {"open_out", "io_setup", "enable", "run"} => "in" \in own
  /\ step \in {"io_setup", "enable", "run"} => "out" \in own
  /\ step \in {"enable", "run"} => "aio" \in own

Rests ==
  /\ own \cap FfsFiles # {} => "mount" \in held
  /\ "bound" \in held => FfsFiles \cup {"descs", "strings", "aio"} \subseteq own
  /\ step \in Closing => "bound" \notin held

FInv == Rests /\ (Alive => Opened)

\* A step that succeeds, one place at a time.
LEMMA SucceedFInv == FInv /\ Succeed => FInv'
<1> SUFFICES ASSUME FInv, Succeed PROVE FInv'
  OBVIOUS
<1> USE DEF FInv, Rests, Opened, Opening, Closing, FfsFiles, Outlasting
<1>1. /\ held' = (held \cup (Gains(step) \cap Outlasting)) \ Loses(step)
      /\ own' = (own \cup (Gains(step) \ Outlasting)) \ Loses(step)
      /\ Alive /\ CanSucceed(step)
  BY DEF Succeed
<1>2. CASE /\ step \in {"usbg_init", "create_gadget", "create_function", "create_config",
                        "add_function", "get_udc", "eventfd", "make_path"}
           /\ step' \notin Opening \cup Closing
  <2>1. /\ Gains(step) \cap (FfsFiles \cup {"descs", "strings", "aio", "mount", "bound"}) = {}
        /\ Loses(step) = {}
    BY <1>2 DEF Gains, Loses
  <2> QED BY <1>1, <1>2, <2>1
<1>3. CASE step = "mount" /\ step' = "open_ctrl"
  BY <1>1, <1>3 DEF Gains, Loses
<1>4. CASE step = "open_ctrl" /\ step' = "descs"
  BY <1>1, <1>4 DEF Gains, Loses
<1>5. CASE step = "descs" /\ step' = "strings"
  BY <1>1, <1>5 DEF Gains, Loses
<1>6. CASE step = "strings" /\ step' = "open_in"
  BY <1>1, <1>6 DEF Gains, Loses, CanSucceed
<1>7. CASE step = "open_in" /\ step' = "open_out"
  BY <1>1, <1>7 DEF Gains, Loses
<1>8. CASE step = "open_out" /\ step' = "io_setup"
  BY <1>1, <1>8 DEF Gains, Loses
<1>9. CASE step = "io_setup" /\ step' = "enable"
  BY <1>1, <1>9 DEF Gains, Loses
<1>10. CASE step = "enable" /\ step' = "run"
  BY <1>1, <1>10 DEF Gains, Loses
<1>11. CASE step = "disable" /\ step' = "close_in"
  BY <1>1, <1>11 DEF Gains, Loses
<1>12. CASE step = "umount" /\ step' = "io_destroy"
  BY <1>1, <1>12 DEF Gains, Loses, CanSucceed
<1>13. CASE /\ step \in {"close_in", "close_out", "close_ctrl", "io_destroy", "rm_gadget"}
            /\ step' \notin Opening
  <2>1. Gains(step) = {} /\ "mount" \notin Loses(step)
    BY <1>13 DEF Gains, Loses
  <2> QED BY <1>1, <1>13, <2>1
<1>14. step # "run"
  BY DEF Succeed, Steps
<1>15. Advance
  BY DEF Succeed
<1> QED
  BY <1>2, <1>3, <1>4, <1>5, <1>6, <1>7, <1>8, <1>9, <1>10, <1>11, <1>12, <1>13,
     <1>14, <1>15, Follows

LEMMA NextFInv == FInv /\ [Next]_vars => FInv'
<1> SUFFICES ASSUME FInv, [Next]_vars PROVE FInv'
  OBVIOUS
<1>1. CASE Succeed
  BY <1>1, SucceedFInv
<1>2. CASE Fail
  BY <1>2 DEF Fail, FInv, Rests, Opened, Opening, Closing
<1>3. CASE UdcMissing \/ DescsRefused
  <2>1. \/ step = "get_udc" /\ step' = "eventfd"
        \/ step = "descs" /\ step' = "strings"
    BY <1>3, Follows DEF UdcMissing, DescsRefused
  <2>2. held' = held /\ own' = own /\ Alive
    BY <1>3 DEF UdcMissing, DescsRefused
  <2> QED BY <2>1, <2>2 DEF FInv, Rests, Opened, Opening, Closing
<1>4. CASE Running \/ ClearStatus \/ ThreadReturns
  BY <1>4 DEF Running, ClearStatus, ThreadReturns, FInv, Rests, Opened, Opening, Closing, Alive
<1>5. CASE LeaveLoop \/ LoopError
  <2>1. step' \in {"disable", "leave"}
    BY <1>5, Follows DEF LeaveLoop, LoopError
  <2>2. held' = held /\ own' = own
    BY <1>5 DEF LeaveLoop, LoopError
  <2> QED BY <2>1, <2>2 DEF FInv, Rests, Opened, Opening, Closing
<1>6. CASE MainSeesRunning \/ MainStops
  BY <1>6 DEF MainSeesRunning, MainStops, FInv, Rests, Opened, Alive
<1>7. CASE MainReturns \/ Die
  <2>1. own' = {} /\ ~Alive' /\ "bound" \notin held'
    BY <1>7 DEF MainReturns, Die, ProcessEnds, FInv, Rests, FfsFiles, Alive
  <2> QED BY <2>1 DEF FInv, Rests
<1>8. CASE Boot
  <2>1. step' = "usbg_init"
    BY <1>8 DEF Boot, Program
  <2> QED BY <1>8, <2>1 DEF Boot, FInv, Rests, Opened, Opening, Closing
<1>9. CASE UNCHANGED vars
  BY <1>9 DEF vars, FInv, Rests, Opened, Alive
<1> QED
  BY <1>1, <1>2, <1>3, <1>4, <1>5, <1>6, <1>7, <1>8, <1>9 DEF Next, Thread, Main

\* Whatever fails, and whatever an earlier program left, the endpoint files lie
\* on a mounted file system and the gadget is bound only with its files open and
\* its descriptors accepted.
THEOREM FilesAreUnderMount == Spec => []FilesUnderMount
<1>1. Init => FInv
  BY DEF Init, Program, FInv, Rests, Opened, Opening, Closing
<1>2. FInv => FilesUnderMount
  BY DEF FInv, Rests, FilesUnderMount
<1> QED BY NextFInv, <1>1, <1>2, PTL DEF Spec

----------------------------------------------------------------------------
\* While nothing has failed, what a place of cleanup() has released is gone, and
\* nothing takes it again before the next program.
Released ==
  /\ step \in {"exit"} \cup Left => held \cap {"gadget", "function", "config", "link"} = {}
  /\ step \in {"rm_gadget", "exit"} \cup Left => "aio" \notin own
  /\ step \in {"io_destroy", "rm_gadget", "exit"} \cup Left => "mount" \notin held
  /\ step \in {"umount", "io_destroy", "rm_gadget", "exit"} \cup Left =>
       own \cap {"ctrl", "descs", "strings"} = {}
  /\ step \in {"close_ctrl", "umount", "io_destroy", "rm_gadget", "exit"} \cup Left =>
       "out" \notin own
  /\ step \in (Closing \ {"close_in"}) \cup {"exit"} \cup Left => "in" \notin own
  /\ step \in Closing \cup {"exit"} \cup Left => "bound" \notin held

LEMMA SucceedReleased == Released /\ Succeed => Released'
<1> SUFFICES ASSUME Released, Succeed PROVE Released'
  OBVIOUS
<1> USE DEF Released, Closing, FfsFiles, Outlasting, Left
<1>1. /\ held' = (held \cup (Gains(step) \cap Outlasting)) \ Loses(step)
      /\ own' = (own \cup (Gains(step) \ Outlasting)) \ Loses(step)
  BY DEF Succeed
<1>2. CASE step' \notin Closing \cup {"exit"} \cup Left
  BY <1>2
<1>3. CASE step = "disable" /\ step' = "close_in"
  BY <1>1, <1>3 DEF Gains, Loses
<1>4. CASE step = "close_in" /\ step' = "close_out"
  BY <1>1, <1>4 DEF Gains, Loses
<1>5. CASE step = "close_out" /\ step' = "close_ctrl"
  BY <1>1, <1>5 DEF Gains, Loses
<1>6. CASE step = "close_ctrl" /\ step' = "umount"
  BY <1>1, <1>6 DEF Gains, Loses
<1>7. CASE step = "umount" /\ step' = "io_destroy"
  BY <1>1, <1>7 DEF Gains, Loses
<1>8. CASE step = "io_destroy" /\ step' = "rm_gadget"
  BY <1>1, <1>8 DEF Gains, Loses
<1>9. CASE step = "rm_gadget" /\ step' = "exit"
  BY <1>1, <1>9 DEF Gains, Loses
<1>10. Advance
  BY DEF Succeed
<1> QED
  BY <1>2, <1>3, <1>4, <1>5, <1>6, <1>7, <1>8, <1>9, <1>10, Follows

LEMMA NextReleased ==
  TypeOK /\ Joined /\ (clean => Released) /\ [Next]_vars => (clean => Released)'
<1> SUFFICES ASSUME TypeOK, Joined, clean => Released, [Next]_vars, clean'
             PROVE  Released'
  OBVIOUS
<1>1. CASE Succeed
  <2>1. Released
    BY <1>1 DEF Succeed
  <2> QED BY <1>1, <2>1, SucceedReleased
<1>2. CASE Fail \/ UdcMissing \/ DescsRefused \/ LoopError \/ Die
  BY <1>2 DEF Fail, UdcMissing, DescsRefused, LoopError, Die
<1>3. CASE Running \/ ClearStatus \/ ThreadReturns
  BY <1>3 DEF Running, ClearStatus, ThreadReturns, Released, Closing, Left
<1>4. CASE LeaveLoop
  <2>1. step' = "disable"
    BY <1>4, Follows DEF LeaveLoop
  <2> QED BY <2>1 DEF Released, Closing, Left
<1>5. CASE MainSeesRunning \/ MainStops
  BY <1>5 DEF MainSeesRunning, MainStops, Released
<1>6. CASE MainReturns
  BY <1>6 DEF MainReturns, ProcessEnds, Released, Left
<1>7. CASE Boot
  <2>1. step' = "usbg_init"
    BY <1>7 DEF Boot, Program
  <2> QED BY <2>1 DEF Released, Closing, Left
<1>8. CASE UNCHANGED vars
  BY <1>8 DEF vars, Released
<1> QED
  BY <1>1, <1>2, <1>3, <1>4, <1>5, <1>6, <1>7, <1>8 DEF Next, Thread, Main

\* Programs that have run without a failure leave nothing that refuses the next
\* one, however many there were.
THEOREM LeavesNothing == Spec => []CleanExit
<1>1. Init => Joined
  BY DEF Init, Joined
<1>2. Init => (clean => Released)
  BY DEF Init, Program, Released, Closing, Left
<1>3. TypeOK /\ (clean => Released) => CleanExit
  BY DEF TypeOK, Outlasting, FfsFiles, Released, Closing, CleanExit
<1> QED
  BY InitTypes, NextTypes, NextJoined, NextReleased, <1>1, <1>2, <1>3, PTL DEF Spec

----------------------------------------------------------------------------
\* A mount is never there without a gadget, and create_gadget does not succeed on a gadget
\* that is there: between it and mount nothing is mounted.
Behind == {"create_function", "create_config", "add_function", "get_udc", "eventfd", "make_path"}

Covered ==
  /\ "mount" \in held => "gadget" \in held
  /\ step \in Behind => "mount" \notin held
  /\ step \in Behind \cup {"mount"} => "gadget" \in held

LEMMA NextCovered == Covered /\ [Next]_vars => Covered'
<1> SUFFICES ASSUME Covered, [Next]_vars PROVE Covered'
  OBVIOUS
<1>1. CASE Succeed
  <2> USE DEF Covered, Behind, Outlasting
  <2>1. /\ held' = (held \cup (Gains(step) \cap Outlasting)) \ Loses(step)
        /\ CanSucceed(step) /\ Advance
    BY <1>1 DEF Succeed
  <2>2. CASE step = "create_gadget"
    BY <2>1, <2>2, Follows DEF CanSucceed, Gains, Loses
  <2>3. CASE step = "mount"
    BY <2>1, <2>3, Follows DEF Gains, Loses
  <2>4. CASE step = "rm_gadget"
    BY <2>1, <2>4, Follows DEF CanSucceed, Gains, Loses
  <2>5. CASE step \notin {"create_gadget", "mount", "rm_gadget"}
    <3>1. /\ "mount" \in held' => "mount" \in held
          /\ "gadget" \in held' <=> "gadget" \in held
      BY <2>1, <2>5 DEF Gains, Loses
    <3>2. step' \in Behind \cup {"mount"} => step \in Behind
      BY <2>1, <2>5, Follows
    <3> QED BY <3>1, <3>2
  <2> QED BY <2>2, <2>3, <2>4, <2>5
<1>2. CASE UdcMissing \/ DescsRefused
  BY <1>2, Follows DEF UdcMissing, DescsRefused, Covered, Behind
<1>3. CASE Fail \/ LeaveLoop \/ LoopError \/ ClearStatus \/ ThreadReturns \/ Die
  <2>1. step' \in {"exit", "disable"} \cup Left
    BY <1>3, Follows DEF Fail, LeaveLoop, LoopError, ClearStatus, ThreadReturns, Die, Left
  <2>2. held' = held \/ held' = held \ {"bound"}
    BY <1>3 DEF Fail, LeaveLoop, LoopError, ClearStatus, ThreadReturns, Die, ProcessEnds
  <2> QED BY <2>1, <2>2 DEF Covered, Behind, Left
<1>4. CASE Running \/ Main
  BY <1>4 DEF Running, Main, MainSeesRunning, MainStops, MainReturns, ProcessEnds, Covered
<1>5. CASE Boot
  <2>1. step' = "usbg_init" /\ held' = held
    BY <1>5 DEF Boot, Program
  <2> QED BY <2>1 DEF Covered, Behind
<1>6. CASE UNCHANGED vars
  BY <1>6 DEF vars, Covered
<1> QED BY <1>1, <1>2, <1>3, <1>4, <1>5, <1>6 DEF Next, Thread

\* ffs_init removes and makes the mount point.  On one that is mounted the removal would
\* throw, and nothing catches it.
PathIsNotMounted == step = "make_path" => "mount" \notin held

\* Whatever earlier programs have left, however they ended, the removal does not meet a
\* mounted file system.
THEOREM PathIsFree == Spec => []PathIsNotMounted
<1>1. Init => Covered
  BY DEF Init, Program, Covered, Behind
<1>2. Covered => PathIsNotMounted
  BY DEF Covered, Behind, PathIsNotMounted
<1> QED BY NextCovered, <1>1, <1>2, PTL DEF Spec

----------------------------------------------------------------------------
(* Between main and the thread: nobody waits for what is past. *)

\* The way out begins with run_control down, and while nothing has failed it is main
\* that has lowered it.
Leaving == Closing \cup {"disable", "exit"} \cup Left

Wanted ==
  /\ Alive /\ step \in Leaving => ~run_control
  /\ main = "wait_run" /\ clean => run_control
  /\ step \notin Leaving => step \in Ahead

\* A routine that is through has lowered run_status.
Lowered == Alive /\ step \in Left => ~run_status

LEMMA WhereAhead ==
  Ahead = {"usbg_init", "create_gadget", "create_function", "create_config", "add_function",
           "get_udc", "eventfd", "make_path", "mount", "open_ctrl", "descs", "strings",
           "open_in", "open_out", "io_setup", "enable", "run"}
BY DEF Ahead, Program

\* Only the end of the inner loop leads from what is ahead to the way out.
LEMMA AdvanceLeaves ==
  ASSUME Advance
  PROVE  /\ step' \in Leaving <=> step \in Leaving \cup {"run"}
         /\ step' \notin Leaving => step' \in Ahead
         /\ step' \notin Left
BY Follows, WhereAhead DEF Leaving, Closing, Left

LEMMA NextWanted == Wanted /\ [Next]_vars => Wanted'
<1> SUFFICES ASSUME Wanted, [Next]_vars PROVE Wanted'
  OBVIOUS
<1>1. CASE Succeed \/ UdcMissing \/ DescsRefused
  <2>1. step # "run" /\ UNCHANGED <<main, run_control>> /\ (clean' => clean)
    BY <1>1 DEF Succeed, UdcMissing, DescsRefused, Steps
  <2>2. Advance
    BY <1>1 DEF Succeed, UdcMissing, DescsRefused
  <2> QED BY <2>1, <2>2, AdvanceLeaves DEF Wanted, Alive
<1>2. CASE Fail \/ Die
  <2>1. step' \in {"exit", "returned"} /\ ~clean' /\ (Alive' => ~run_control')
    BY <1>2 DEF Fail, Die, ProcessEnds, Alive
  <2> QED BY <2>1 DEF Wanted, Leaving, Left
<1>3. CASE Running
  BY <1>3 DEF Running, Wanted, Alive
<1>4. CASE LeaveLoop
  <2>1. UNCHANGED <<main, clean, run_control>> /\ ~run_control /\ step = "run"
    BY <1>4 DEF LeaveLoop
  <2>2. Advance
    BY <1>4 DEF LeaveLoop
  <2> QED BY <2>1, <2>2, AdvanceLeaves DEF Wanted, Leaving
<1>5. CASE LoopError
  <2>1. ~clean' /\ ~run_control' /\ step = "run"
    BY <1>5 DEF LoopError
  <2>2. step' \in Leaving
    BY <1>5, <2>1, AdvanceLeaves DEF LoopError, Leaving, Left
  <2> QED BY <2>1, <2>2 DEF Wanted
<1>6. CASE ClearStatus \/ ThreadReturns
  BY <1>6 DEF ClearStatus, ThreadReturns, Wanted, Leaving, Left, Alive
<1>7. CASE Main
  BY <1>7 DEF Main, MainSeesRunning, MainStops, MainReturns, ProcessEnds, Wanted, Alive
<1>8. CASE Boot
  <2>1. step' = "usbg_init" /\ run_control' = TRUE
    BY <1>8 DEF Boot, Program
  <2> QED BY <2>1, WhereAhead DEF Wanted, Leaving, Closing, Left
<1>9. CASE UNCHANGED vars
  BY <1>9 DEF vars, Wanted, Alive
<1> QED
  BY <1>1, <1>2, <1>3, <1>4, <1>5, <1>6, <1>7, <1>8, <1>9 DEF Next, Thread

LEMMA NextLowered ==
  "run" \notin Faulty /\ Lowered /\ [Next]_vars => Lowered'
<1> SUFFICES ASSUME "run" \notin Faulty, Lowered, [Next]_vars PROVE Lowered'
  OBVIOUS
<1>1. CASE Succeed \/ Fail \/ UdcMissing \/ DescsRefused
  <2>1. step' \notin Left
    BY <1>1, AdvanceLeaves DEF Succeed, Fail, UdcMissing, DescsRefused, Left
  <2> QED BY <2>1 DEF Lowered
<1>2. CASE Running \/ LeaveLoop \/ LoopError
  <2>1. step' \notin Left
    BY <1>2, AdvanceLeaves DEF Running, LeaveLoop, LoopError, Left
  <2> QED BY <2>1 DEF Lowered
<1>3. CASE ClearStatus \/ ThreadReturns \/ Boot
  BY <1>3 DEF ClearStatus, ThreadReturns, Boot, Lowered, Left
<1>4. CASE Main \/ Die
  BY <1>4 DEF Main, MainSeesRunning, MainStops, MainReturns, Die, ProcessEnds, Lowered, Alive
<1>5. CASE UNCHANGED vars
  BY <1>5 DEF vars, Lowered, Alive
<1> QED BY <1>1, <1>2, <1>3, <1>4, <1>5 DEF Next, Thread

\* The inner loop apart, whatever fails in init() or cleanup(): main never waits for a
\* run_status that has come and gone, nor for one that will not fall any more. It is what
\* MainEnds adds to fairness.
THEOREM MainWaitsForNews == "run" \notin Faulty => (Spec => []NoWaitInVain)
<1> SUFFICES ASSUME "run" \notin Faulty PROVE Spec => []NoWaitInVain
  OBVIOUS
<1>1. Init => Wanted /\ Lowered
  <2>1. Head(Program) = "usbg_init"
    BY DEF Program
  <2> QED BY <2>1, WhereAhead DEF Init, Wanted, Lowered, Leaving, Closing, Left
<1>2. Wanted /\ Lowered => NoWaitInVain
  BY DEF Wanted, Lowered, NoWaitInVain, Alive
<1> QED BY NextWanted, NextLowered, <1>1, <1>2, PTL DEF Spec

----------------------------------------------------------------------------
(* The abstract specification of the two flags. *)

MapsToHandshake == [H!Next]_(H!vars)

LEMMA NextHandshake ==
  ASSUME TypeOK, Joined, Wanted, Next
  PROVE  MapsToHandshake
<1> USE DEF MapsToHandshake, Left
<1>1. CASE Succeed \/ UdcMissing \/ DescsRefused
  <2>1. step \notin Left /\ UNCHANGED <<run_control, run_status>>
    BY <1>1, Places DEF Succeed, UdcMissing, DescsRefused, Steps
  <2>2. Advance
    BY <1>1 DEF Succeed, UdcMissing, DescsRefused
  <2> QED BY <2>1, <2>2, AdvanceLeaves DEF H!vars
<1>2. CASE Fail
  <2>1. step \notin Left /\ step' \notin Left
    BY <1>2, Places DEF Fail, Steps
  <2> QED BY <1>2, <2>1 DEF Fail, H!Next, H!Stop
<1>3. CASE Die
  <2>1. step' \in Left /\ UNCHANGED <<run_control, run_status>>
    BY <1>3 DEF Die
  <2> QED BY <2>1 DEF H!Next, H!Cut, H!vars
<1>4. CASE Running
  BY <1>4 DEF Running, H!Next, H!Raise
<1>5. CASE LeaveLoop
  <2>1. step' \notin Left /\ step \notin Left
    BY <1>5, AdvanceLeaves DEF LeaveLoop
  <2> QED BY <1>5, <2>1 DEF LeaveLoop, H!vars
<1>6. CASE LoopError
  <2>1. step = "run" /\ run_control' = FALSE /\ UNCHANGED run_status
    BY <1>6 DEF LoopError
  <2>2. CASE step' \in Left
    BY <2>1, <2>2 DEF H!Next, H!Cut
  <2>3. CASE step' \notin Left
    BY <2>1, <2>3 DEF H!Next, H!Stop
  <2> QED BY <2>2, <2>3
<1>7. CASE ClearStatus \/ ThreadReturns
  <2>1. CASE ClearStatus
    BY <2>1 DEF ClearStatus, Wanted, Leaving, H!Next, H!Finish
  <2>2. CASE ThreadReturns
    BY <2>2 DEF ThreadReturns, H!vars
  <2> QED BY <1>7, <2>1, <2>2
<1>8. CASE MainStops
  <2>1. CASE step \in Left
    <3>1. run_control = FALSE
      BY <1>8, <2>1 DEF MainStops, Wanted, Leaving, Alive, TypeOK
    <3> QED BY <1>8, <3>1 DEF MainStops, H!vars
  <2>2. CASE step \notin Left
    BY <1>8, <2>2 DEF MainStops, H!Next, H!Stop
  <2> QED BY <2>1, <2>2
<1>9. CASE MainSeesRunning \/ MainReturns
  BY <1>9 DEF MainSeesRunning, MainReturns, H!vars
<1>10. CASE Boot
  <2>1. step \in Left /\ step' \notin Left
    BY <1>10 DEF Boot, Joined, Program
  <2> QED BY <1>10, <2>1 DEF Boot, H!Next, H!Again
<1> QED
  BY <1>1, <1>2, <1>3, <1>4, <1>5, <1>6, <1>7, <1>8, <1>9, <1>10 DEF Next, Thread, Main

\* Any number of programs in a row, whatever fails and whenever one is killed: what
\* main sees of each thread is a run of Handshake.
THEOREM LifeKeepsHandshake == Spec => KeepsHandshake
<1>1. Init => Joined /\ H!Init
  <2>1. Head(Program) \notin Left
    BY DEF Program, Left
  <2> QED BY <2>1 DEF Init, Joined, H!Init
<1>2. Init => Wanted
  <2>1. Head(Program) = "usbg_init"
    BY DEF Program
  <2> QED BY <2>1, WhereAhead DEF Init, Wanted, Leaving, Closing, Left
<1>3. TypeOK /\ Joined /\ Wanted /\ [Next]_vars => [H!Next]_(H!vars)
  <2> SUFFICES ASSUME TypeOK, Joined, Wanted, [Next]_vars PROVE MapsToHandshake
    BY DEF MapsToHandshake
  <2>1. CASE Next
    BY <2>1, NextHandshake
  <2>2. CASE UNCHANGED vars
    BY <2>2 DEF vars, MapsToHandshake, H!vars
  <2> QED BY <2>1, <2>2
<1> QED
  BY InitTypes, NextTypes, NextJoined, NextWanted, <1>1, <1>2, <1>3, PTL
     DEF Spec, KeepsHandshake, H!Spec
=============================================================================
