SPECIFICATION FairSpec
CONSTANTS
  Faulty = {"disable", "close_in", "close_out", "close_ctrl", "umount", "rm_gadget"}
  MayKill = FALSE
  MaxBoots = 3
INVARIANT NoUseAfterFree
INVARIANT NoWaitInVain
PROPERTY MainEnds
\* The last program ends, or main waits for a thread that has returned.
CHECK_DEADLOCK FALSE
