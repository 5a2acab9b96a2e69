SPECIFICATION Spec
CONSTANTS
  MaxSend = 3
  MaxReset = 2
  MaxNotify = 1
  AioSlots = 2
  MayTimeout = TRUE
  PromptStop = TRUE
  Faults = {"select", "ctrl", "eventfd", "disable", "cleanup"}
  ReplyPackets = 3
INVARIANT SoundWhileWanted
INVARIANT ParsedInOrder
\* The routine returns, and it waits for a host that may stay silent.
CHECK_DEADLOCK FALSE
 
INVARIANT RepliesInOrder
