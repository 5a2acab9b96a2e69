SPECIFICATION FairSpec
CONSTANTS
  MaxSend = 3
  MaxReset = 1
  MaxNotify = 0
  AioSlots = 3
  MayTimeout = TRUE
  PromptStop = FALSE
  Faults = {"select", "ctrl", "eventfd", "disable", "cleanup"}
  ReplyPackets = 1
INVARIANT NoSpuriousReply
INVARIANT RepliesInOrder
INVARIANT ParsedAtMostOnce
PROPERTY StopHonoured
PROPERTY NeverCatchesUp
PROPERTY KeepsHandshake
PROPERTY StopGetsNearer
\* The routine returns, and it waits for a host that may stay silent.
CHECK_DEADLOCK FALSE
