SPECIFICATION Spec
CONSTANTS
  MaxSend = 2
  MaxReset = 0
  MaxNotify = 0
  AioSlots = 4
  MayTimeout = TRUE
  PromptStop = FALSE
  Faults = {}
  ReplyPackets = 2
INVARIANT ParsedInOrder
\* The routine returns, and it waits for a host that may stay silent.
CHECK_DEADLOCK FALSE
