SPECIFICATION Spec
CONSTANTS
  MaxSend = 2
  MaxReset = 0
  MaxNotify = 0
  AioSlots = 4
  MayTimeout = TRUE
  PromptStop = TRUE
  Faults = {}
  ReplyPackets = 2
INVARIANT ResultMatchesRequest
\* The routine returns, and it waits for a host that may stay silent.
CHECK_DEADLOCK FALSE
