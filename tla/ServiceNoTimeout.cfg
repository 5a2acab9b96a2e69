SPECIFICATION DialogueSpec
CONSTANTS
  MaxSend = 4
  MaxReset = 2
  MaxNotify = 1
  AioSlots = 2
  MayTimeout = FALSE
  PromptStop = FALSE
  Faults = {"select", "ctrl", "eventfd", "disable", "cleanup"}
  ReplyPackets = 2
  PacketSize = 10
  JunkBytes = {0}
  HostPackets <- MCHostPackets
INVARIANT TypeOK
INVARIANT ResultMatchesRequest
INVARIANT EveryPacketParsedOnce
INVARIANT OneRequest
INVARIANT FlagTracksKernel
INVARIANT NeverDeaf
INVARIANT QuietWhenReleased
INVARIANT MessageArrives
PROPERTY Answered
PROPERTY ImplementsResponder
\* The routine returns, and it waits for a host that may stay silent.
CHECK_DEADLOCK FALSE
