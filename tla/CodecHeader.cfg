SPECIFICATION CodecSpec
CONSTANTS
  PacketSize = 64
  Sizes = {55, 56, 118, 119, 300}
  Messages <- MCMessages
  JunkBytes = {0, 170}
  MaxCalls = 3
  MaxParses = 1000
INVARIANT HeaderSurvives
\* The calls are bounded.
CHECK_DEADLOCK FALSE
