SPECIFICATION Spec
CONSTANTS
  PacketSize = 64
  Sizes = {0, 10, 125, 126, 300}
  Lengths = {0, 1, 2, 8, 9, 40}
  Packets <- MCPackets
  JunkBytes = {0, 35}
  MaxCalls = 4
INVARIANT TypeOK
INVARIANT ParsedIsPack
INVARIANT OneMessage
\* The calls are bounded, and an exception ends the program.
CHECK_DEADLOCK FALSE
