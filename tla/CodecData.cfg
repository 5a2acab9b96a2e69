SPECIFICATION CodecFairSpec
CONSTANTS
  PacketSize = 64
  Sizes = {0, 1, 54, 55, 56, 84, 117, 118, 119, 127, 306, 307, 308}
  Messages <- MCMessages
  JunkBytes = {0, 170}
  MaxCalls = 3
  MaxParses = 1000
INVARIANT TypeOK
INVARIANT PackCarriesData
INVARIANT NoEmptyPacket
INVARIANT NothingLeftOut
INVARIANT PaddingIsZero
INVARIANT DataSurvives
PROPERTY Terminates
\* The calls are bounded, and a read behind the data may end the program.
CHECK_DEADLOCK FALSE
