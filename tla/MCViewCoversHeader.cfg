\* As MCPacketToFrames, with headers that declare to be longer than the message.
CONSTANTS
  MINIMUM_HEADER_LEN_WORDS = 2
  BufferWords = 4
  MaxPackets = 1
  MaxWords = 3
  DeclaredLengths = {2, 3}
  HeaderLengths = {2, 3}
  ZeroWord <- MCZeroWord
  Headers <- MCHeaders
  Datagrams <- MCDatagrams
SPECIFICATION Spec
INVARIANT ViewCoversHeader
CHECK_DEADLOCK FALSE
