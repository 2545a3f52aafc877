\* As MCPacketToFrames, with one datagram of two messages.
CONSTANTS
  MINIMUM_HEADER_LEN_WORDS = 2
  BufferWords = 6
  MaxPackets = 1
  MaxWords = 0
  DeclaredLengths = {2}
  HeaderLengths = {2}
  ZeroWord <- MCZeroWord
  Headers <- MCDamagedHeaders
  Datagrams <- MCDamagedDatagrams
SPECIFICATION Spec
PROPERTY PaddingEndsTheMessages
CHECK_DEADLOCK FALSE
