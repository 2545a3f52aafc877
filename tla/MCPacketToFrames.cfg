\* Minimum header of 2 words, buffer of 4, datagrams of up to 5: truncation at,
\* before and inside a message; declared lengths below, at and above the limits, and 0.
CONSTANTS
  MINIMUM_HEADER_LEN_WORDS = 2
  BufferWords = 4
  MaxPackets = 2
  MaxWords = 5
  DeclaredLengths = {0, 1, 2, 3}
  HeaderLengths = {2}
  ZeroWord <- MCZeroWord
  Headers <- MCHeaders
  Datagrams <- MCDatagrams
SPECIFICATION BoundedFairSpec
INVARIANTS
  TypeOK
  FramesTile
  FramesOfThisDatagram
  NothingReadableLeft
PROPERTIES
  TruncationCounted
  EveryDatagramIsSplit
\* The sender may stop: the process then blocks in recv_from.
CHECK_DEADLOCK FALSE
