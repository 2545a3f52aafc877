\* As MCDataProcessing, with one datagram that fits, in a release build.
CONSTANTS
  MINIMUM_HEADER_LEN_WORDS = 2
  PARAMETER_WORDS = 1
  EVENT_WORDS = 2
  BufferWords = 17
  MaxPackets = 1
  OverflowChecks = FALSE
  Sources = {scb, detector}
  ControlBoard = scb
  NoTime = NoTime
  Absent = Absent
  ZeroWord <- MCZeroWord
  Headers <- MCHeaders
  Datagrams <- MCShortHeaderDatagrams
SPECIFICATION FairProcessingSpec
PROPERTY ProducesForever
CHECK_DEADLOCK FALSE
