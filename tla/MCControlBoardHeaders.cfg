\* As MCDataProcessing, with a single datagram.
CONSTANTS
  MINIMUM_HEADER_LEN_WORDS = 2
  PARAMETER_WORDS = 1
  EVENT_WORDS = 2
  BufferWords = 11
  MaxPackets = 1
  OverflowChecks = TRUE
  Sources = {scb, detector}
  ControlBoard = scb
  NoTime = NoTime
  Absent = Absent
  ZeroWord <- MCZeroWord
  Headers <- MCHeaders
  Datagrams <- MCDatagrams
SPECIFICATION ProcessingSpec
INVARIANT ControlBoardHeadersCounted
CHECK_DEADLOCK FALSE
