\* Minimum header of 2 words, one word of parameters, events of 2 words. The
\* buffer of 11 words holds any single message and cuts the longest pair.
CONSTANTS
  MINIMUM_HEADER_LEN_WORDS = 2
  PARAMETER_WORDS = 1
  EVENT_WORDS = 2
  BufferWords = 11
  MaxPackets = 2
  OverflowChecks = TRUE
  Sources = {scb, detector}
  ControlBoard = scb
  NoTime = NoTime
  Absent = Absent
  ZeroWord <- MCZeroWord
  Headers <- MCHeaders
  Datagrams <- MCDatagrams
SPECIFICATION FairProcessingSpec
INVARIANTS
  ProcessingTypeOK
  VetoesAlwaysTransmitted
  PeriodOnlyFromControlBoard
  FramesAccountedFor
  EventsAccountedFor
PROPERTIES
  RelayKept
  StepsRunOut
  EveryDatagramIsServed
\* A panic stops the process, and so does a sender that falls silent.
CHECK_DEADLOCK FALSE
