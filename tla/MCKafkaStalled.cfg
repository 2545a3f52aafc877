CONSTANTS
  MINIMUM_HEADER_LEN_WORDS = 2
  PARAMETER_WORDS = 1
  EVENT_WORDS = 2
  BufferWords = 6
  OverflowChecks = TRUE
  scb = scb
  detector = detector
  Sources <- MCSources
  ControlBoard = scb
  NoTime = NoTime
  Absent = Absent
  Headers <- MCHeaders
  Datagrams <- MCDatagrams
  Streamed <- MCStreamed
  SocketMax = 1
  QueueMax = 1
  MaxArrivals = 2
  MaxRestarts = 1
SPECIFICATION StalledSpec
PROPERTY ReadingNeverWaits
\* A process that is not started again, and boards that fall silent.
CHECK_DEADLOCK FALSE
