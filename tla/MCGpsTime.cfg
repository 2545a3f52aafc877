CONSTANTS
  HOURS_PER_DAY = 2
  MINUTES_PER_HOUR = 2
  SECONDS_PER_MINUTE = 3
  THOUSAND = 2
  DAYS_PER_YEAR = 5
  EPOCH_YEAR = 1970
  BASE_YEAR = 2000
  Shift <- MCShift
  Width <- MCWidth
  NoTime = NoTime
SPECIFICATION Spec
INVARIANTS
  StreamedTimeIsRead
  TimesTellReadingsApart
PROPERTY EveryTickIsOneNanosecond
\* The clock stops with the last year a header can hold.
CHECK_DEADLOCK FALSE
