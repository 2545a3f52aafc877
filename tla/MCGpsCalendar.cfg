CONSTANTS
  HOURS_PER_DAY = 1
  MINUTES_PER_HOUR = 1
  SECONDS_PER_MINUTE = 1
  THOUSAND = 1
  DAYS_PER_YEAR = 365
  EPOCH_YEAR = 1970
  BASE_YEAR = 2000
  Shift <- CalendarShift
  Width <- CalendarWidth
  NoTime = NoTime
SPECIFICATION Spec
INVARIANTS
  StreamedTimeIsRead
  TimesTellReadingsApart
PROPERTY EveryTickIsOneNanosecond
\* The clock stops with the last year a header can hold.
CHECK_DEADLOCK FALSE
