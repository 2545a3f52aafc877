------------------------------ MODULE GpsTime -------------------------------
(***************************************************************************)
(* GpsTime: the time of a pulse as the boards pack it into a header, and   *)
(* its conversion to nanoseconds since the Unix epoch.  The clock of a     *)
(* board is modelled as it runs, leap seconds included; a board that has   *)
(* no GPS signal streams anything at all.                                  *)
(*                                                                         *)
(* The numbers of the calendar are parameters, so that a small calendar    *)
(* can be checked from end to end.                                         *)
(***************************************************************************)
EXTENDS Integers, PowersOfTwo

CONSTANTS
  HOURS_PER_DAY,       \* 24
  MINUTES_PER_HOUR,    \* 60
  SECONDS_PER_MINUTE,  \* 60
  THOUSAND,            \* 1000
  DAYS_PER_YEAR,       \* 365, and one more in a leap year
  EPOCH_YEAR,          \* 1970
  BASE_YEAR,           \* 2000: the year a header calls 0
  Shift, Width,        \* where each field stands in the packed words
  NoTime               \* None

Fields == {"years", "days", "hours", "minutes", "seconds",
           "milliseconds", "microseconds", "nanoseconds"}

ASSUME CalendarAssumption ==
  /\ HOURS_PER_DAY \in Nat \ {0} /\ MINUTES_PER_HOUR \in Nat \ {0}
  /\ SECONDS_PER_MINUTE \in Nat \ {0} /\ THOUSAND \in Nat \ {0}
  /\ DAYS_PER_YEAR \in Nat \ {0}
  /\ EPOCH_YEAR \in Nat \ {0} /\ BASE_YEAR \in Nat /\ EPOCH_YEAR <= BASE_YEAR
  /\ Shift \in [Fields -> Nat] /\ Width \in [Fields -> Nat]
  /\ NoTime \notin Int

Readings == [Fields -> Nat]

VARIABLES
  locked,   \* whether the board's clock follows GPS
  reading,  \* what its clock shows
  content   \* the packed words of its headers

vars == <<locked, reading, content>>

-----------------------------------------------------------------------------
(* The calendar as chrono has it: the days of a year, and how many there   *)
(* were from the epoch to its first day.                                   *)
IsLeap(y) == y % 4 = 0 /\ (y % 100 # 0 \/ y % 400 = 0)

DaysIn(y) == DAYS_PER_YEAR + (IF IsLeap(y) THEN 1 ELSE 0)

LeapYearsBefore(y) == (y - 1) \div 4 - (y - 1) \div 100 + (y - 1) \div 400

DaysBefore(y) ==
  DAYS_PER_YEAR * (y - EPOCH_YEAR) + LeapYearsBefore(y) - LeapYearsBefore(EPOCH_YEAR)

(* The layout: the fields stand side by side, years on top, and each holds *)
(* what a clock may show.  A header knows few enough years that their leap *)
(* days make up less than a year.                                          *)
Unit == [f \in Fields |-> PowerOf2[Shift[f]]]

Size == [f \in Fields |-> PowerOf2[Width[f]]]

LayoutFits ==
  /\ Shift["nanoseconds"] = 0
  /\ Shift["microseconds"] = Shift["nanoseconds"] + Width["nanoseconds"]
  /\ Shift["milliseconds"] = Shift["microseconds"] + Width["microseconds"]
  /\ Shift["seconds"] = Shift["milliseconds"] + Width["milliseconds"]
  /\ Shift["minutes"] = Shift["seconds"] + Width["seconds"]
  /\ Shift["hours"] = Shift["minutes"] + Width["minutes"]
  /\ Shift["days"] = Shift["hours"] + Width["hours"]
  /\ Shift["years"] = Shift["days"] + Width["days"]
  /\ THOUSAND <= Size["nanoseconds"] /\ THOUSAND <= Size["microseconds"]
  /\ THOUSAND <= Size["milliseconds"]
  /\ SECONDS_PER_MINUTE < Size["seconds"]
  /\ MINUTES_PER_HOUR <= Size["minutes"]
  /\ HOURS_PER_DAY <= Size["hours"]
  /\ DAYS_PER_YEAR + 1 < Size["days"]
  /\ LeapYearsBefore(BASE_YEAR + Size["years"]) - LeapYearsBefore(BASE_YEAR)
       < DAYS_PER_YEAR

ASSUME LayoutAssumption == LayoutFits

Pack(r) ==
  r.years * Unit.years + r.days * Unit.days + r.hours * Unit.hours
    + r.minutes * Unit.minutes + r.seconds * Unit.seconds
    + r.milliseconds * Unit.milliseconds + r.microseconds * Unit.microseconds
    + r.nanoseconds * Unit.nanoseconds

BadUnpack(c) ==
  [f \in Fields |-> (c \div Unit[f]) % (IF f = "days" THEN 2 * Size[f] ELSE Size[f])]

Unpack(c) == [f \in Fields |-> (c \div Unit[f]) % Size[f]]

-----------------------------------------------------------------------------
NANOS_PER_MS == THOUSAND * THOUSAND
NANOS_PER_SEC == THOUSAND * NANOS_PER_MS
SECONDS_PER_HOUR == MINUTES_PER_HOUR * SECONDS_PER_MINUTE
SECONDS_PER_DAY == HOURS_PER_DAY * SECONDS_PER_HOUR

BadYearOf(r) == r.years + EPOCH_YEAR

YearOf(r) == r.years + BASE_YEAR

(* NaiveDate::from_yo_opt, and timestamp(). *)
BadDateExists(r) == r.days \in 1..(DAYS_PER_YEAR + 1)

DateExists(r) == r.days \in 1..DaysIn(YearOf(r))

Timestamp(r) == (DaysBefore(YearOf(r)) + r.days - 1) * SECONDS_PER_DAY

BadValid(r) ==
  /\ DateExists(r)
  /\ r.hours <= HOURS_PER_DAY
  /\ r.minutes < MINUTES_PER_HOUR
  /\ r.seconds <= SECONDS_PER_MINUTE
  /\ r.milliseconds < THOUSAND
  /\ r.microseconds < THOUSAND
  /\ r.nanoseconds < THOUSAND

Valid(r) ==
  /\ DateExists(r)
  /\ r.hours < HOURS_PER_DAY
  /\ r.minutes < MINUTES_PER_HOUR
  /\ r.seconds <= SECONDS_PER_MINUTE  \* one more than a minute has
  /\ r.milliseconds < THOUSAND
  /\ r.microseconds < THOUSAND
  /\ r.nanoseconds < THOUSAND

BadNanoseconds(r) ==
  Timestamp(r) * NANOS_PER_SEC
    + r.hours * SECONDS_PER_MINUTE * NANOS_PER_SEC
    + r.minutes * SECONDS_PER_MINUTE * NANOS_PER_SEC
    + r.seconds * NANOS_PER_SEC
    + r.milliseconds * NANOS_PER_MS
    + r.microseconds * THOUSAND
    + r.nanoseconds

Nanoseconds(r) ==
  Timestamp(r) * NANOS_PER_SEC
    + r.hours * SECONDS_PER_HOUR * NANOS_PER_SEC
    + r.minutes * SECONDS_PER_MINUTE * NANOS_PER_SEC
    + r.seconds * NANOS_PER_SEC
    + r.milliseconds * NANOS_PER_MS
    + r.microseconds * THOUSAND
    + r.nanoseconds

NanosecondsSinceEpoch(r) == IF Valid(r) THEN Nanoseconds(r) ELSE NoTime

-----------------------------------------------------------------------------
(* The clock of a board. *)
SubMicrosecond == {"nanoseconds"}
SubMillisecond == SubMicrosecond \cup {"microseconds"}
SubSecond == SubMillisecond \cup {"milliseconds"}
SubMinute == SubSecond \cup {"seconds"}
SubHour == SubMinute \cup {"minutes"}
SubDay == SubHour \cup {"hours"}

LastOf(f) ==
  CASE f \in SubSecond   -> THOUSAND - 1
    [] f = "seconds"     -> SECONDS_PER_MINUTE - 1
    [] f = "minutes"     -> MINUTES_PER_HOUR - 1
    [] f = "hours"       -> HOURS_PER_DAY - 1
    [] f = "days"        -> DaysIn(BASE_YEAR + reading.years)

AtEnd(f) == reading[f] >= LastOf(f)

(* f is counted up once the fields below it are full: those restart. *)
Carry(below, f) ==
  /\ \A g \in below : AtEnd(g)
  /\ ~AtEnd(f)
  /\ reading' = [g \in Fields |->
                    IF g \in below THEN 0
                    ELSE IF g = f THEN reading[g] + 1 ELSE reading[g]]

NewYear ==
  /\ \A g \in SubDay \cup {"days"} : AtEnd(g)
  /\ reading.years + 1 < Size.years  \* the header has no further year
  /\ reading' = [g \in Fields |->
                    CASE g = "years" -> reading.years + 1
                      [] g = "days"  -> 1
                      [] OTHER       -> 0]

(* After the last minute of a day there may be one more second. *)
LeapSecond ==
  /\ \A g \in SubDay : AtEnd(g)
  /\ reading.seconds = SECONDS_PER_MINUTE - 1
  /\ reading' = [g \in Fields |->
                    IF g \in SubSecond THEN 0
                    ELSE IF g = "seconds" THEN SECONDS_PER_MINUTE ELSE reading[g]]

Tick ==
  \/ Carry({}, "nanoseconds")
  \/ Carry(SubMicrosecond, "microseconds")
  \/ Carry(SubMillisecond, "milliseconds")
  \/ Carry(SubSecond, "seconds")
  \/ Carry(SubMinute, "minutes")
  \/ Carry(SubHour, "hours")
  \/ Carry(SubDay, "days")
  \/ NewYear
  \/ LeapSecond

FirstReading ==
  [f \in Fields |-> IF f = "days" THEN 1 ELSE 0]

Init ==
  /\ locked \in BOOLEAN
  /\ reading = FirstReading
  /\ content \in IF locked THEN {Pack(reading)}
                 ELSE 0..(Unit.years * Size.years - 1)

Next ==
  /\ locked
  /\ Tick
  /\ content' = Pack(reading')
  /\ UNCHANGED locked

Spec == Init /\ [][Next]_vars

-----------------------------------------------------------------------------
(* What a board with a GPS signal packs is what the receiver unpacks, bit  *)
(* for bit, and it is never refused: the checks of nanoseconds_since_epoch *)
(* let every reading of a clock pass, in leap years and leap seconds too.  *)
StreamedTimeIsRead ==
  locked => Unpack(content) = reading /\ Valid(reading)

LeapSecondEnds ==
  /\ reading.seconds = SECONDS_PER_MINUTE
  /\ reading'.seconds # SECONDS_PER_MINUTE

(* The converted time counts every nanosecond once, over the ends of       *)
(* minutes, days and years alike: pulses keep their order and no two have  *)
(* the same time -- but for a leap second, whose time is counted again in  *)
(* the second after it.                                                    *)
EveryTickIsOneNanosecond ==
  [][NanosecondsSinceEpoch(reading') =
       NanosecondsSinceEpoch(reading) + 1
         - (IF LeapSecondEnds THEN NANOS_PER_SEC ELSE 0)]_reading

(* The reading at n nanoseconds since the epoch, by division. *)
ReadingAt(n) ==
  LET second == n \div NANOS_PER_SEC
      day == second \div SECONDS_PER_DAY
      \* too late by one at most, as the leap days make up less than a year
      estimate == BASE_YEAR + (day - DaysBefore(BASE_YEAR)) \div DAYS_PER_YEAR
      year == CHOOSE y \in {estimate - 1, estimate} :
                DaysBefore(y) <= day /\ day < DaysBefore(y + 1)
  IN  [years        |-> year - BASE_YEAR,
       days         |-> day - DaysBefore(year) + 1,
       hours        |-> (second \div SECONDS_PER_HOUR) % HOURS_PER_DAY,
       minutes      |-> (second \div SECONDS_PER_MINUTE) % MINUTES_PER_HOUR,
       seconds      |-> second % SECONDS_PER_MINUTE,
       milliseconds |-> (n \div NANOS_PER_MS) % THOUSAND,
       microseconds |-> (n \div THOUSAND) % THOUSAND,
       nanoseconds  |-> n % THOUSAND]

(* Whatever a board streams: two headers with a valid time have different  *)
(* pulse times unless they read the same.  The one exception is second 60, *)
(* accepted in every minute (gps_time.rs:98): it has the time of the next  *)
(* second 0.                                                               *)
TimesTellReadingsApart ==
  LET r == Unpack(content)
      t == NanosecondsSinceEpoch(r)
  IN  t # NoTime =>
        IF r.seconds < SECONDS_PER_MINUTE
          THEN ReadingAt(t) = r
          ELSE ReadingAt(t - NANOS_PER_SEC)
                 = [r EXCEPT !.seconds = SECONDS_PER_MINUTE - 1]
=============================================================================
