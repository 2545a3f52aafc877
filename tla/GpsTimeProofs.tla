--------------------------- MODULE GpsTimeProofs ----------------------------
(***************************************************************************)
(* The conversion of pulse times counts every nanosecond of a clock once,  *)
(* for every calendar of this shape -- the real one among them.            *)
(***************************************************************************)
EXTENDS GpsTime, PowersOfTwoProofs

(* A reading the conversion accepts. *)
ClockInv == reading \in Readings /\ Valid(reading)

-----------------------------------------------------------------------------
(* The lengths of the units. *)
LEMMA Products ==
  ASSUME NEW a \in Nat \ {0}, NEW b \in Nat \ {0}
  PROVE  a * b \in Nat \ {0}
  OBVIOUS

LEMMA Units ==
  /\ NANOS_PER_MS \in Nat \ {0} /\ NANOS_PER_SEC \in Nat \ {0}
  /\ SECONDS_PER_HOUR \in Nat \ {0} /\ SECONDS_PER_DAY \in Nat \ {0}
<1>1. NANOS_PER_MS \in Nat \ {0} /\ SECONDS_PER_HOUR \in Nat \ {0}
  BY CalendarAssumption, Products DEF NANOS_PER_MS, SECONDS_PER_HOUR
<1>2. NANOS_PER_SEC \in Nat \ {0} /\ SECONDS_PER_DAY \in Nat \ {0}
  BY <1>1, CalendarAssumption, Products DEF NANOS_PER_SEC, SECONDS_PER_DAY
<1> QED BY <1>1, <1>2

LEMMA OneMore ==
  ASSUME NEW a \in Int, NEW b \in Int
  PROVE  (a + 1) * b = a * b + b
  OBVIOUS

LEMMA ProductIsInt == ASSUME NEW a \in Int, NEW b \in Int PROVE a * b \in Int
  OBVIOUS

(* Full milliseconds, microseconds and nanoseconds lack one nanosecond of  *)
(* a second.                                                               *)
LEMMA FullSecond ==
  (THOUSAND - 1) * NANOS_PER_MS + (THOUSAND - 1) * THOUSAND + (THOUSAND - 1)
    = NANOS_PER_SEC - 1
<1>1. \A k \in Nat : (k - 1) * (k * k) + (k - 1) * k + (k - 1) = k * (k * k) - 1
  OBVIOUS
<1> QED BY <1>1, CalendarAssumption DEF NANOS_PER_MS, NANOS_PER_SEC

(* The calendar: the leap years before a year, and it if it is one, are    *)
(* those before the next; so are the days.                                 *)
LEMMA LeapYearsAdjoin ==
  ASSUME NEW y \in Nat
  PROVE  /\ LeapYearsBefore(y + 1) = LeapYearsBefore(y) + (IF IsLeap(y) THEN 1 ELSE 0)
         /\ LeapYearsBefore(y) \in Int
<1>1. \A m \in {4, 100, 400} : y \div m = (y - 1) \div m + (IF y % m = 0 THEN 1 ELSE 0)
  OBVIOUS
<1>2. y % 400 = 0 => y % 100 = 0
  OBVIOUS
<1>3. y % 100 = 0 => y % 4 = 0
  OBVIOUS
<1> QED BY <1>1, <1>2, <1>3 DEF LeapYearsBefore, IsLeap

LEMMA YearsAdjoin ==
  ASSUME NEW y \in Nat
  PROVE  DaysBefore(y + 1) = DaysBefore(y) + DaysIn(y)
<1>1. LeapYearsBefore(y + 1) = LeapYearsBefore(y) + (IF IsLeap(y) THEN 1 ELSE 0)
  BY LeapYearsAdjoin
<1>2. /\ LeapYearsBefore(y) \in Int /\ LeapYearsBefore(EPOCH_YEAR) \in Int
      /\ DAYS_PER_YEAR * (y - EPOCH_YEAR) \in Int
  BY CalendarAssumption DEF LeapYearsBefore
<1>3. DAYS_PER_YEAR * (y + 1 - EPOCH_YEAR) = DAYS_PER_YEAR * (y - EPOCH_YEAR) + DAYS_PER_YEAR
  BY CalendarAssumption
<1>4. CASE IsLeap(y)
  BY <1>1, <1>2, <1>3, <1>4, CalendarAssumption DEF DaysBefore, DaysIn
<1>5. CASE ~IsLeap(y)
  BY <1>1, <1>2, <1>3, <1>5, CalendarAssumption DEF DaysBefore, DaysIn
<1> QED BY <1>4, <1>5

-----------------------------------------------------------------------------
(* A time as a count of seconds and the nanoseconds of the last one. *)
SecondCount(r) ==
  Timestamp(r) + r.hours * SECONDS_PER_HOUR + r.minutes * SECONDS_PER_MINUTE + r.seconds

OfSecond(r) == r.milliseconds * NANOS_PER_MS + r.microseconds * THOUSAND + r.nanoseconds

LEMMA DaysAreIntegers ==
  ASSUME NEW y \in Nat
  PROVE  DaysBefore(y) \in Int /\ DaysIn(y) \in Nat \ {0}
<1>1. /\ LeapYearsBefore(y) \in Int /\ LeapYearsBefore(EPOCH_YEAR) \in Int
      /\ DAYS_PER_YEAR * (y - EPOCH_YEAR) \in Int
  BY CalendarAssumption DEF LeapYearsBefore
<1> QED BY <1>1, CalendarAssumption DEF DaysBefore, DaysIn

LEMMA Types ==
  ASSUME NEW r \in Readings
  PROVE  /\ \A f \in Fields : r[f] \in Nat
         /\ YearOf(r) \in Nat
         /\ Timestamp(r) \in Int
         /\ r.hours * SECONDS_PER_HOUR \in Int
         /\ r.minutes * SECONDS_PER_MINUTE \in Int
         /\ SecondCount(r) \in Int
         /\ OfSecond(r) \in Int
<1>1. \A f \in Fields : r[f] \in Nat
  BY DEF Readings
<1>2. YearOf(r) \in Nat
  BY <1>1, CalendarAssumption DEF YearOf, Fields
<1>3. Timestamp(r) \in Int
  BY <1>1, <1>2, DaysAreIntegers, Units, ProductIsInt DEF Timestamp, Fields
<1>4. r.hours * SECONDS_PER_HOUR \in Int /\ r.minutes * SECONDS_PER_MINUTE \in Int
  BY <1>1, Units, ProductIsInt, CalendarAssumption DEF Fields
<1>5. r.milliseconds * NANOS_PER_MS \in Int /\ r.microseconds * THOUSAND \in Int
  BY <1>1, Units, ProductIsInt, CalendarAssumption DEF Fields
<1> QED BY <1>1, <1>2, <1>3, <1>4, <1>5 DEF SecondCount, OfSecond, Fields

LEMMA Distribute ==
  ASSUME NEW a \in Int, NEW b \in Int, NEW k \in Int
  PROVE  (a + b) * k = a * k + b * k
  OBVIOUS

LEMMA SplitAtSecond ==
  ASSUME NEW r \in Readings
  PROVE  Nanoseconds(r) = SecondCount(r) * NANOS_PER_SEC + OfSecond(r)
<1> DEFINE t == Timestamp(r)
           h == r.hours * SECONDS_PER_HOUR
           m == r.minutes * SECONDS_PER_MINUTE
           s == r.seconds
<1>1. t \in Int /\ h \in Int /\ m \in Int /\ s \in Int /\ NANOS_PER_SEC \in Int
  BY Types, Units DEF Fields
<1>2. SecondCount(r) = ((t + h) + m) + s
  BY DEF SecondCount
<1>3. Nanoseconds(r) = t * NANOS_PER_SEC + h * NANOS_PER_SEC + m * NANOS_PER_SEC
                         + s * NANOS_PER_SEC + r.milliseconds * NANOS_PER_MS
                         + r.microseconds * THOUSAND + r.nanoseconds
  BY DEF Nanoseconds
<1>4. OfSecond(r) = r.milliseconds * NANOS_PER_MS + r.microseconds * THOUSAND + r.nanoseconds
  BY DEF OfSecond
<1>5. /\ r.milliseconds * NANOS_PER_MS \in Int /\ r.microseconds * THOUSAND \in Int
      /\ r.nanoseconds \in Int
  BY Types, Units, ProductIsInt, CalendarAssumption DEF Fields
<1> HIDE DEF t, h, m, s
<1>6. (((t + h) + m) + s) * NANOS_PER_SEC
        = t * NANOS_PER_SEC + h * NANOS_PER_SEC + m * NANOS_PER_SEC + s * NANOS_PER_SEC
  BY <1>1, Distribute
<1>7. /\ t * NANOS_PER_SEC \in Int /\ h * NANOS_PER_SEC \in Int
      /\ m * NANOS_PER_SEC \in Int /\ s * NANOS_PER_SEC \in Int
  BY <1>1, ProductIsInt
<1> QED BY <1>2, <1>3, <1>4, <1>5, <1>6, <1>7

(* A second that ends: d more seconds are counted, one or (after a leap    *)
(* second) none.                                                           *)
LEMMA SecondEnds ==
  ASSUME NEW r \in Readings, NEW q \in Readings, NEW d \in {0, 1},
         OfSecond(r) = NANOS_PER_SEC - 1, OfSecond(q) = 0,
         SecondCount(q) = SecondCount(r) + d
  PROVE  Nanoseconds(q) = Nanoseconds(r) + 1 - (IF d = 0 THEN NANOS_PER_SEC ELSE 0)
<1>1. /\ SecondCount(r) \in Int /\ SecondCount(q) \in Int
      /\ NANOS_PER_SEC \in Int /\ SecondCount(r) * NANOS_PER_SEC \in Int
  BY Types, Units, ProductIsInt
<1>2. /\ Nanoseconds(q) = SecondCount(q) * NANOS_PER_SEC
      /\ Nanoseconds(r) = SecondCount(r) * NANOS_PER_SEC + NANOS_PER_SEC - 1
  BY <1>1, SplitAtSecond, ProductIsInt
<1>3. CASE d = 1
  BY <1>1, <1>2, <1>3, OneMore
<1>4. CASE d = 0
  BY <1>1, <1>2, <1>4
<1> QED BY <1>3, <1>4

-----------------------------------------------------------------------------
(* What a clock shows, and when a field of it is full. *)
LEMMA FullFields ==
  ASSUME ClockInv
  PROVE  /\ AtEnd("nanoseconds")  => reading.nanoseconds = THOUSAND - 1
         /\ AtEnd("microseconds") => reading.microseconds = THOUSAND - 1
         /\ AtEnd("milliseconds") => reading.milliseconds = THOUSAND - 1
         /\ AtEnd("seconds") => reading.seconds \in {SECONDS_PER_MINUTE - 1, SECONDS_PER_MINUTE}
         /\ AtEnd("minutes") => reading.minutes = MINUTES_PER_HOUR - 1
         /\ AtEnd("hours")   => reading.hours = HOURS_PER_DAY - 1
         /\ AtEnd("days")    => reading.days = DaysIn(YearOf(reading))
         /\ ~AtEnd("nanoseconds")  => reading.nanoseconds + 1 < THOUSAND
         /\ ~AtEnd("microseconds") => reading.microseconds + 1 < THOUSAND
         /\ ~AtEnd("milliseconds") => reading.milliseconds + 1 < THOUSAND
         /\ ~AtEnd("seconds") => reading.seconds + 1 < SECONDS_PER_MINUTE
         /\ ~AtEnd("minutes") => reading.minutes + 1 < MINUTES_PER_HOUR
         /\ ~AtEnd("hours")   => reading.hours + 1 < HOURS_PER_DAY
         /\ ~AtEnd("days")    => reading.days + 1 \in 1..DaysIn(YearOf(reading))
<1>1. \A f \in Fields : reading[f] \in Nat
  BY Types DEF ClockInv
<1>2. /\ \A f \in SubSecond : LastOf(f) = THOUSAND - 1
      /\ LastOf("seconds") = SECONDS_PER_MINUTE - 1
      /\ LastOf("minutes") = MINUTES_PER_HOUR - 1
      /\ LastOf("hours") = HOURS_PER_DAY - 1
      /\ LastOf("days") = DaysIn(BASE_YEAR + reading.years)
  BY DEF LastOf, SubSecond, SubMillisecond, SubMicrosecond
<1>3. YearOf(reading) = BASE_YEAR + reading.years /\ YearOf(reading) \in Nat
  BY <1>1, CalendarAssumption DEF YearOf, Fields
<1>4. DaysIn(YearOf(reading)) \in Nat \ {0}
  BY <1>3, DaysAreIntegers
<1>5. Valid(reading) /\ DateExists(reading)
  BY DEF ClockInv, Valid
<1>6. /\ AtEnd("nanoseconds")  => reading.nanoseconds = THOUSAND - 1
      /\ AtEnd("microseconds") => reading.microseconds = THOUSAND - 1
      /\ AtEnd("milliseconds") => reading.milliseconds = THOUSAND - 1
      /\ ~AtEnd("nanoseconds")  => reading.nanoseconds + 1 < THOUSAND
      /\ ~AtEnd("microseconds") => reading.microseconds + 1 < THOUSAND
      /\ ~AtEnd("milliseconds") => reading.milliseconds + 1 < THOUSAND
  BY <1>1, <1>2, <1>5, CalendarAssumption
     DEF AtEnd, Valid, Fields, SubSecond, SubMillisecond, SubMicrosecond
<1>7. /\ AtEnd("seconds") => reading.seconds \in {SECONDS_PER_MINUTE - 1, SECONDS_PER_MINUTE}
      /\ AtEnd("minutes") => reading.minutes = MINUTES_PER_HOUR - 1
      /\ AtEnd("hours")   => reading.hours = HOURS_PER_DAY - 1
      /\ ~AtEnd("seconds") => reading.seconds + 1 < SECONDS_PER_MINUTE
      /\ ~AtEnd("minutes") => reading.minutes + 1 < MINUTES_PER_HOUR
      /\ ~AtEnd("hours")   => reading.hours + 1 < HOURS_PER_DAY
  BY <1>1, <1>2, <1>5, CalendarAssumption DEF AtEnd, Valid, Fields
<1>8. /\ AtEnd("days")  => reading.days = DaysIn(YearOf(reading))
      /\ ~AtEnd("days") => reading.days + 1 \in 1..DaysIn(YearOf(reading))
  BY <1>1, <1>2, <1>3, <1>4, <1>5 DEF AtEnd, DateExists, Fields
<1> QED BY <1>6, <1>7, <1>8

(* One nanosecond passes. *)
TickOf(r, q, leap) ==
  /\ q \in Readings /\ Valid(q)
  /\ Nanoseconds(q) = Nanoseconds(r) + 1 - (IF leap THEN NANOS_PER_SEC ELSE 0)

LEMMA SubSecondCarries ==
  ASSUME ClockInv,
         \/ Carry({}, "nanoseconds")
         \/ Carry(SubMicrosecond, "microseconds")
         \/ Carry(SubMillisecond, "milliseconds")
  PROVE  TickOf(reading, reading', LeapSecondEnds)
<1> DEFINE q == reading'
<1>1. \A f \in Fields : reading[f] \in Nat
  BY Types DEF ClockInv
<1>2. /\ q \in Readings
      /\ \A f \in Fields \ SubSecond : q[f] = reading[f]
  BY <1>1 DEF Carry, Readings, Fields, SubSecond, SubMillisecond, SubMicrosecond
<1>3. /\ q.milliseconds \in 0..(THOUSAND - 1)
      /\ q.microseconds \in 0..(THOUSAND - 1)
      /\ q.nanoseconds \in 0..(THOUSAND - 1)
  <2>1. /\ reading.milliseconds < THOUSAND /\ reading.microseconds < THOUSAND
        /\ reading.nanoseconds < THOUSAND
    BY DEF ClockInv, Valid
  <2> QED BY <2>1, <1>1, FullFields, CalendarAssumption
          DEF Carry, Fields, SubMillisecond, SubMicrosecond
<1>4. Valid(q)
  BY <1>1, <1>2, <1>3, CalendarAssumption
     DEF ClockInv, Valid, DateExists, YearOf, Fields, SubSecond, SubMillisecond, SubMicrosecond
<1>5. SecondCount(q) = SecondCount(reading)
  BY <1>2 DEF SecondCount, Timestamp, YearOf, Fields, SubSecond, SubMillisecond, SubMicrosecond
<1>6. OfSecond(q) = OfSecond(reading) + 1
  <2>1. reading.milliseconds * NANOS_PER_MS \in Int /\ reading.microseconds * THOUSAND \in Int
    BY <1>1, Units, ProductIsInt, CalendarAssumption DEF Fields
  <2>2. CASE Carry({}, "nanoseconds")
    <3>1. /\ q.milliseconds = reading.milliseconds /\ q.microseconds = reading.microseconds
          /\ q.nanoseconds = reading.nanoseconds + 1
      BY <2>2 DEF Carry, Fields
    <3> QED BY <3>1, <2>1, <1>1 DEF OfSecond, Fields
  <2>3. CASE Carry(SubMicrosecond, "microseconds")
    <3>1. /\ q.milliseconds = reading.milliseconds
          /\ q.microseconds = reading.microseconds + 1 /\ q.nanoseconds = 0
          /\ reading.nanoseconds = THOUSAND - 1
      BY <2>3, FullFields DEF Carry, Fields, SubMicrosecond
    <3>2. (reading.microseconds + 1) * THOUSAND = reading.microseconds * THOUSAND + THOUSAND
      BY <1>1, OneMore, CalendarAssumption DEF Fields
    <3> QED BY <3>1, <3>2, <2>1, CalendarAssumption DEF OfSecond
  <2>4. CASE Carry(SubMillisecond, "milliseconds")
    <3>1. /\ q.milliseconds = reading.milliseconds + 1
          /\ q.microseconds = 0 /\ q.nanoseconds = 0
          /\ reading.microseconds = THOUSAND - 1 /\ reading.nanoseconds = THOUSAND - 1
      BY <2>4, FullFields DEF Carry, Fields, SubMillisecond, SubMicrosecond
    <3>2. (reading.milliseconds + 1) * NANOS_PER_MS = reading.milliseconds * NANOS_PER_MS + NANOS_PER_MS
      BY <1>1, OneMore, Units DEF Fields
    <3>3. (THOUSAND - 1) * THOUSAND + (THOUSAND - 1) = NANOS_PER_MS - 1
      BY CalendarAssumption DEF NANOS_PER_MS
    <3>4. 0 * THOUSAND = 0 /\ (THOUSAND - 1) * THOUSAND \in Int
      BY CalendarAssumption
    <3> QED BY <3>1, <3>2, <3>3, <3>4, <2>1, Units, CalendarAssumption DEF OfSecond
  <2> QED BY <2>2, <2>3, <2>4
<1>7. ~LeapSecondEnds
  BY <1>2 DEF LeapSecondEnds, Fields, SubSecond, SubMillisecond, SubMicrosecond
<1>8. Nanoseconds(q) = Nanoseconds(reading) + 1
  <2>1. /\ SecondCount(reading) * NANOS_PER_SEC \in Int /\ OfSecond(reading) \in Int
    BY Types, Units, ProductIsInt DEF ClockInv
  <2> QED BY <1>2, <1>5, <1>6, <2>1, SplitAtSecond DEF ClockInv
<1>9. Nanoseconds(reading) \in Int
  BY SplitAtSecond, Types, Units, ProductIsInt DEF ClockInv
<1> QED BY <1>2, <1>4, <1>7, <1>8, <1>9 DEF TickOf

(* The steps that end a second. *)
LEMMA OfSecondRestarts ==
  ASSUME ClockInv, NEW q \in Readings,
         \A f \in SubSecond : AtEnd(f) /\ q[f] = 0
  PROVE  OfSecond(reading) = NANOS_PER_SEC - 1 /\ OfSecond(q) = 0
<1>1. /\ reading.nanoseconds = THOUSAND - 1 /\ reading.microseconds = THOUSAND - 1
      /\ reading.milliseconds = THOUSAND - 1
      /\ q.nanoseconds = 0 /\ q.microseconds = 0 /\ q.milliseconds = 0
  BY FullFields DEF SubSecond, SubMillisecond, SubMicrosecond
<1>2. 0 * NANOS_PER_MS = 0 /\ 0 * THOUSAND = 0
  BY Units, CalendarAssumption
<1> QED BY <1>1, <1>2, FullSecond DEF OfSecond

LEMMA EndedSecondIsTick ==
  ASSUME ClockInv, NEW q \in Readings, NEW leap \in BOOLEAN,
         Valid(q),
         \A f \in SubSecond : AtEnd(f) /\ q[f] = 0,
         SecondCount(q) = SecondCount(reading) + (IF leap THEN 0 ELSE 1)
  PROVE  TickOf(reading, q, leap)
<1>1. OfSecond(reading) = NANOS_PER_SEC - 1 /\ OfSecond(q) = 0
  BY OfSecondRestarts
<1>2. CASE leap
  <2>1. SecondCount(q) = SecondCount(reading) + 0
    BY <1>2
  <2> QED BY <1>1, <1>2, <2>1, SecondEnds DEF TickOf, ClockInv
<1>3. CASE ~leap
  <2>1. SecondCount(q) = SecondCount(reading) + 1
    BY <1>3
  <2>2. Nanoseconds(reading) \in Int
    BY SplitAtSecond, Types, Units, ProductIsInt DEF ClockInv
  <2> QED BY <1>1, <1>3, <2>1, <2>2, SecondEnds DEF TickOf, ClockInv
<1> QED BY <1>2, <1>3

LEMMA SecondCarries ==
  ASSUME ClockInv,
         \/ Carry(SubSecond, "seconds")
         \/ Carry(SubMinute, "minutes")
         \/ Carry(SubHour, "hours")
  PROVE  TickOf(reading, reading', LeapSecondEnds)
<1> DEFINE q == reading'
<1>1. \A f \in Fields : reading[f] \in Nat
  BY Types DEF ClockInv
<1>2. /\ q \in Readings
      /\ q.years = reading.years /\ q.days = reading.days
      /\ \A f \in SubSecond : AtEnd(f) /\ q[f] = 0
  BY <1>1 DEF Carry, Readings, Fields, SubHour, SubMinute, SubSecond, SubMillisecond, SubMicrosecond
<1>3. /\ q.hours < HOURS_PER_DAY /\ q.minutes < MINUTES_PER_HOUR
      /\ q.seconds < SECONDS_PER_MINUTE
  <2>1. reading.hours < HOURS_PER_DAY /\ reading.minutes < MINUTES_PER_HOUR
    BY DEF ClockInv, Valid
  <2> QED BY <2>1, <1>1, FullFields, CalendarAssumption
          DEF Carry, Fields, SubHour, SubMinute, SubSecond, SubMillisecond, SubMicrosecond
<1>4. Valid(q)
  <2>1. q.milliseconds = 0 /\ q.microseconds = 0 /\ q.nanoseconds = 0
    BY <1>2 DEF SubSecond, SubMillisecond, SubMicrosecond
  <2>2. DateExists(q)
    BY <1>2 DEF ClockInv, Valid, DateExists, YearOf
  <2>3. q.seconds \in Nat
    BY <1>2 DEF Readings, Fields
  <2> QED BY <1>2, <1>3, <2>1, <2>2, <2>3, CalendarAssumption DEF Valid
<1>5. /\ reading.hours * SECONDS_PER_HOUR \in Int
      /\ reading.minutes * SECONDS_PER_MINUTE \in Int
      /\ Timestamp(reading) \in Int /\ Timestamp(q) = Timestamp(reading)
  BY <1>2, Types DEF ClockInv, Timestamp, YearOf
<1>6. SecondCount(q) = SecondCount(reading) + (IF LeapSecondEnds THEN 0 ELSE 1)
  <2>1. CASE Carry(SubSecond, "seconds")
    <3>1. /\ q.hours = reading.hours /\ q.minutes = reading.minutes
          /\ q.seconds = reading.seconds + 1 /\ reading.seconds + 1 < SECONDS_PER_MINUTE
      BY <2>1, FullFields DEF Carry, Fields, SubSecond, SubMillisecond, SubMicrosecond
    <3>2. ~LeapSecondEnds
      BY <3>1, <1>1, CalendarAssumption DEF LeapSecondEnds, Fields
    <3> QED BY <3>1, <3>2, <1>1, <1>5 DEF SecondCount, Fields
  <2>2. CASE Carry(SubMinute, "minutes")
    <3>1. /\ q.hours = reading.hours /\ q.minutes = reading.minutes + 1 /\ q.seconds = 0
          /\ reading.seconds \in {SECONDS_PER_MINUTE - 1, SECONDS_PER_MINUTE}
      BY <2>2, FullFields
         DEF Carry, Fields, SubMinute, SubSecond, SubMillisecond, SubMicrosecond
    <3>2. LeapSecondEnds <=> reading.seconds = SECONDS_PER_MINUTE
      BY <3>1, CalendarAssumption DEF LeapSecondEnds
    <3>3. (reading.minutes + 1) * SECONDS_PER_MINUTE
            = reading.minutes * SECONDS_PER_MINUTE + SECONDS_PER_MINUTE
      BY <1>1, OneMore, CalendarAssumption DEF Fields
    <3> QED BY <3>1, <3>2, <3>3, <1>1, <1>5, CalendarAssumption DEF SecondCount, Fields
  <2>3. CASE Carry(SubHour, "hours")
    <3>1. /\ q.hours = reading.hours + 1 /\ q.minutes = 0 /\ q.seconds = 0
          /\ reading.minutes = MINUTES_PER_HOUR - 1
          /\ reading.seconds \in {SECONDS_PER_MINUTE - 1, SECONDS_PER_MINUTE}
      BY <2>3, FullFields
         DEF Carry, Fields, SubHour, SubMinute, SubSecond, SubMillisecond, SubMicrosecond
    <3>2. LeapSecondEnds <=> reading.seconds = SECONDS_PER_MINUTE
      BY <3>1, CalendarAssumption DEF LeapSecondEnds
    <3>3. (reading.hours + 1) * SECONDS_PER_HOUR
            = reading.hours * SECONDS_PER_HOUR + SECONDS_PER_HOUR
      BY <1>1, OneMore, Units DEF Fields
    <3>4. (MINUTES_PER_HOUR - 1) * SECONDS_PER_MINUTE = SECONDS_PER_HOUR - SECONDS_PER_MINUTE
      BY CalendarAssumption DEF SECONDS_PER_HOUR
    <3>5. 0 * SECONDS_PER_MINUTE = 0
      BY CalendarAssumption
    <3>6. SecondCount(reading) = Timestamp(reading) + reading.hours * SECONDS_PER_HOUR
                                   + (SECONDS_PER_HOUR - SECONDS_PER_MINUTE) + reading.seconds
      BY <3>1, <3>4 DEF SecondCount
    <3>7. SecondCount(q) = Timestamp(reading)
                             + (reading.hours * SECONDS_PER_HOUR + SECONDS_PER_HOUR) + 0 + 0
      BY <3>1, <3>3, <3>5, <1>5 DEF SecondCount
    <3> QED BY <3>1, <3>2, <3>6, <3>7, <1>5, Units, CalendarAssumption
  <2> QED BY <2>1, <2>2, <2>3
<1>7. LeapSecondEnds \in BOOLEAN
  BY DEF LeapSecondEnds
<1> QED BY <1>2, <1>4, <1>6, <1>7, EndedSecondIsTick

LEMMA LeapSecondTicks ==
  ASSUME ClockInv, LeapSecond
  PROVE  TickOf(reading, reading', LeapSecondEnds)
<1> DEFINE q == reading'
<1>1. \A f \in Fields : reading[f] \in Nat
  BY Types DEF ClockInv
<1>2. /\ q \in Readings
      /\ q.years = reading.years /\ q.days = reading.days /\ q.hours = reading.hours
      /\ q.minutes = reading.minutes /\ q.seconds = SECONDS_PER_MINUTE
      /\ \A f \in SubSecond : AtEnd(f) /\ q[f] = 0
  BY <1>1, CalendarAssumption
     DEF LeapSecond, Readings, Fields, SubDay, SubHour, SubMinute, SubSecond, SubMillisecond,
         SubMicrosecond
<1>3. Valid(q)
  <2>1. q.milliseconds = 0 /\ q.microseconds = 0 /\ q.nanoseconds = 0
    BY <1>2 DEF SubSecond, SubMillisecond, SubMicrosecond
  <2> QED BY <1>2, <2>1, CalendarAssumption DEF ClockInv, Valid, DateExists, YearOf
<1>4. SecondCount(q) = SecondCount(reading) + 1
  <2>1. Timestamp(q) = Timestamp(reading) /\ reading.seconds = SECONDS_PER_MINUTE - 1
    BY <1>2 DEF Timestamp, YearOf, LeapSecond
  <2> QED BY <1>2, <2>1, Types, CalendarAssumption DEF SecondCount, ClockInv
<1>5. LeapSecondEnds \in BOOLEAN /\ ~LeapSecondEnds
  BY <1>2 DEF LeapSecondEnds
<1>6. SecondCount(q) = SecondCount(reading) + (IF LeapSecondEnds THEN 0 ELSE 1)
  BY <1>4, <1>5
<1> QED BY <1>2, <1>3, <1>5, <1>6, EndedSecondIsTick

(* The steps that end a day, of which the next is the day after it in the  *)
(* year or the first of the next year.                                     *)
DayOf(r) == DaysBefore(YearOf(r)) + r.days - 1

LEMMA DayEnds ==
  ASSUME ClockInv, NEW q \in Readings,
         \A f \in SubDay : AtEnd(f) /\ q[f] = 0,
         DateExists(q), DayOf(q) = DayOf(reading) + 1,
         reading' = q
  PROVE  TickOf(reading, reading', LeapSecondEnds)
<1>1. /\ reading.hours = HOURS_PER_DAY - 1 /\ reading.minutes = MINUTES_PER_HOUR - 1
      /\ reading.seconds \in {SECONDS_PER_MINUTE - 1, SECONDS_PER_MINUTE}
  BY FullFields DEF SubDay, SubHour, SubMinute
<1>2. /\ q.hours = 0 /\ q.minutes = 0 /\ q.seconds = 0
      /\ q.milliseconds = 0 /\ q.microseconds = 0 /\ q.nanoseconds = 0
  BY DEF SubDay, SubHour, SubMinute, SubSecond, SubMillisecond, SubMicrosecond
<1>3. Valid(q)
  BY <1>2, CalendarAssumption DEF Valid
<1>4. /\ DaysBefore(YearOf(reading)) \in Int /\ reading.days \in Nat
      /\ DayOf(reading) \in Int
  BY Types, DaysAreIntegers DEF ClockInv, DayOf, Fields
<1>5. SecondCount(reading) = DayOf(reading) * SECONDS_PER_DAY
                               + (SECONDS_PER_DAY - SECONDS_PER_MINUTE) + reading.seconds
  <2>1. /\ (HOURS_PER_DAY - 1) * SECONDS_PER_HOUR = SECONDS_PER_DAY - SECONDS_PER_HOUR
        /\ (MINUTES_PER_HOUR - 1) * SECONDS_PER_MINUTE = SECONDS_PER_HOUR - SECONDS_PER_MINUTE
    <3>1. \A a \in Nat, b \in Nat : (a - 1) * b = a * b - b
      OBVIOUS
    <3> QED BY <3>1, Units, CalendarAssumption DEF SECONDS_PER_DAY, SECONDS_PER_HOUR
  <2>2. Timestamp(reading) = DayOf(reading) * SECONDS_PER_DAY
    BY DEF Timestamp, DayOf
  <2>3. SecondCount(reading) = DayOf(reading) * SECONDS_PER_DAY
                                 + (SECONDS_PER_DAY - SECONDS_PER_HOUR)
                                 + (SECONDS_PER_HOUR - SECONDS_PER_MINUTE) + reading.seconds
    BY <1>1, <2>1, <2>2 DEF SecondCount
  <2>4. DayOf(reading) * SECONDS_PER_DAY \in Int
    BY <1>4, Units, ProductIsInt
  <2> QED BY <1>1, <2>3, <2>4, Units, CalendarAssumption
<1>6. SecondCount(q) = DayOf(reading) * SECONDS_PER_DAY + SECONDS_PER_DAY
  <2>1. Timestamp(q) = (DayOf(reading) + 1) * SECONDS_PER_DAY
    BY DEF Timestamp, DayOf
  <2>2. 0 * SECONDS_PER_HOUR = 0 /\ 0 * SECONDS_PER_MINUTE = 0
    BY Units, CalendarAssumption
  <2>3. Timestamp(q) = DayOf(reading) * SECONDS_PER_DAY + SECONDS_PER_DAY
    BY <1>4, <2>1, OneMore, Units
  <2>4. Timestamp(q) \in Int
    BY Types
  <2> QED BY <1>2, <2>2, <2>3, <2>4 DEF SecondCount
<1>7. LeapSecondEnds <=> reading.seconds = SECONDS_PER_MINUTE
  BY <1>2, CalendarAssumption DEF LeapSecondEnds
<1>8. SecondCount(q) = SecondCount(reading) + (IF LeapSecondEnds THEN 0 ELSE 1)
  <2>1. DayOf(reading) * SECONDS_PER_DAY \in Int
    BY <1>4, Units, ProductIsInt
  <2> QED BY <1>1, <1>5, <1>6, <1>7, <2>1, Units, CalendarAssumption
<1>9. LeapSecondEnds \in BOOLEAN /\ \A f \in SubSecond : AtEnd(f) /\ q[f] = 0
  BY DEF LeapSecondEnds, SubDay, SubHour, SubMinute
<1> QED BY <1>3, <1>8, <1>9, EndedSecondIsTick

LEMMA DayCarries ==
  ASSUME ClockInv, Carry(SubDay, "days") \/ NewYear
  PROVE  TickOf(reading, reading', LeapSecondEnds)
<1> DEFINE q == reading'
<1>1. \A f \in Fields : reading[f] \in Nat
  BY Types DEF ClockInv
<1>2. /\ q \in Readings
      /\ \A f \in SubDay : AtEnd(f) /\ q[f] = 0
  BY <1>1 DEF Carry, NewYear, Readings, Fields, SubDay, SubHour, SubMinute, SubSecond,
              SubMillisecond, SubMicrosecond
<1>3. YearOf(reading) \in Nat
  BY Types DEF ClockInv
<1>4. DateExists(q) /\ DayOf(q) = DayOf(reading) + 1
  <2>1. CASE Carry(SubDay, "days")
    <3>1. q.years = reading.years /\ q.days = reading.days + 1 /\ ~AtEnd("days")
      BY <2>1 DEF Carry, Fields, SubDay, SubHour, SubMinute, SubSecond, SubMillisecond, SubMicrosecond
    <3>2. YearOf(q) = YearOf(reading)
      BY <3>1 DEF YearOf
    <3> QED BY <3>1, <3>2, <1>1, <1>3, FullFields, DaysAreIntegers DEF DateExists, DayOf, Fields
  <2>2. CASE NewYear
    <3>1. q.years = reading.years + 1 /\ q.days = 1 /\ AtEnd("days")
      BY <2>2 DEF NewYear, Fields
    <3>2. YearOf(q) = YearOf(reading) + 1
      BY <3>1, <1>1, CalendarAssumption DEF YearOf, Fields
    <3>3. reading.days = DaysIn(YearOf(reading))
      BY <3>1, FullFields
    <3>4. DaysBefore(YearOf(q)) = DaysBefore(YearOf(reading)) + DaysIn(YearOf(reading))
      BY <3>2, <1>3, YearsAdjoin
    <3>5. /\ DaysBefore(YearOf(reading)) \in Int /\ DaysIn(YearOf(reading)) \in Nat
          /\ DaysIn(YearOf(q)) \in Nat \ {0}
      BY <3>2, <1>3, DaysAreIntegers
    <3> QED BY <3>1, <3>3, <3>4, <3>5 DEF DateExists, DayOf
  <2> QED BY <2>1, <2>2
<1> QED BY <1>2, <1>4, DayEnds

-----------------------------------------------------------------------------
LEMMA FirstReadingIsValid == Init => ClockInv
<1> SUFFICES ASSUME Init PROVE ClockInv
  OBVIOUS
<1>1. /\ reading \in Readings /\ reading.days = 1
      /\ \A f \in Fields \ {"days"} : reading[f] = 0
  BY DEF Init, FirstReading, Readings, Fields
<1>2. DateExists(reading)
  BY <1>1, Types, DaysAreIntegers DEF DateExists
<1> QED BY <1>1, <1>2, CalendarAssumption DEF ClockInv, Valid, Fields

LEMMA StepIsTick ==
  ASSUME ClockInv, Next
  PROVE  TickOf(reading, reading', LeapSecondEnds)
<1>1. Tick
  BY DEF Next
<1> QED BY <1>1, SubSecondCarries, SecondCarries, DayCarries, LeapSecondTicks DEF Tick

(* The conversion refuses no reading of a running clock: the type of the   *)
(* clock, and the checks of gps_time.rs:96 on whatever it shows.           *)
THEOREM ClockInvariant == Spec => []ClockInv
<1>1. ClockInv /\ [Next]_vars => ClockInv'
  <2>1. ASSUME ClockInv, Next PROVE ClockInv'
    <3>1. reading' \in Readings /\ Valid(reading')
      BY <2>1, StepIsTick DEF TickOf
    <3> QED BY <3>1 DEF ClockInv, Valid, DateExists, YearOf
  <2>2. ASSUME ClockInv, UNCHANGED vars PROVE ClockInv'
    BY <2>2 DEF ClockInv, Valid, DateExists, YearOf, vars
  <2> QED BY <2>1, <2>2
<1> QED BY <1>1, FirstReadingIsValid, PTL DEF Spec

(* The converted time counts every nanosecond of a clock once, over the    *)
(* ends of seconds, days and years, but for the second that a leap second  *)
(* counts twice: whatever the units and the calendar.                      *)
THEOREM TicksAreExact == Spec => EveryTickIsOneNanosecond
<1>1. ClockInv /\ [Next]_vars =>
        [NanosecondsSinceEpoch(reading') =
           NanosecondsSinceEpoch(reading) + 1
             - (IF LeapSecondEnds THEN NANOS_PER_SEC ELSE 0)]_reading
  <2>1. ASSUME ClockInv, Next
        PROVE  NanosecondsSinceEpoch(reading') =
                 NanosecondsSinceEpoch(reading) + 1
                   - (IF LeapSecondEnds THEN NANOS_PER_SEC ELSE 0)
    BY <2>1, StepIsTick DEF TickOf, NanosecondsSinceEpoch, ClockInv
  <2> QED BY <2>1 DEF vars
<1> QED BY <1>1, ClockInvariant, PTL DEF Spec, EveryTickIsOneNanosecond

(* With the calendar of the code, what nanoseconds_since_epoch returns is  *)
(* kept by the casts to i64 in data_processing.rs:205 and 234: the last    *)
(* second of 2255, the last year a header can hold, is within an i64.      *)
THEOREM TimesFitI64 ==
  ASSUME HOURS_PER_DAY = 24, MINUTES_PER_HOUR = 60, SECONDS_PER_MINUTE = 60,
         THOUSAND = 1000, DAYS_PER_YEAR = 365, EPOCH_YEAR = 1970, BASE_YEAR = 2000,
         NEW r \in Readings, r.years < 256, Valid(r)
  PROVE  0 <= NanosecondsSinceEpoch(r) /\ NanosecondsSinceEpoch(r) <= 9223372036854775807
<1>1. /\ NANOS_PER_MS = 1000000 /\ NANOS_PER_SEC = 1000000000
      /\ SECONDS_PER_HOUR = 3600 /\ SECONDS_PER_DAY = 86400
  BY SMT DEF NANOS_PER_MS, NANOS_PER_SEC, SECONDS_PER_HOUR, SECONDS_PER_DAY
<1>2. \A f \in Fields : r[f] \in Nat
  BY Types
<1>3. YearOf(r) \in 2000..2255
  BY SMT, <1>2 DEF YearOf, Fields
<1>4. DaysBefore(YearOf(r)) \in Int /\ 0 <= DaysBefore(YearOf(r)) /\ DaysBefore(YearOf(r)) <= 104500
  <2>1. LeapYearsBefore(EPOCH_YEAR) = 477
    BY SMT DEF LeapYearsBefore
  <2>2. LeapYearsBefore(YearOf(r)) \in Int /\ 477 <= LeapYearsBefore(YearOf(r)) /\ LeapYearsBefore(YearOf(r)) <= 577
    BY SMT, <1>3 DEF LeapYearsBefore
  <2>3. DaysBefore(YearOf(r)) = 365 * (YearOf(r) - 1970) + LeapYearsBefore(YearOf(r)) - 477
    BY SMT, <2>1 DEF DaysBefore
  <2> QED BY SMT, <2>2, <2>3, <1>3
<1>5. r.days \in Int /\ 1 <= r.days /\ r.days <= 366
  BY SMT, <1>2, <1>3 DEF Valid, DateExists, DaysIn, Fields
<1>6. Timestamp(r) \in Int /\ 0 <= Timestamp(r) /\ Timestamp(r) <= 9060422400
  <2>1. Timestamp(r) = (DaysBefore(YearOf(r)) + r.days - 1) * 86400
    BY SMT, <1>1 DEF Timestamp
  <2> QED BY SMT, <2>1, <1>4, <1>5
<1>7. SecondCount(r) \in Int /\ 0 <= SecondCount(r) /\ SecondCount(r) <= 9060509000
  <2>1. SecondCount(r) = Timestamp(r) + r.hours * 3600 + r.minutes * 60 + r.seconds
    BY SMT, <1>1 DEF SecondCount
  <2>2. /\ r.hours \in Nat /\ r.minutes \in Nat /\ r.seconds \in Nat
        /\ r.hours <= 23 /\ r.minutes <= 59 /\ r.seconds <= 60
    BY SMT, <1>2 DEF Valid, Fields
  <2> QED BY SMT, <2>1, <2>2, <1>6
<1>8. OfSecond(r) \in Int /\ 0 <= OfSecond(r) /\ OfSecond(r) <= 999999999
  <2>1. OfSecond(r) = r.milliseconds * 1000000 + r.microseconds * 1000 + r.nanoseconds
    BY SMT, <1>1 DEF OfSecond
  <2>2. /\ r.milliseconds \in Nat /\ r.microseconds \in Nat /\ r.nanoseconds \in Nat
        /\ r.milliseconds <= 999 /\ r.microseconds <= 999 /\ r.nanoseconds <= 999
    BY SMT, <1>2 DEF Valid, Fields
  <2> QED BY SMT, <2>1, <2>2
<1>9. Nanoseconds(r) = SecondCount(r) * 1000000000 + OfSecond(r)
  BY SMT, <1>1, SplitAtSecond
<1> QED BY SMT, <1>7, <1>8, <1>9 DEF NanosecondsSinceEpoch

-----------------------------------------------------------------------------
(* Packing and unpacking. *)
Fitting(r) == \A f \in Fields : r[f] < Size[f]

LEMMA UnitsAndSizes ==
  /\ \A f \in Fields : Unit[f] \in Nat \ {0} /\ Size[f] \in Nat \ {0}
  /\ Unit["nanoseconds"] = 1
  /\ Unit["microseconds"] = Unit["nanoseconds"] * Size["nanoseconds"]
  /\ Unit["milliseconds"] = Unit["microseconds"] * Size["microseconds"]
  /\ Unit["seconds"] = Unit["milliseconds"] * Size["milliseconds"]
  /\ Unit["minutes"] = Unit["seconds"] * Size["seconds"]
  /\ Unit["hours"] = Unit["minutes"] * Size["minutes"]
  /\ Unit["days"] = Unit["hours"] * Size["hours"]
  /\ Unit["years"] = Unit["days"] * Size["days"]
<1>1. \A f \in Fields : Shift[f] \in Nat /\ Width[f] \in Nat
  BY CalendarAssumption
<1>2. \A f \in Fields : Unit[f] = PowerOf2[Shift[f]] /\ Size[f] = PowerOf2[Width[f]]
  BY DEF Unit, Size
<1>3. \A f \in Fields : Unit[f] \in Nat \ {0} /\ Size[f] \in Nat \ {0}
  BY <1>1, <1>2, PowerType
<1>4. ASSUME NEW f \in Fields, NEW g \in Fields, Shift[g] = Shift[f] + Width[f]
      PROVE  Unit[g] = Unit[f] * Size[f]
  <2>1. PowerOf2[Shift[f] + Width[f]] = PowerOf2[Shift[f]] * PowerOf2[Width[f]]
    <3> DEFINE m == Shift[f]
               n == Width[f]
    <3>1. m \in Nat /\ n \in Nat
      BY <1>1
    <3> HIDE DEF m, n
    <3>2. PowerOf2[m + n] = PowerOf2[m] * PowerOf2[n]
      BY <3>1, PowerSum
    <3> QED BY <3>2 DEF m, n
  <2> QED BY <1>2, <1>4, <2>1, Zenon
<1>5. Unit["nanoseconds"] = 1
  BY <1>2, PowerStep, LayoutAssumption DEF LayoutFits, Fields
<1> QED BY <1>3, <1>4, <1>5, LayoutAssumption DEF LayoutFits, Fields

(* One field above those below it. *)
LEMMA FieldBelow ==
  ASSUME NEW u \in Nat \ {0}, NEW s \in Nat \ {0}, NEW low \in 0..(u - 1), NEW v \in 0..(s - 1)
  PROVE  low + v * u \in 0..(u * s - 1)
<1>1. v * u <= (s - 1) * u
  BY ProductGrows
<1>2. (s - 1) * u = u * s - u /\ u * s \in Nat /\ v * u \in Nat
  OBVIOUS
<1> QED BY <1>1, <1>2

LEMMA HighStep ==
  ASSUME NEW u \in Nat \ {0}, NEW s \in Nat \ {0}, NEW v \in Nat, NEW high \in Nat
  PROVE  /\ (v + s * high) * u = v * u + high * (u * s)
         /\ v + s * high \in Nat
<1>1. s * high \in Nat
  OBVIOUS
<1>2. (v + s * high) * u = v * u + (s * high) * u
  <2> DEFINE h == s * high
  <2> HIDE DEF h
  <2> QED BY <1>1, Distribute DEF h
<1>3. (s * high) * u = high * (u * s)
  BY Associative
<1> QED BY <1>1, <1>2, <1>3

(* The same of a field f and the field g next above it. *)
Below(f, g) == f \in Fields /\ g \in Fields /\ Unit[g] = Unit[f] * Size[f]

LEMMA FieldOf ==
  ASSUME NEW r \in Readings, Fitting(r), NEW f, NEW g, Below(f, g),
         NEW low \in 0..(Unit[f] - 1)
  PROVE  /\ low + r[f] * Unit[f] \in 0..(Unit[g] - 1)
         /\ \A high \in Nat : \A x :
              x = low + r[f] * Unit[f] + high * Unit[g] => (x \div Unit[f]) % Size[f] = r[f]
<1> DEFINE u == Unit[f]
           s == Size[f]
           v == r[f]
<1>1. u \in Nat \ {0} /\ s \in Nat \ {0}
  BY UnitsAndSizes DEF Below
<1>2. v \in 0..(s - 1)
  BY <1>1 DEF Fitting, Readings, Below
<1>3. Unit[g] = u * s
  BY DEF Below
<1> HIDE DEF u, s, v
<1>4. low \in 0..(u - 1)
  BY DEF u
<1>5. low + v * u \in 0..(u * s - 1)
  BY <1>1, <1>2, <1>4, FieldBelow
<1>6. ASSUME NEW high \in Nat, NEW x, x = low + v * u + high * (u * s)
      PROVE  (x \div u) % s = v
  <2> DEFINE h == high * s
  <2>1. h \in Int /\ v \in Int /\ u \in Int
    BY <1>1, <1>2
  <2>2. high * (u * s) = h * u
    BY <1>1, Associative
  <2>3. x = (h + v) * u + low
    <3> HIDE DEF h
    <3>1. (h + v) * u = h * u + v * u
      BY <2>1, Distribute
    <3>2. h * u \in Int /\ v * u \in Int
      BY <2>1, ProductIsInt
    <3> QED BY <1>1, <1>4, <1>6, <2>2, <3>1, <3>2
  <2>4. x \div u = h + v
    <3> HIDE DEF h
    <3> QED BY <1>1, <1>4, <2>1, <2>3, DivModDigits
  <2>5. (h + v) % s = v
    BY <1>1, <1>2, DivModDigits
  <2> QED BY <2>4, <2>5
<1> QED BY <1>3, <1>5, <1>6 DEF u, s, v

LEMMA HighOf ==
  ASSUME NEW r \in Readings, NEW f, NEW g, Below(f, g), NEW high \in Nat
  PROVE  /\ r[f] + Size[f] * high \in Nat
         /\ (r[f] + Size[f] * high) * Unit[f] = r[f] * Unit[f] + high * Unit[g]
<1> DEFINE u == Unit[f]
           s == Size[f]
           v == r[f]
<1>1. u \in Nat \ {0} /\ s \in Nat \ {0}
  BY UnitsAndSizes DEF Below
<1>2. v \in Nat
  BY DEF Readings, Below
<1>3. Unit[g] = u * s
  BY DEF Below
<1> HIDE DEF u, s, v
<1>4. v + s * high \in Nat /\ (v + s * high) * u = v * u + high * (u * s)
  BY <1>1, <1>2, HighStep
<1> QED BY <1>3, <1>4 DEF u, s, v

(* A reading whose fields fit is read as it was packed. *)
LEMMA PackIsUnpacked ==
  ASSUME NEW r \in Readings, Fitting(r)
  PROVE  Unpack(Pack(r)) = r /\ Pack(r) \in Nat
<1> DEFINE part(f) == r[f] * Unit[f]
           l0 == 0
           l1 == l0 + part("nanoseconds")
           l2 == l1 + part("microseconds")
           l3 == l2 + part("milliseconds")
           l4 == l3 + part("seconds")
           l5 == l4 + part("minutes")
           l6 == l5 + part("hours")
           l7 == l6 + part("days")
           h7 == r["years"]
           h6 == r["days"] + Size["days"] * h7
           h5 == r["hours"] + Size["hours"] * h6
           h4 == r["minutes"] + Size["minutes"] * h5
           h3 == r["seconds"] + Size["seconds"] * h4
           h2 == r["milliseconds"] + Size["milliseconds"] * h3
           h1 == r["microseconds"] + Size["microseconds"] * h2
           x == Pack(r)
<1>1. /\ Below("nanoseconds", "microseconds")
      /\ Below("microseconds", "milliseconds")
      /\ Below("milliseconds", "seconds")
      /\ Below("seconds", "minutes")
      /\ Below("minutes", "hours")
      /\ Below("hours", "days")
      /\ Below("days", "years")
  BY UnitsAndSizes DEF Below, Fields
<1>2. \A f \in Fields : part(f) \in Nat
  <2>1. \A a \in Nat, b \in Nat : a * b \in Nat
    OBVIOUS
  <2>2. \A f \in Fields : r[f] \in Nat /\ Unit[f] \in Nat
    BY UnitsAndSizes DEF Readings
  <2> QED BY <2>1, <2>2
<1>3. /\ part("nanoseconds") \in Nat /\ part("microseconds") \in Nat
      /\ part("milliseconds") \in Nat /\ part("seconds") \in Nat
      /\ part("minutes") \in Nat /\ part("hours") \in Nat
      /\ part("days") \in Nat /\ part("years") \in Nat
  <2> HIDE DEF part
  <2> QED BY <1>2 DEF Fields
<1>4. x = part("years") + part("days") + part("hours") + part("minutes") + part("seconds")
            + part("milliseconds") + part("microseconds") + part("nanoseconds")
  BY DEF Pack
<1>5. x \in Nat
  <2> HIDE DEF part, x
  <2> QED BY <1>3, <1>4
<1> HIDE DEF x
(* What is below a field is less than its unit. *)
<1>6. l0 \in 0..(Unit["nanoseconds"] - 1)
  BY UnitsAndSizes
<1>7. l1 \in 0..(Unit["microseconds"] - 1)
  <2> HIDE DEF l0
  <2> QED BY <1>1, <1>6, FieldOf
<1>8. l2 \in 0..(Unit["milliseconds"] - 1)
  <2> HIDE DEF l1
  <2> QED BY <1>1, <1>7, FieldOf
<1>9. l3 \in 0..(Unit["seconds"] - 1)
  <2> HIDE DEF l2
  <2> QED BY <1>1, <1>8, FieldOf
<1>10. l4 \in 0..(Unit["minutes"] - 1)
  <2> HIDE DEF l3
  <2> QED BY <1>1, <1>9, FieldOf
<1>11. l5 \in 0..(Unit["hours"] - 1)
  <2> HIDE DEF l4
  <2> QED BY <1>1, <1>10, FieldOf
<1>12. l6 \in 0..(Unit["days"] - 1)
  <2> HIDE DEF l5
  <2> QED BY <1>1, <1>11, FieldOf
<1>13. l7 \in 0..(Unit["years"] - 1)
  <2> HIDE DEF l6
  <2> QED BY <1>1, <1>12, FieldOf
(* What is above a field is a multiple of the unit above it. *)
<1>14. h7 \in Nat /\ h7 * Unit["years"] = part("years")
  BY DEF Readings, Fields
<1>15. h6 \in Nat /\ h6 * Unit["days"] = part("days") + h7 * Unit["years"]
  <2> HIDE DEF h7
  <2> QED BY <1>1, <1>14, HighOf
<1>16. h5 \in Nat /\ h5 * Unit["hours"] = part("hours") + h6 * Unit["days"]
  <2> HIDE DEF h6
  <2> QED BY <1>1, <1>15, HighOf
<1>17. h4 \in Nat /\ h4 * Unit["minutes"] = part("minutes") + h5 * Unit["hours"]
  <2> HIDE DEF h5
  <2> QED BY <1>1, <1>16, HighOf
<1>18. h3 \in Nat /\ h3 * Unit["seconds"] = part("seconds") + h4 * Unit["minutes"]
  <2> HIDE DEF h4
  <2> QED BY <1>1, <1>17, HighOf
<1>19. h2 \in Nat /\ h2 * Unit["milliseconds"] = part("milliseconds") + h3 * Unit["seconds"]
  <2> HIDE DEF h3
  <2> QED BY <1>1, <1>18, HighOf
<1>20. h1 \in Nat /\ h1 * Unit["microseconds"] = part("microseconds") + h2 * Unit["milliseconds"]
  <2> HIDE DEF h2
  <2> QED BY <1>1, <1>19, HighOf
<1> HIDE DEF h1, h2, h3, h4, h5, h6, h7
<1>21. x = l0 + part("nanoseconds") + h1 * Unit["microseconds"]
  <2> HIDE DEF part
  <2> QED BY <1>3, <1>4, <1>14, <1>15, <1>16, <1>17, <1>18, <1>19, <1>20
<1>22. x = l1 + part("microseconds") + h2 * Unit["milliseconds"]
  <2> HIDE DEF part
  <2> QED BY <1>3, <1>4, <1>14, <1>15, <1>16, <1>17, <1>18, <1>19
<1>23. x = l2 + part("milliseconds") + h3 * Unit["seconds"]
  <2> HIDE DEF part
  <2> QED BY <1>3, <1>4, <1>14, <1>15, <1>16, <1>17, <1>18
<1>24. x = l3 + part("seconds") + h4 * Unit["minutes"]
  <2> HIDE DEF part
  <2> QED BY <1>3, <1>4, <1>14, <1>15, <1>16, <1>17
<1>25. x = l4 + part("minutes") + h5 * Unit["hours"]
  <2> HIDE DEF part
  <2> QED BY <1>3, <1>4, <1>14, <1>15, <1>16
<1>26. x = l5 + part("hours") + h6 * Unit["days"]
  <2> HIDE DEF part
  <2> QED BY <1>3, <1>4, <1>14, <1>15
<1>27. x = l6 + part("days") + h7 * Unit["years"]
  <2> HIDE DEF part
  <2> QED BY <1>3, <1>4, <1>14
<1>28. x = l7 + part("years")
  <2> HIDE DEF part
  <2> QED BY <1>3, <1>4
<1> HIDE DEF l0, l1, l2, l3, l4, l5, l6, l7
<1>29. (x \div Unit["nanoseconds"]) % Size["nanoseconds"] = r["nanoseconds"]
  BY <1>1, <1>6, <1>20, <1>21, FieldOf
<1>30. (x \div Unit["microseconds"]) % Size["microseconds"] = r["microseconds"]
  BY <1>1, <1>7, <1>19, <1>22, FieldOf
<1>31. (x \div Unit["milliseconds"]) % Size["milliseconds"] = r["milliseconds"]
  BY <1>1, <1>8, <1>18, <1>23, FieldOf
<1>32. (x \div Unit["seconds"]) % Size["seconds"] = r["seconds"]
  BY <1>1, <1>9, <1>17, <1>24, FieldOf
<1>33. (x \div Unit["minutes"]) % Size["minutes"] = r["minutes"]
  BY <1>1, <1>10, <1>16, <1>25, FieldOf
<1>34. (x \div Unit["hours"]) % Size["hours"] = r["hours"]
  BY <1>1, <1>11, <1>15, <1>26, FieldOf
<1>35. (x \div Unit["days"]) % Size["days"] = r["days"]
  BY <1>1, <1>12, <1>14, <1>27, FieldOf
<1>36. (x \div Unit["years"]) % Size["years"] = r["years"]
  <2> DEFINE u == Unit["years"]
             s == Size["years"]
             v == r["years"]
  <2>1. u \in Nat \ {0} /\ s \in Nat \ {0} /\ v \in Nat /\ v < s
    BY UnitsAndSizes DEF Fields, Readings, Fitting
  <2>2. x = l7 + v * u /\ l7 \in 0..(u - 1)
    BY <1>13, <1>28
  <2> HIDE DEF u, s, v
  <2>3. x = v * u + l7
    <3>1. v * u \in Int
      BY <2>1, ProductIsInt
    <3> QED BY <2>1, <2>2, <3>1
  <2>4. x \div u = v
    BY <2>1, <2>2, <2>3, DivModDigits
  <2>5. v % s = v
    BY <2>1
  <2> QED BY <2>4, <2>5 DEF u, s, v
<1>37. \A f \in Fields : (x \div Unit[f]) % Size[f] = r[f]
  BY <1>29, <1>30, <1>31, <1>32, <1>33, <1>34, <1>35, <1>36 DEF Fields
<1>38. Unpack(x) = [f \in Fields |-> r[f]]
  BY <1>37 DEF Unpack
<1>39. r = [f \in Fields |-> r[f]]
  BY DEF Readings
<1> QED BY <1>5, <1>38, <1>39 DEF x

(* What is unpacked is a reading whose fields fit, whatever the words. *)
LEMMA UnpackType ==
  ASSUME NEW c \in Nat
  PROVE  Unpack(c) \in Readings /\ Fitting(Unpack(c))
<1>1. ASSUME NEW f \in Fields
      PROVE  (c \div Unit[f]) % Size[f] \in 0..(Size[f] - 1) /\ Size[f] \in Nat
  <2>1. Unit[f] \in Nat \ {0} /\ Size[f] \in Nat \ {0}
    BY UnitsAndSizes
  <2>2. c \div Unit[f] \in Nat
    BY <2>1, DigitsOf
  <2> QED BY <2>1, <2>2, DigitsOf
<1>2. \A f \in Fields : Unpack(c)[f] = (c \div Unit[f]) % Size[f]
  BY DEF Unpack
<1>3. \A f \in Fields : Unpack(c)[f] \in Nat /\ Unpack(c)[f] < Size[f]
  BY <1>1, <1>2
<1> QED BY <1>3 DEF Readings, Fitting, Unpack

-----------------------------------------------------------------------------
(* The clock, and the words of its headers. *)
HeaderInv ==
  /\ ClockInv
  /\ reading.years < Size.years
  /\ content \in Nat
  /\ locked => content = Pack(reading)

(* A header has room for every reading a clock may show. *)
LEMMA ValidReadingsFit ==
  ASSUME NEW r \in Readings, Valid(r), r.years < Size.years
  PROVE  Fitting(r)
<1>1. \A f \in Fields : r[f] \in Nat /\ Size[f] \in Nat
  BY UnitsAndSizes DEF Readings
<1>2. /\ r.hours < HOURS_PER_DAY /\ r.minutes < MINUTES_PER_HOUR
      /\ r.seconds <= SECONDS_PER_MINUTE /\ r.milliseconds < THOUSAND
      /\ r.microseconds < THOUSAND /\ r.nanoseconds < THOUSAND
      /\ r.days <= DAYS_PER_YEAR + 1
  <2>1. r.days \in 1..DaysIn(YearOf(r)) /\ r.days \in Nat
    BY <1>1 DEF Valid, DateExists, Fields
  <2>2. DaysIn(YearOf(r)) \in {DAYS_PER_YEAR, DAYS_PER_YEAR + 1}
    BY CalendarAssumption DEF DaysIn
  <2> QED BY <2>1, <2>2, CalendarAssumption DEF Valid
<1>3. /\ THOUSAND <= Size["nanoseconds"] /\ THOUSAND <= Size["microseconds"]
      /\ THOUSAND <= Size["milliseconds"] /\ SECONDS_PER_MINUTE < Size["seconds"]
      /\ MINUTES_PER_HOUR <= Size["minutes"] /\ HOURS_PER_DAY <= Size["hours"]
      /\ DAYS_PER_YEAR + 1 < Size["days"]
  BY LayoutAssumption DEF LayoutFits
<1> QED BY <1>1, <1>2, <1>3, CalendarAssumption DEF Fitting, Fields

LEMMA InitHeader == Init => HeaderInv
<1> SUFFICES ASSUME Init PROVE HeaderInv
  OBVIOUS
<1>1. ClockInv
  BY FirstReadingIsValid
<1>2. reading.years < Size.years
  BY UnitsAndSizes DEF Init, FirstReading, Fields
<1>3. Pack(reading) \in Nat
  BY <1>1, <1>2, ValidReadingsFit, PackIsUnpacked DEF ClockInv
<1>4. CASE locked
  BY <1>1, <1>2, <1>3, <1>4 DEF Init, HeaderInv
<1>5. CASE ~locked
  BY <1>1, <1>2, <1>5 DEF Init, HeaderInv
<1> QED BY <1>4, <1>5

LEMMA StepHeader == HeaderInv /\ [Next]_vars => HeaderInv'
<1>1. ASSUME HeaderInv, Next PROVE HeaderInv'
  <2>1. reading' \in Readings /\ Valid(reading')
    BY <1>1, StepIsTick DEF TickOf, HeaderInv
  <2>2. reading'.years < Size.years
    <3>1. "years" \in Fields /\ reading.years \in Nat
      BY <1>1 DEF HeaderInv, ClockInv, Readings, Fields
    <3>2. CASE NewYear
      BY <3>1, <3>2 DEF NewYear
    <3>3. CASE ~NewYear
      BY <1>1, <3>1, <3>3
         DEF HeaderInv, Next, Tick, Carry, LeapSecond, SubDay, SubHour, SubMinute, SubSecond,
             SubMillisecond, SubMicrosecond
    <3> QED BY <3>2, <3>3
  <2>3. Pack(reading') \in Nat
    BY <2>1, <2>2, ValidReadingsFit, PackIsUnpacked
  <2>4. content' = Pack(reading')
    BY <1>1 DEF Next
  <2>5. ClockInv'
    BY <2>1 DEF ClockInv, Valid, DateExists, YearOf
  <2> QED BY <2>2, <2>3, <2>4, <2>5 DEF HeaderInv, Pack, Size
<1>2. ASSUME HeaderInv, UNCHANGED vars PROVE HeaderInv'
  BY <1>2 DEF HeaderInv, ClockInv, Valid, DateExists, YearOf, vars, Pack, Size
<1> QED BY <1>1, <1>2

THEOREM HeaderInvariant == Spec => []HeaderInv
  BY InitHeader, StepHeader, PTL DEF Spec

(* A header of a running clock is unpacked to what the clock showed and is *)
(* accepted, whatever the widths of the fields, the units and the calendar *)
(* -- as long as each field has room for what a clock shows.               *)
THEOREM StreamedTimesAreRead == Spec => []StreamedTimeIsRead
<1>1. HeaderInv => StreamedTimeIsRead
  BY ValidReadingsFit, PackIsUnpacked DEF HeaderInv, ClockInv, StreamedTimeIsRead
<1> QED BY <1>1, HeaderInvariant, PTL

-----------------------------------------------------------------------------
(* A count in four units, three of them within the next larger one. *)
Mixed(a, d3, d2, d1, b3, b2, b1) ==
  a * (b3 * (b2 * b1)) + d3 * (b2 * b1) + d2 * b1 + d1

LEMMA MixedDigits ==
  ASSUME NEW b1 \in Nat \ {0}, NEW b2 \in Nat \ {0}, NEW b3 \in Nat \ {0},
         NEW a \in Int, NEW d3 \in 0..(b3 - 1), NEW d2 \in 0..(b2 - 1), NEW d1 \in 0..(b1 - 1),
         NEW x, x = Mixed(a, d3, d2, d1, b3, b2, b1)
  PROVE  /\ x % b1 = d1
         /\ (x \div b1) % b2 = d2
         /\ (x \div (b2 * b1)) % b3 = d3
         /\ x \div (b3 * (b2 * b1)) = a
<1> DEFINE c == b2 * b1
           y3 == a * b3 + d3
           y2 == y3 * b2 + d2
           low2 == d1 + d2 * b1
           low3 == low2 + d3 * c
<1>1. c \in Nat \ {0} /\ y3 \in Int /\ y2 \in Int
  OBVIOUS
<1>2. low2 \in 0..(c - 1)
  <2>1. low2 \in 0..(b1 * b2 - 1)
    BY FieldBelow
  <2> QED BY <2>1, Associative
<1>3. y3 * c = (y3 * b2) * b1 /\ y3 * b2 \in Int
  <2> HIDE DEF y3
  <2> QED BY <1>1, Associative
<1>4. y3 * c = a * (b3 * c) + d3 * c
  <2>1. y3 * c = (a * b3) * c + d3 * c
    <3> DEFINE p == a * b3
    <3>1. p \in Int /\ d3 \in Int
      OBVIOUS
    <3> HIDE DEF p, c
    <3>2. (p + d3) * c = p * c + d3 * c
      BY <1>1, <3>1, Distribute
    <3> QED BY <3>2 DEF p
  <2>2. (a * b3) * c = a * (b3 * c)
    <3> HIDE DEF c
    <3> QED BY <1>1, Associative
  <2> HIDE DEF c, y3
  <2> QED BY <2>1, <2>2
<1>5. y2 * b1 = (y3 * b2) * b1 + d2 * b1
  <2> DEFINE p == y3 * b2
  <2> HIDE DEF p, y3
  <2>1. (p + d2) * b1 = p * b1 + d2 * b1
    BY <1>3, Distribute DEF p
  <2> QED BY <2>1 DEF p
<1>6. /\ a * (b3 * c) \in Int /\ d3 * c \in Int /\ d2 * b1 \in Int /\ b3 * c \in Nat \ {0}
  <2> HIDE DEF c
  <2>1. b3 * c \in Nat \ {0}
    BY <1>1, Products
  <2> DEFINE p == b3 * c
  <2> HIDE DEF p
  <2>2. a * p \in Int
    BY <2>1, ProductIsInt DEF p
  <2>3. d3 * c \in Int /\ d2 * b1 \in Int
    BY <1>1, ProductIsInt
  <2> QED BY <2>1, <2>2, <2>3 DEF p
<1>7. x = a * (b3 * c) + d3 * c + d2 * b1 + d1
  BY DEF Mixed
<1>8. low3 \in 0..(b3 * c - 1)
  <2> HIDE DEF c, low2
  <2>1. low3 \in 0..(c * b3 - 1)
    BY <1>1, <1>2, FieldBelow
  <2>2. c * b3 = b3 * c
    BY <1>1, Associative
  <2> QED BY <2>1, <2>2
<1>9. x = y2 * b1 + d1
  <2> HIDE DEF c, y2, y3
  <2> QED BY <1>3, <1>4, <1>5, <1>6, <1>7
<1>10. x = y3 * c + low2
  <2> DEFINE p == a * (b3 * c) + d3 * c
             q == d2 * b1
  <2>1. x = p + q + d1 /\ low2 = d1 + q /\ y3 * c = p
    BY <1>4, <1>7
  <2>2. p \in Int /\ q \in Int /\ d1 \in Int
    BY <1>6
  <2> HIDE DEF c, y3, low2, p, q
  <2> QED BY <2>1, <2>2
<1>11. x = a * (b3 * c) + low3
  <2> HIDE DEF c
  <2> QED BY <1>6, <1>7
<1> HIDE DEF c, low2, low3, y2
<1>12. x % b1 = d1 /\ x \div b1 = y2
  BY <1>1, <1>9, DivModDigits
<1>13. y2 % b2 = d2
  <2> HIDE DEF y3
  <2> QED BY <1>1, DivModDigits DEF y2
<1>14. x \div c = y3
  <2> HIDE DEF y3
  <2> QED BY <1>1, <1>2, <1>10, DivModDigits
<1>15. y3 % b3 = d3
  BY DivModDigits
<1>16. x \div (b3 * c) = a
  <2> DEFINE p == b3 * c
  <2> HIDE DEF p
  <2>1. p \in Nat \ {0} /\ low3 \in 0..(p - 1) /\ x = a * p + low3
    BY <1>6, <1>8, <1>11 DEF p
  <2>2. x \div p = a
    BY <2>1, DivModDigits
  <2> QED BY <2>2 DEF p
<1> QED BY <1>12, <1>13, <1>14, <1>15, <1>16 DEF c

-----------------------------------------------------------------------------
(* The reading at a time, by division. *)
LEMMA TimeOfDay ==
  ASSUME NEW r \in Readings, Valid(r), r.seconds < SECONDS_PER_MINUTE
  PROVE  /\ SecondCount(r) \div SECONDS_PER_DAY = DayOf(r)
         /\ (SecondCount(r) \div SECONDS_PER_HOUR) % HOURS_PER_DAY = r.hours
         /\ (SecondCount(r) \div SECONDS_PER_MINUTE) % MINUTES_PER_HOUR = r.minutes
         /\ SecondCount(r) % SECONDS_PER_MINUTE = r.seconds
<1> DEFINE b1 == SECONDS_PER_MINUTE
           b2 == MINUTES_PER_HOUR
           b3 == HOURS_PER_DAY
           a == DayOf(r)
           x == SecondCount(r)
<1>1. \A f \in Fields : r[f] \in Nat
  BY DEF Readings
<1>2. b1 \in Nat \ {0} /\ b2 \in Nat \ {0} /\ b3 \in Nat \ {0}
  BY CalendarAssumption
<1>3. r.hours \in 0..(b3 - 1) /\ r.minutes \in 0..(b2 - 1) /\ r.seconds \in 0..(b1 - 1)
  BY <1>1, <1>2 DEF Valid, Fields
<1>4. a \in Int
  BY <1>1, Types, DaysAreIntegers DEF DayOf, Fields
<1>5. SECONDS_PER_HOUR = b2 * b1 /\ SECONDS_PER_DAY = b3 * (b2 * b1)
  BY DEF SECONDS_PER_DAY, SECONDS_PER_HOUR
<1>6. x = Mixed(a, r.hours, r.minutes, r.seconds, b3, b2, b1)
  BY DEF Mixed, SecondCount, Timestamp, DayOf, SECONDS_PER_DAY, SECONDS_PER_HOUR
<1> DEFINE d1 == r.seconds
           d2 == r.minutes
           d3 == r.hours
<1> HIDE DEF a, b1, b2, b3, d1, d2, d3, x
<1>7. /\ x % b1 = d1
      /\ (x \div b1) % b2 = d2
      /\ (x \div (b2 * b1)) % b3 = d3
      /\ x \div (b3 * (b2 * b1)) = a
  <2>1. d1 \in 0..(b1 - 1) /\ d2 \in 0..(b2 - 1) /\ d3 \in 0..(b3 - 1)
    BY <1>3 DEF d1, d2, d3
  <2>2. x = Mixed(a, d3, d2, d1, b3, b2, b1)
    BY <1>6 DEF d1, d2, d3
  <2> QED BY <1>2, <1>4, <2>1, <2>2, MixedDigits
<1> QED BY <1>5, <1>7 DEF a, b1, b2, b3, d1, d2, d3, x

LEMMA FractionOfSecond ==
  ASSUME NEW r \in Readings, Valid(r)
  PROVE  /\ Nanoseconds(r) \div NANOS_PER_SEC = SecondCount(r)
         /\ (Nanoseconds(r) \div NANOS_PER_MS) % THOUSAND = r.milliseconds
         /\ (Nanoseconds(r) \div THOUSAND) % THOUSAND = r.microseconds
         /\ Nanoseconds(r) % THOUSAND = r.nanoseconds
<1> DEFINE b == THOUSAND
           a == SecondCount(r)
           x == Nanoseconds(r)
<1>1. \A f \in Fields : r[f] \in Nat
  BY DEF Readings
<1>2. b \in Nat \ {0}
  BY CalendarAssumption
<1>3. /\ r.milliseconds \in 0..(b - 1) /\ r.microseconds \in 0..(b - 1)
      /\ r.nanoseconds \in 0..(b - 1)
  BY <1>1, <1>2 DEF Valid, Fields
<1>4. a \in Int
  BY Types
<1>5. NANOS_PER_MS = b * b /\ NANOS_PER_SEC = b * (b * b)
  BY DEF NANOS_PER_SEC, NANOS_PER_MS
<1>6. x = Mixed(a, r.milliseconds, r.microseconds, r.nanoseconds, b, b, b)
  <2>1. x = a * NANOS_PER_SEC + OfSecond(r)
    BY SplitAtSecond
  <2>2. OfSecond(r) = r.milliseconds * (b * b) + r.microseconds * b + r.nanoseconds
    BY <1>5 DEF OfSecond
  <2>3. /\ a * NANOS_PER_SEC \in Int /\ r.milliseconds * (b * b) \in Int
        /\ r.microseconds * b \in Int /\ r.nanoseconds \in Int
    <3>1. /\ b * b \in Nat \ {0} /\ NANOS_PER_SEC \in Nat \ {0} /\ b \in Nat
          /\ r.milliseconds \in Nat /\ r.microseconds \in Nat /\ r.nanoseconds \in Nat
      BY <1>1, <1>2, <1>5, Units DEF Fields
    <3> DEFINE c == b * b
    <3> HIDE DEF a, b, c
    <3>2. c \in Nat
      BY <3>1 DEF c
    <3>3. a * NANOS_PER_SEC \in Int /\ r.milliseconds * c \in Int /\ r.microseconds * b \in Int
      BY <1>4, <3>1, <3>2, ProductIsInt
    <3> QED BY <3>1, <3>3 DEF c
  <2> DEFINE p == a * NANOS_PER_SEC
             q == r.milliseconds * (b * b)
             t == r.microseconds * b
  <2>4. p = a * (b * (b * b))
    BY <1>5
  <2> HIDE DEF p, q, t
  <2>5. x = p + q + t + r.nanoseconds
    BY <2>1, <2>2, <2>3 DEF p, q, t
  <2> QED BY <2>4, <2>5 DEF Mixed, q, t
<1> HIDE DEF a, b, x
<1>7. /\ x % b = r.nanoseconds
      /\ (x \div b) % b = r.microseconds
      /\ (x \div (b * b)) % b = r.milliseconds
      /\ x \div (b * (b * b)) = a
  BY <1>2, <1>3, <1>4, <1>6, MixedDigits
<1> QED BY <1>5, <1>7 DEF a, b, x

(* Leap years only add up. *)
LEMMA LeapYearsGrow ==
  ASSUME NEW y \in Nat
  PROVE  \A k \in Nat : /\ LeapYearsBefore(y + k) \in Int
                        /\ LeapYearsBefore(y) <= LeapYearsBefore(y + k)
<1> DEFINE S == {k \in Nat : LeapYearsBefore(y) <= LeapYearsBefore(y + k)}
<1>1. \A z \in Nat : /\ LeapYearsBefore(z) \in Int
                     /\ LeapYearsBefore(z) <= LeapYearsBefore(z + 1)
  BY LeapYearsAdjoin
<1>2. 0 \in S
  BY <1>1
<1>3. ASSUME NEW k \in S PROVE k + 1 \in S
  <2>1. k \in Nat /\ LeapYearsBefore(y) <= LeapYearsBefore(y + k)
    OBVIOUS
  <2>2. y + k \in Nat /\ (y + k) + 1 = y + (k + 1)
    BY <2>1
  <2>3. LeapYearsBefore(y + k) <= LeapYearsBefore(y + (k + 1))
    BY <1>1, <2>2
  <2>4. /\ LeapYearsBefore(y) \in Int /\ LeapYearsBefore(y + k) \in Int
        /\ LeapYearsBefore(y + (k + 1)) \in Int
    BY <1>1, <2>1, <2>2
  <2> QED BY <2>1, <2>3, <2>4
<1> HIDE DEF S
<1>4. S \in SUBSET Nat
  BY DEF S
<1>5. S = Nat
  BY <1>2, <1>3, <1>4, Induction
<1>6. \A k \in Nat : y + k \in Nat
  OBVIOUS
<1> QED BY <1>1, <1>5, <1>6 DEF S

(* Dividing the days by those of a common year finds the year, or the next. *)
LEMMA YearEstimate ==
  ASSUME NEW r \in Readings, DateExists(r), r.years < Size.years
  PROVE  /\ DaysBefore(YearOf(r)) <= DayOf(r)
         /\ DayOf(r) < DaysBefore(YearOf(r) + 1)
         /\ (DayOf(r) - DaysBefore(BASE_YEAR)) \div DAYS_PER_YEAR \in {r.years, r.years + 1}
<1> DEFINE y == YearOf(r)
           n == r.years
           leaps == LeapYearsBefore(y) - LeapYearsBefore(BASE_YEAR)
           extra == IF IsLeap(y) THEN 1 ELSE 0
<1>1. /\ n \in Nat /\ y \in Nat /\ y = BASE_YEAR + n /\ r.days \in Nat
      /\ BASE_YEAR \in Nat /\ DAYS_PER_YEAR \in Nat \ {0} /\ EPOCH_YEAR \in Nat
  BY Types, CalendarAssumption DEF YearOf, Fields
<1>2. r.days \in 1..DaysIn(y) /\ DaysIn(y) = DAYS_PER_YEAR + extra
  BY DEF DateExists, DaysIn
<1>3. DaysBefore(y) \in Int /\ DaysBefore(y + 1) = DaysBefore(y) + DaysIn(y)
  BY <1>1, DaysAreIntegers, YearsAdjoin
<1>4. DayOf(r) = DaysBefore(y) + r.days - 1
  BY DEF DayOf
<1>5. leaps + extra \in 0..(DAYS_PER_YEAR - 1) /\ leaps \in Nat
  <2>1. LeapYearsBefore(y + 1) = LeapYearsBefore(y) + extra
    BY <1>1, LeapYearsAdjoin
  <2> DEFINE k == Size.years - (n + 1)
  <2>2. Size.years \in Nat
    BY UnitsAndSizes DEF Fields
  <2>3. k \in Nat /\ y + 1 \in Nat /\ (y + 1) + k = BASE_YEAR + Size.years
    BY <1>1, <2>2
  <2>4. /\ LeapYearsBefore(y + 1) <= LeapYearsBefore(BASE_YEAR + Size.years)
        /\ LeapYearsBefore(y + 1) \in Int
        /\ LeapYearsBefore(BASE_YEAR + Size.years) \in Int
    <3> HIDE DEF k, y
    <3>1. /\ LeapYearsBefore(y + 1) <= LeapYearsBefore((y + 1) + k)
          /\ LeapYearsBefore((y + 1) + k) \in Int
      BY <2>3, LeapYearsGrow
    <3>2. LeapYearsBefore(y + 1) \in Int
      BY <1>1 DEF LeapYearsBefore
    <3> QED BY <3>1, <3>2, <2>3
  <2>5. /\ LeapYearsBefore(BASE_YEAR) <= LeapYearsBefore(y)
        /\ LeapYearsBefore(y) \in Int /\ LeapYearsBefore(BASE_YEAR) \in Int
    <3>1. /\ LeapYearsBefore(BASE_YEAR) <= LeapYearsBefore(BASE_YEAR + n)
          /\ LeapYearsBefore(BASE_YEAR + n) \in Int
      BY <1>1, LeapYearsGrow
    <3>2. LeapYearsBefore(BASE_YEAR) \in Int
      BY <1>1 DEF LeapYearsBefore
    <3> HIDE DEF y
    <3> QED BY <3>1, <3>2, <1>1
  <2>6. LeapYearsBefore(BASE_YEAR + Size.years) - LeapYearsBefore(BASE_YEAR) < DAYS_PER_YEAR
    BY LayoutAssumption DEF LayoutFits
  <2>7. extra \in Nat
    OBVIOUS
  <2> HIDE DEF y, extra
  <2> QED BY <2>1, <2>4, <2>5, <2>6, <2>7, <1>1
<1>6. DaysBefore(y) - DaysBefore(BASE_YEAR) = n * DAYS_PER_YEAR + leaps
  <2>1. /\ LeapYearsBefore(y) \in Int /\ LeapYearsBefore(BASE_YEAR) \in Int
        /\ LeapYearsBefore(EPOCH_YEAR) \in Int
    BY <1>1 DEF LeapYearsBefore
  <2> DEFINE p == DAYS_PER_YEAR * (y - EPOCH_YEAR)
             q == DAYS_PER_YEAR * (BASE_YEAR - EPOCH_YEAR)
  <2>2. p = q + n * DAYS_PER_YEAR /\ q \in Int /\ n * DAYS_PER_YEAR \in Int
    <3>1. \A a \in Int, b \in Int, d \in Int : d * (a + b) = d * a + b * d
      OBVIOUS
    <3>2. y - EPOCH_YEAR = (BASE_YEAR - EPOCH_YEAR) + n /\ BASE_YEAR - EPOCH_YEAR \in Int
      BY <1>1
    <3> DEFINE w == BASE_YEAR - EPOCH_YEAR
    <3> HIDE DEF w, y, n
    <3>3. DAYS_PER_YEAR * (w + n) = DAYS_PER_YEAR * w + n * DAYS_PER_YEAR
      BY <1>1, <3>1, <3>2 DEF w
    <3>4. DAYS_PER_YEAR * w \in Int /\ n * DAYS_PER_YEAR \in Int
      BY <1>1, <3>2, ProductIsInt DEF w
    <3> QED BY <3>2, <3>3, <3>4 DEF w
  <2>3. /\ DaysBefore(y) = p + LeapYearsBefore(y) - LeapYearsBefore(EPOCH_YEAR)
        /\ DaysBefore(BASE_YEAR) = q + LeapYearsBefore(BASE_YEAR) - LeapYearsBefore(EPOCH_YEAR)
    BY DEF DaysBefore
  <2> HIDE DEF p, q, y, n
  <2> QED BY <2>1, <2>2, <2>3
<1> DEFINE rest == leaps + r.days - 1
<1> HIDE DEF y, n, extra, leaps
<1>7. DaysBefore(y) <= DayOf(r) /\ DayOf(r) < DaysBefore(y + 1)
  <2>1. extra \in Nat
    BY DEF extra
  <2> QED BY <1>1, <1>2, <1>3, <1>4, <2>1
<1>8. /\ DayOf(r) - DaysBefore(BASE_YEAR) = n * DAYS_PER_YEAR + rest
      /\ rest \in 0..(2 * DAYS_PER_YEAR - 1)
  <2>1. DaysBefore(BASE_YEAR) \in Int
    BY <1>1, DaysAreIntegers
  <2>2. n * DAYS_PER_YEAR \in Int /\ extra \in Nat
    BY <1>1 DEF extra
  <2> QED BY <1>1, <1>2, <1>3, <1>4, <1>5, <1>6, <2>1, <2>2
<1> HIDE DEF rest
<1>9. CASE rest < DAYS_PER_YEAR
  <2>1. rest \in 0..(DAYS_PER_YEAR - 1)
    BY <1>1, <1>8, <1>9
  <2>2. (n * DAYS_PER_YEAR + rest) \div DAYS_PER_YEAR = n
    BY <1>1, <2>1, DivModDigits
  <2> QED BY <1>7, <1>8, <2>2 DEF y, n
<1>10. CASE ~(rest < DAYS_PER_YEAR)
  <2> DEFINE low == rest - DAYS_PER_YEAR
  <2>1. low \in 0..(DAYS_PER_YEAR - 1)
    BY <1>1, <1>8, <1>10
  <2>2. (n + 1) * DAYS_PER_YEAR = n * DAYS_PER_YEAR + DAYS_PER_YEAR
    BY <1>1, OneMore
  <2>3. n * DAYS_PER_YEAR + rest = (n + 1) * DAYS_PER_YEAR + low
    <3>1. n * DAYS_PER_YEAR \in Int
      BY <1>1
    <3> QED BY <1>1, <1>8, <2>2, <3>1
  <2>4. ((n + 1) * DAYS_PER_YEAR + low) \div DAYS_PER_YEAR = n + 1
    <3> DEFINE h == n + 1
    <3>1. h \in Int
      BY <1>1
    <3> HIDE DEF h, low
    <3>2. (h * DAYS_PER_YEAR + low) \div DAYS_PER_YEAR = h
      BY <1>1, <2>1, <3>1, DivModDigits
    <3> QED BY <3>2 DEF h
  <2> QED BY <1>7, <1>8, <2>3, <2>4 DEF y, n
<1> QED BY <1>9, <1>10

LEMMA ReadingIsFound ==
  ASSUME NEW r \in Readings, Valid(r), r.years < Size.years, r.seconds < SECONDS_PER_MINUTE
  PROVE  ReadingAt(Nanoseconds(r)) = r
<1> DEFINE n == Nanoseconds(r)
           second == n \div NANOS_PER_SEC
           day == second \div SECONDS_PER_DAY
           estimate == BASE_YEAR + (day - DaysBefore(BASE_YEAR)) \div DAYS_PER_YEAR
           IsYear(y) == DaysBefore(y) <= day /\ day < DaysBefore(y + 1)
           year == CHOOSE y \in {estimate - 1, estimate} : IsYear(y)
           found == [years        |-> year - BASE_YEAR,
                     days         |-> day - DaysBefore(year) + 1,
                     hours        |-> (second \div SECONDS_PER_HOUR) % HOURS_PER_DAY,
                     minutes      |-> (second \div SECONDS_PER_MINUTE) % MINUTES_PER_HOUR,
                     seconds      |-> second % SECONDS_PER_MINUTE,
                     milliseconds |-> (n \div NANOS_PER_MS) % THOUSAND,
                     microseconds |-> (n \div THOUSAND) % THOUSAND,
                     nanoseconds  |-> n % THOUSAND]
<1>1. ReadingAt(n) = found
  BY DEF ReadingAt
<1>2. second = SecondCount(r)
  BY FractionOfSecond
<1>3. day = DayOf(r)
  BY <1>2, TimeOfDay
<1>4. /\ r.years \in Nat /\ r.days \in Nat /\ BASE_YEAR \in Nat /\ YearOf(r) = r.years + BASE_YEAR
      /\ DaysBefore(YearOf(r)) \in Int
  BY Types, DaysAreIntegers, CalendarAssumption DEF YearOf, Fields
<1>5. /\ (second \div SECONDS_PER_HOUR) % HOURS_PER_DAY = r.hours
      /\ (second \div SECONDS_PER_MINUTE) % MINUTES_PER_HOUR = r.minutes
      /\ second % SECONDS_PER_MINUTE = r.seconds
  BY <1>2, TimeOfDay
<1>6. /\ (n \div NANOS_PER_MS) % THOUSAND = r.milliseconds
      /\ (n \div THOUSAND) % THOUSAND = r.microseconds
      /\ n % THOUSAND = r.nanoseconds
  BY FractionOfSecond
<1> HIDE DEF n, second, day
<1>7. /\ IsYear(YearOf(r))
      /\ (day - DaysBefore(BASE_YEAR)) \div DAYS_PER_YEAR \in {r.years, r.years + 1}
  BY <1>3, YearEstimate DEF Valid
<1>8. estimate \in {YearOf(r), YearOf(r) + 1}
  BY <1>4, <1>7
<1> HIDE DEF estimate
<1>9. YearOf(r) \in {estimate - 1, estimate}
  BY <1>4, <1>8
<1>10. day \in Int
  BY <1>3, <1>4 DEF DayOf
<1>11. ASSUME NEW y \in {estimate - 1, estimate}, IsYear(y) PROVE y = YearOf(r)
  <2>1. y \in {YearOf(r) - 1, YearOf(r), YearOf(r) + 1}
    BY <1>4, <1>8
  <2>2. CASE y = YearOf(r) - 1
    <3>1. y + 1 = YearOf(r)
      BY <2>2, <1>4
    <3> QED BY <3>1, <1>4, <1>7, <1>10, <1>11
  <2>3. CASE y = YearOf(r) + 1
    <3>1. YearOf(r) + 1 \in Nat
      BY <1>4
    <3>2. DaysBefore(YearOf(r) + 1) \in Int
      BY <3>1, DaysAreIntegers
    <3> QED BY <2>3, <3>2, <1>7, <1>10, <1>11
  <2> QED BY <2>1, <2>2, <2>3
<1> HIDE DEF IsYear
<1>12. year = YearOf(r)
  BY <1>7, <1>9, <1>11
<1> HIDE DEF year
<1>13. year - BASE_YEAR = r.years /\ day - DaysBefore(year) + 1 = r.days
  BY <1>3, <1>4, <1>12 DEF DayOf
<1>14. \A f \in Fields : found[f] = r[f]
  BY <1>5, <1>6, <1>13 DEF Fields
<1>15. found = [f \in Fields |-> found[f]]
  BY DEF Fields
<1>16. r = [f \in Fields |-> r[f]]
  BY DEF Readings
<1>17. found = r
  <2> HIDE DEF found
  <2> QED BY <1>14, <1>15, <1>16
<1> QED BY <1>1, <1>17 DEF n

(* Second 60 has the time of the second after it. *)
LEMMA SecondSixty ==
  ASSUME NEW r \in Readings, Valid(r), r.years < Size.years, ~(r.seconds < SECONDS_PER_MINUTE)
  PROVE  ReadingAt(Nanoseconds(r) - NANOS_PER_SEC)
           = [r EXCEPT !.seconds = SECONDS_PER_MINUTE - 1]
<1> DEFINE q == [r EXCEPT !.seconds = SECONDS_PER_MINUTE - 1]
<1>1. \A f \in Fields : r[f] \in Nat
  BY DEF Readings
<1>2. /\ q \in Readings /\ q.seconds = SECONDS_PER_MINUTE - 1
      /\ \A f \in Fields \ {"seconds"} : q[f] = r[f]
  BY CalendarAssumption DEF Readings, Fields
<1>3. r.seconds = SECONDS_PER_MINUTE
  BY <1>1, CalendarAssumption DEF Valid, Fields
<1> HIDE DEF q
<1>4. /\ q.years = r.years /\ q.days = r.days /\ q.hours = r.hours /\ q.minutes = r.minutes
      /\ q.milliseconds = r.milliseconds /\ q.microseconds = r.microseconds
      /\ q.nanoseconds = r.nanoseconds
  BY <1>2 DEF Fields
<1>5. Valid(q) /\ q.seconds < SECONDS_PER_MINUTE
  BY <1>2, <1>4, CalendarAssumption DEF Valid, DateExists, YearOf
<1>6. SecondCount(r) = SecondCount(q) + 1
  <2>1. Timestamp(q) = Timestamp(r)
    BY <1>4 DEF Timestamp, YearOf
  <2>2. /\ Timestamp(r) \in Int /\ r.hours * SECONDS_PER_HOUR \in Int
        /\ r.minutes * SECONDS_PER_MINUTE \in Int
    BY Types
  <2> QED BY <1>2, <1>3, <1>4, <2>1, <2>2, CalendarAssumption DEF SecondCount
<1>7. Nanoseconds(q) = Nanoseconds(r) - NANOS_PER_SEC
  <2>1. OfSecond(q) = OfSecond(r)
    BY <1>4 DEF OfSecond
  <2>2. /\ SecondCount(q) \in Int /\ OfSecond(r) \in Int /\ NANOS_PER_SEC \in Int
        /\ SecondCount(q) * NANOS_PER_SEC \in Int
    BY <1>2, Types, Units, ProductIsInt
  <2>3. SecondCount(r) * NANOS_PER_SEC = SecondCount(q) * NANOS_PER_SEC + NANOS_PER_SEC
    BY <1>6, <2>2, OneMore
  <2>4. /\ Nanoseconds(q) = SecondCount(q) * NANOS_PER_SEC + OfSecond(r)
        /\ Nanoseconds(r) = SecondCount(r) * NANOS_PER_SEC + OfSecond(r)
    BY <1>2, <2>1, SplitAtSecond
  <2> QED BY <2>2, <2>3, <2>4
<1>8. ReadingAt(Nanoseconds(q)) = q
  BY <1>2, <1>4, <1>5, ReadingIsFound
<1> QED BY <1>7, <1>8 DEF q

(* The time of a header tells what it reads -- whatever was streamed, in   *)
(* every calendar of this shape: two headers with the same valid time read *)
(* the same, or one of them shows the second 60 before the other's 0.      *)
THEOREM TimesTell == Spec => []TimesTellReadingsApart
<1>1. ASSUME HeaderInv PROVE TimesTellReadingsApart
  <2> DEFINE r == Unpack(content)
  <2> SUFFICES ASSUME NanosecondsSinceEpoch(r) # NoTime
               PROVE  IF r.seconds < SECONDS_PER_MINUTE
                        THEN ReadingAt(NanosecondsSinceEpoch(r)) = r
                        ELSE ReadingAt(NanosecondsSinceEpoch(r) - NANOS_PER_SEC)
                               = [r EXCEPT !.seconds = SECONDS_PER_MINUTE - 1]
    BY DEF TimesTellReadingsApart
  <2>1. Valid(r) /\ NanosecondsSinceEpoch(r) = Nanoseconds(r)
    BY DEF NanosecondsSinceEpoch
  <2>2. r \in Readings /\ r.years < Size.years
    BY <1>1, UnpackType DEF HeaderInv, Fitting, Fields
  <2> HIDE DEF r
  <2> QED BY <2>1, <2>2, ReadingIsFound, SecondSixty
<1> QED BY <1>1, HeaderInvariant, PTL

(* No two valid readings have the same pulse time, second 60 apart: the    *)
(* key by which ev44 and pu00 messages are matched is a key.               *)
THEOREM NoTwoReadingsShareATime ==
  ASSUME NEW q \in Readings, NEW r \in Readings,
         Valid(q), q.years < Size.years, q.seconds < SECONDS_PER_MINUTE,
         Valid(r), r.years < Size.years, r.seconds < SECONDS_PER_MINUTE,
         NanosecondsSinceEpoch(q) = NanosecondsSinceEpoch(r)
  PROVE  q = r
<1>1. Nanoseconds(q) = Nanoseconds(r)
  BY DEF NanosecondsSinceEpoch
<1> QED BY <1>1, ReadingIsFound

-----------------------------------------------------------------------------
(* The powers that the layout of the code is made of. *)
LEMMA FirstPowers ==
  /\ PowerOf2[5] = 32 /\ PowerOf2[6] = 64 /\ PowerOf2[8] = 256
  /\ PowerOf2[9] = 512 /\ PowerOf2[10] = 1024
<1> DEFINE f == PowerOf2
<1>1. f[0] = 1 /\ \A n \in Nat : f[n + 1] = 2 * f[n]
  BY PowerStep
<1> HIDE DEF f
<1>2. /\ f[0 + 1] = 2 * f[0] /\ f[1 + 1] = 2 * f[1] /\ f[2 + 1] = 2 * f[2]
      /\ f[3 + 1] = 2 * f[3] /\ f[4 + 1] = 2 * f[4] /\ f[5 + 1] = 2 * f[5]
      /\ f[6 + 1] = 2 * f[6] /\ f[7 + 1] = 2 * f[7] /\ f[8 + 1] = 2 * f[8]
      /\ f[9 + 1] = 2 * f[9]
  BY <1>1
<1>3. f[1] = 2 /\ f[2] = 4 /\ f[3] = 8 /\ f[4] = 16 /\ f[5] = 32
  BY <1>1, <1>2
<1>4. f[6] = 64 /\ f[7] = 128 /\ f[8] = 256 /\ f[9] = 512 /\ f[10] = 1024
  BY <1>2, <1>3
<1> QED BY <1>3, <1>4 DEF f

(* The layout that the documentation of GpsTime draws (gps_time.rs:6-21)   *)
(* has room for every reading of a clock, and for its 256 years: what is   *)
(* proved from LayoutAssumption holds of the code.                         *)
THEOREM CodeLayoutFits ==
  ASSUME HOURS_PER_DAY = 24, MINUTES_PER_HOUR = 60, SECONDS_PER_MINUTE = 60,
         THOUSAND = 1000, DAYS_PER_YEAR = 365, BASE_YEAR = 2000,
         Width = [nanoseconds |-> 10, microseconds |-> 10, milliseconds |-> 10,
                  seconds |-> 6, minutes |-> 6, hours |-> 5, days |-> 9, years |-> 8],
         Shift = [nanoseconds |-> 0, microseconds |-> 10, milliseconds |-> 20,
                  seconds |-> 30, minutes |-> 36, hours |-> 42, days |-> 47, years |-> 56]
  PROVE  LayoutFits
<1>1. /\ Size["nanoseconds"] = 1024 /\ Size["microseconds"] = 1024
      /\ Size["milliseconds"] = 1024 /\ Size["seconds"] = 64 /\ Size["minutes"] = 64
      /\ Size["hours"] = 32 /\ Size["days"] = 512 /\ Size["years"] = 256
  BY FirstPowers DEF Size, Fields
<1>2. LeapYearsBefore(2256) - LeapYearsBefore(2000) = 62
  BY DEF LeapYearsBefore
<1>3. /\ Shift["nanoseconds"] = 0
      /\ Shift["microseconds"] = Shift["nanoseconds"] + Width["nanoseconds"]
      /\ Shift["milliseconds"] = Shift["microseconds"] + Width["microseconds"]
      /\ Shift["seconds"] = Shift["milliseconds"] + Width["milliseconds"]
      /\ Shift["minutes"] = Shift["seconds"] + Width["seconds"]
      /\ Shift["hours"] = Shift["minutes"] + Width["minutes"]
      /\ Shift["days"] = Shift["hours"] + Width["hours"]
      /\ Shift["years"] = Shift["days"] + Width["days"]
  OBVIOUS
<1>4. LeapYearsBefore(BASE_YEAR + Size["years"]) - LeapYearsBefore(BASE_YEAR)
        < DAYS_PER_YEAR
  <2>1. BASE_YEAR + Size["years"] = 2256
    BY <1>1
  <2> QED BY <1>2, <2>1
<1> QED BY <1>1, <1>3, <1>4 DEF LayoutFits
=============================================================================
