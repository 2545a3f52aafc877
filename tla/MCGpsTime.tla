----------------------------- MODULE MCGpsTime ------------------------------
(* A small calendar in 17 bits: the years 2000 to 2003 of 5 days, and one   *)
(* more in 2000; days of 2 hours of 2 minutes of 3 seconds, and seconds of  *)
(* 8 nanoseconds.  Every field but the year has a bit pattern to spare.     *)
EXTENDS GpsTime

MCWidth ==
  [years |-> 2, days |-> 3, hours |-> 2, minutes |-> 2, seconds |-> 2,
   milliseconds |-> 2, microseconds |-> 2, nanoseconds |-> 2]

MCShift ==
  [years |-> 15, days |-> 12, hours |-> 10, minutes |-> 8, seconds |-> 6,
   milliseconds |-> 4, microseconds |-> 2, nanoseconds |-> 0]

(* The whole calendar of the headers, 2000 to 2255, day by day, in 18 bits. *)
CalendarWidth ==
  [f \in Fields |-> CASE f = "years" -> 8 [] f = "days" -> 9
                      [] f = "seconds" -> 1 [] OTHER -> 0]

CalendarShift ==
  [f \in Fields |-> CASE f = "years" -> 10
                      [] f \in {"days", "hours", "minutes"} -> 1 [] OTHER -> 0]
=============================================================================
