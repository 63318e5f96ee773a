------------------------------ MODULE Calendar ------------------------------
(***************************************************************************)
(* lib/clock/src/dateTime.c, and the time structures of utcTime.h.  The    *)
(* second part is the yardstick the code is measured with: it counts days  *)
(* by the closed formula of the Gregorian calendar and shares nothing with *)
(* the code's table of months.                                             *)
(***************************************************************************)
EXTENDS Integers, Sequences

YearValues      == 65536    \* the year is a uint16_t
ZoneValues      == 256      \* the hours and minutes of a zone are uint8_t
MaxMicroseconds == 999999

IsLeapYear(year) ==
  year % 400 = 0 \/ (year % 100 # 0 /\ year % 4 = 0)

GetDaysInMonth(year, month) ==
  IF month = 2 THEN (IF IsLeapYear(year) THEN 29 ELSE 28)
  ELSE IF month \in {4, 6, 9, 11} THEN 30 ELSE 31

IsValidDate(year, month, day) ==
  /\ month \in 1..12
  /\ day \in 1..GetDaysInMonth(year, month)

IsValidTime(hour, minute, second, microseconds) ==
  /\ hour <= 23 /\ minute <= 59 /\ second <= 59
  /\ microseconds <= MaxMicroseconds

\* The code's LUT of time zones.
Zone(sign, hrs, mins) == [sign |-> sign, hrs |-> hrs, mins |-> mins]

f_zone_Lut ==
  {Zone("Z", 0, 0)}
    \union {Zone("-", hrs, 0) : hrs \in 1..12}
    \union {Zone("-", hrs, 30) : hrs \in {3, 9}}
    \union {Zone("+", hrs, 0) : hrs \in 0..14}
    \union {Zone("+", hrs, 30) : hrs \in {3, 4, 5, 6, 9, 10}}
    \union {Zone("+", hrs, 45) : hrs \in {5, 8, 12}}

IsValidUtc(time) ==
  /\ time.zone \in f_zone_Lut
  /\ IsValidDate(time.year, time.month, time.day)
  /\ IsValidTime(time.hour, time.minute, time.second, time.microseconds)

-----------------------------------------------------------------------------
(* The yardstick.                                                          *)

\* Days since the last day of February of the year 0.  The year begins in
\* March, so that the leap day is its last.
DayNumber(year, month, day) ==
  LET early == IF month <= 2 THEN 1 ELSE 0
      y     == year - early
      m     == month + 12 * early - 3
  IN  day + (153 * m + 2) \div 5 + 365 * y + y \div 4 - y \div 100 + y \div 400

\* What a date and a number of minutes from its midnight add up to.
DayAndMinute(days, minutes) == <<days + minutes \div 1440, minutes % 1440>>

OffsetMinutes(zone) ==
  (IF zone.sign = "-" THEN -1 ELSE 1) * (zone.hrs * 60 + zone.mins)

\* The instant a time structure stands for: day and minute in Greenwich,
\* second, microsecond.
Instant(time) ==
  DayAndMinute(DayNumber(time.year, time.month, time.day),
               time.hour * 60 + time.minute - OffsetMinutes(time.zone))
    \o <<time.second, time.microseconds>>

\* The first position where two tuples of one length differ decides.
Later(one, other) ==
  \E ix \in 1..Len(one) :
    /\ one[ix] > other[ix]
    /\ \A jx \in 1..ix - 1 : one[jx] = other[jx]
=============================================================================
