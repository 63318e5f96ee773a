------------------------------- MODULE UtcTime ------------------------------
(***************************************************************************)
(* lib/clock/src/utcNorm.c, and utcTime_isGreater, which normalises copies *)
(* of its two arguments to UTC and compares them field by field.  Every    *)
(* pass of every loop is a step.  The functions share no state: there is   *)
(* nothing concurrent here, only carries.                                  *)
(***************************************************************************)
EXTENDS Calendar

CONSTANT Times   \* structures with a valid date and time, in any zone

\* st_utc_time_t: the fields' types, the ranges that utcTime.h gives them, and
\* no hours or minutes with the sign Z.
ASSUME TimesAssumption ==
  \A time \in Times :
    /\ time \in [year : 0..YearValues - 1, month : 1..12, day : 1..31,
                 hour : 0..23, minute : 0..59, second : 0..59,
                 microseconds : 0..MaxMicroseconds,
                 zone : [sign : {"Z", "+", "-"},
                         hrs : 0..ZoneValues - 1, mins : 0..ZoneValues - 1]]
    /\ IsValidDate(time.year, time.month, time.day)
    /\ time.zone.sign = "Z" => time.zone = Zone("Z", 0, 0)

VARIABLES
  arg,            \* t1 and t2, as the caller passed them
  utc_time,       \* the copies, ti_n and t2_n
  ix,             \* which of them is being normalised
  total_minutes, day_delta,
  is_greater,
  pc

locals   == <<total_minutes, day_delta>>
timeVars == <<arg, utc_time, ix, locals, is_greater, pc>>

Goto(from, to) == pc = from /\ pc' = to
Stay(at)       == pc = at /\ UNCHANGED pc
Update(time)   == utc_time' = [utc_time EXCEPT ![ix] = time]

-----------------------------------------------------------------------------
Compare(pair) ==
  /\ arg = pair /\ utc_time = pair
  /\ ix = 1 /\ pc = "normalise"
  /\ total_minutes = 0 /\ day_delta = 0 /\ is_greater = FALSE

TimeInit == \E pair \in [1..2 -> Times] : Compare(pair)

\* utcNorm_toUtcZ, of a time in UTC already ...
AlreadyZ ==
  /\ Goto("normalise", "normalised")
  /\ utc_time[ix].zone.sign = "Z"
  /\ UNCHANGED <<arg, utc_time, ix, locals, is_greater>>

\* ... and of any other.
ToUtcZ ==
  /\ Goto("normalise", "minutes")
  /\ utc_time[ix].zone.sign # "Z"
  /\ total_minutes' = utc_time[ix].hour * 60 + utc_time[ix].minute
                        - OffsetMinutes(utc_time[ix].zone)
  /\ day_delta' = 0
  /\ UNCHANGED <<arg, utc_time, ix, is_greater>>

ShiftNegativeMinutes ==
  /\ Stay("minutes") /\ total_minutes < 0
  /\ total_minutes' = total_minutes + 1440
  /\ day_delta' = day_delta - 1
  /\ UNCHANGED <<arg, utc_time, ix, is_greater>>

ShiftPositiveMinutes ==
  /\ Stay("minutes") /\ total_minutes >= 1440
  /\ total_minutes' = total_minutes - 1440
  /\ day_delta' = day_delta + 1
  /\ UNCHANGED <<arg, utc_time, ix, is_greater>>

StoreTime ==
  /\ Goto("minutes", "days") /\ total_minutes \in 0..1439
  /\ Update([utc_time[ix] EXCEPT !.hour   = total_minutes \div 60,
                                 !.minute = total_minutes % 60])
  /\ UNCHANGED <<arg, ix, locals, is_greater>>

NextDay_NoYear(time) ==
  IF time.day + 1 <= GetDaysInMonth(time.year, time.month)
    THEN [time EXCEPT !.day = @ + 1]
  ELSE [time EXCEPT !.day = 1, !.month = (@ % 12) + 1]

\* One pass of utcNorm_shiftPositiveByDays.
NextDay(time) ==
  IF time.day + 1 <= GetDaysInMonth(time.year, time.month)
    THEN [time EXCEPT !.day = @ + 1]
  ELSE IF time.month < 12
    THEN [time EXCEPT !.day = 1, !.month = @ + 1]
  ELSE [time EXCEPT !.day = 1, !.month = 1, !.year = (@ + 1) % YearValues]

\* The month before that of time.
PreviousMonth(time) ==
  IF time.month > 1
    THEN [time EXCEPT !.month = @ - 1]
    ELSE [time EXCEPT !.month = 12, !.year = (@ - 1) % YearValues]

PreviousDay_SameMonth(time) ==
  IF time.day > 1
    THEN [time EXCEPT !.day = @ - 1]
    ELSE [PreviousMonth(time) EXCEPT !.day = GetDaysInMonth(time.year, time.month)]

\* One pass of utcNorm_shiftNegativeByDays.
PreviousDay(time) ==
  IF time.day > 1
    THEN [time EXCEPT !.day = @ - 1]
    ELSE LET before == PreviousMonth(time)
         IN  [before EXCEPT !.day = GetDaysInMonth(before.year, before.month)]

ShiftPositiveByDays ==
  /\ Stay("days") /\ day_delta > 0
  /\ Update(NextDay(utc_time[ix]))
  /\ day_delta' = day_delta - 1
  /\ UNCHANGED <<arg, ix, total_minutes, is_greater>>

ShiftNegativeByDays ==
  /\ Stay("days") /\ day_delta < 0
  /\ Update(PreviousDay(utc_time[ix]))
  /\ day_delta' = day_delta + 1
  /\ UNCHANGED <<arg, ix, total_minutes, is_greater>>

SetZ ==
  /\ Goto("days", "normalised") /\ day_delta = 0
  /\ Update([utc_time[ix] EXCEPT !.zone = Zone("Z", 0, 0)])
  /\ UNCHANGED <<arg, ix, locals, is_greater>>

\* The first copy is done, the second is to do.
NextCopy ==
  /\ Goto("normalised", "normalise") /\ ix = 1
  /\ ix' = 2
  /\ UNCHANGED <<arg, utc_time, locals, is_greater>>

Fields(time) ==
  <<time.year, time.month, time.day, time.hour, time.minute, time.second,
    time.microseconds>>

Decide_AnyField ==
  /\ Goto("normalised", "compared") /\ ix = 2
  /\ is_greater' = \E fx \in 1..7 : Fields(utc_time[1])[fx] > Fields(utc_time[2])[fx]
  /\ UNCHANGED <<arg, utc_time, ix, locals>>

\* The first field that differs decides.
Decide ==
  /\ Goto("normalised", "compared") /\ ix = 2
  /\ is_greater' = Later(Fields(utc_time[1]), Fields(utc_time[2]))
  /\ UNCHANGED <<arg, utc_time, ix, locals>>

TimeStep ==
  \/ AlreadyZ \/ ToUtcZ
  \/ ShiftNegativeMinutes \/ ShiftPositiveMinutes \/ StoreTime
  \/ ShiftPositiveByDays \/ ShiftNegativeByDays \/ SetZ
  \/ NextCopy \/ Decide

TimeSpec == TimeInit /\ [][TimeStep]_timeVars

-----------------------------------------------------------------------------
(* Properties.                                                             *)

\* What the code has made of the copy it is working on, with the days and
\* minutes that it has still to add.
Underway ==
  LET time == utc_time[ix]
      days == DayNumber(time.year, time.month, time.day) + day_delta
  IN  CASE pc = "minutes" -> DayAndMinute(days, total_minutes)
                               \o <<time.second, time.microseconds>>
        [] pc = "days"    -> DayAndMinute(days, time.hour * 60 + time.minute)
                               \o <<time.second, time.microseconds>>
        [] OTHER          -> Instant(time)

\* From the first pass of the first loop to the last one normalising keeps the
\* instant: what a loop takes from the minutes it gives to the days, and one
\* day later is one day later across the ends of months, Februaries, centuries
\* and years (utcNorm.c:7-67).
SameInstant == Underway = Instant(arg[ix])

\* A normalised time is a valid one, in Greenwich, however far away the zone
\* was: nobody checks it (utcNorm.c:93-104).
NormalisedIsValid ==
  pc \in {"normalised", "compared"} =>
    IsValidUtc(utc_time[ix]) /\ utc_time[ix].zone = Zone("Z", 0, 0)

\* "true if t1 is greater than t2, false otherwise" (utcTime.h:88): later, in
\* whatever time zones the two are given.
GreaterIsLater ==
  pc = "compared" => (is_greater <=> Later(Instant(arg[1]), Instant(arg[2])))
=============================================================================
