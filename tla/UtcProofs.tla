------------------------------ MODULE UtcProofs -----------------------------
(***************************************************************************)
(* Proofs about UtcTime and UtcText, for every time and every zone that    *)
(* the structure can hold, and every text.                                 *)
(*                                                                         *)
(* First the calendar: the day after and the day before a date, as the     *)
(* code steps from month to month, are the next and the previous day of    *)
(* the closed formula (DayNumber), and the formula orders dates as their   *)
(* fields do.  Then the loops: what is left in day_delta and total_minutes *)
(* and what is in the copy always add up to the time given (CarryInv).     *)
(***************************************************************************)
EXTENDS UtcText, SequenceTheorems, TLAPS

\* Days in the years before y, leap days included.
YearDays(y) == 365 * y + y \div 4 - y \div 100 + y \div 400

\* Days from the first of March to the first of a month.
MonthDays ==
  <<306, 337, 0, 31, 61, 92, 122, 153, 184, 214, 245, 275>>

LeapDay(y) == IF IsLeapYear(y) THEN 1 ELSE 0

-----------------------------------------------------------------------------
(* The calendar.                                                           *)

LEMMA YearOnYear ==
  ASSUME NEW y \in Int
  PROVE  YearDays(y) \in Int /\ YearDays(y) = YearDays(y - 1) + 365 + LeapDay(y)
<1>1. y \div 4 = (y - 1) \div 4 + (IF y % 4 = 0 THEN 1 ELSE 0)
  OBVIOUS
<1>2. y \div 100 = (y - 1) \div 100 + (IF y % 100 = 0 THEN 1 ELSE 0)
  OBVIOUS
<1>3. y \div 400 = (y - 1) \div 400 + (IF y % 400 = 0 THEN 1 ELSE 0)
  OBVIOUS
<1>4. (y % 100 = 0 => y % 4 = 0) /\ (y % 400 = 0 => y % 100 = 0)
  OBVIOUS
<1> QED
  BY <1>1, <1>2, <1>3, <1>4 DEF YearDays, LeapDay, IsLeapYear

\* The formula month by month.
LEMMA DayNumberTable ==
  ASSUME NEW y \in Int, NEW m \in 1..12, NEW d \in Int
  PROVE  DayNumber(y, m, d) =
           d + MonthDays[m] + YearDays(IF m <= 2 THEN y - 1 ELSE y)
<1>1. m \in {1, 2, 3, 4, 5, 6, 7, 8, 9, 10, 11, 12}
  OBVIOUS
<1>2. CASE m = 1
  BY <1>2 DEF DayNumber, MonthDays, YearDays
<1>3. CASE m = 2
  BY <1>3 DEF DayNumber, MonthDays, YearDays
<1>4. CASE m \in 3..12
  BY <1>1, <1>4 DEF DayNumber, MonthDays, YearDays
<1> QED
  BY <1>1, <1>2, <1>3, <1>4

\* The last day of a month is the one before the first of the next month.
LEMMA MonthOnMonth ==
  ASSUME NEW y \in Int, NEW m \in 1..11
  PROVE  DayNumber(y, m + 1, 1) = DayNumber(y, m, GetDaysInMonth(y, m)) + 1
<1> DEFINE last == GetDaysInMonth(y, m)
<1>1. m \in {1, 2, 3, 4, 5, 6, 7, 8, 9, 10, 11} /\ m \in 1..12 /\ m + 1 \in 1..12
  OBVIOUS
<1>2. last \in Int
  BY DEF GetDaysInMonth
<1>3. /\ DayNumber(y, m, last) = last + MonthDays[m] + YearDays(IF m <= 2 THEN y - 1 ELSE y)
      /\ DayNumber(y, m + 1, 1) = 1 + MonthDays[m + 1] + YearDays(IF m + 1 <= 2 THEN y - 1 ELSE y)
  BY <1>1, <1>2, DayNumberTable
<1>4. /\ YearDays(y) \in Int /\ YearDays(y - 1) \in Int
      /\ YearDays(y) = YearDays(y - 1) + 365 + LeapDay(y)
  BY YearOnYear
<1>5. CASE m = 1
  <2>1. last = 31
    BY <1>5 DEF GetDaysInMonth
  <2> QED
    BY <1>3, <1>4, <1>5, <2>1 DEF MonthDays
<1>6. CASE m = 2
  <2>1. last = 28 + LeapDay(y)
    BY <1>6 DEF GetDaysInMonth, LeapDay
  <2>2. LeapDay(y) \in Int
    BY DEF LeapDay
  <2> QED
    BY <1>3, <1>4, <1>6, <2>1, <2>2 DEF MonthDays
<1>7. CASE m \in 3..11
  <2>1. last = IF m \in {4, 6, 9, 11} THEN 30 ELSE 31
    BY <1>7 DEF GetDaysInMonth
  <2> QED
    BY <1>1, <1>3, <1>4, <1>7, <2>1 DEF MonthDays
<1> QED
  BY <1>1, <1>5, <1>6, <1>7

\* The last day of a year is the one before the first of the next year.
LEMMA NewYear ==
  ASSUME NEW y \in Int
  PROVE  DayNumber(y + 1, 1, 1) = DayNumber(y, 12, 31) + 1
<1>1. DayNumber(y + 1, 1, 1) = 1 + 306 + YearDays(y)
  BY DayNumberTable DEF MonthDays
<1>2. DayNumber(y, 12, 31) = 31 + 275 + YearDays(y)
  BY DayNumberTable DEF MonthDays
<1> QED
  BY <1>1, <1>2, YearOnYear

\* Dates of one month lie as far apart as their days.
LEMMA SameMonth ==
  ASSUME NEW y \in Int, NEW m \in 1..12
  PROVE  \E before \in Int : \A d \in Int : DayNumber(y, m, d) = before + d
<1> DEFINE before == MonthDays[m] + YearDays(IF m <= 2 THEN y - 1 ELSE y)
<1>1. YearDays(IF m <= 2 THEN y - 1 ELSE y) \in Int
  BY YearOnYear
<1>2. MonthDays[m] \in Int
  BY DEF MonthDays
<1>3. before \in Int
  BY <1>1, <1>2
<1>4. ASSUME NEW d \in Int
      PROVE  DayNumber(y, m, d) = before + d
  <2>1. DayNumber(y, m, d) = d + MonthDays[m] + YearDays(IF m <= 2 THEN y - 1 ELSE y)
    BY DayNumberTable
  <2> QED
    BY <2>1, <1>1, <1>2
<1> QED
  BY <1>3, <1>4

LEMMA DayNumberType ==
  ASSUME NEW y \in Int, NEW m \in 1..12, NEW d \in Int
  PROVE  DayNumber(y, m, d) \in Int
<1>1. PICK before \in Int : \A c \in Int : DayNumber(y, m, c) = before + c
  BY SameMonth
<1>2. DayNumber(y, m, d) = before + d
  BY <1>1
<1> QED
  BY <1>2

\* The next day of a month.
LEMMA DayOnDay ==
  ASSUME NEW y \in Int, NEW m \in 1..12, NEW d \in Int, NEW e \in Int, e = d + 1
  PROVE  DayNumber(y, m, e) = DayNumber(y, m, d) + 1
<1>1. PICK before \in Int : \A c \in Int : DayNumber(y, m, c) = before + c
  BY SameMonth
<1>2. DayNumber(y, m, d) = before + d /\ DayNumber(y, m, e) = before + e
  BY <1>1
<1> QED
  BY <1>2

\* The months have 28 to 31 days.
LEMMA MonthLength ==
  ASSUME NEW y, NEW m
  PROVE  /\ GetDaysInMonth(y, m) \in Int
         /\ 28 <= GetDaysInMonth(y, m) /\ GetDaysInMonth(y, m) <= 31
         /\ m = 1 \/ m = 12 => GetDaysInMonth(y, m) = 31
BY DEF GetDaysInMonth

-----------------------------------------------------------------------------
(* A day later, a day earlier.                                             *)

\* The fields of st_utc_time_t.
Structure ==
  [year : Int, month : Int, day : Int,
   hour : Int, minute : Int, second : Int, microseconds : Int,
   zone : [sign : {"Z", "+", "-"}, hrs : Int, mins : Int]]

\* What it holds of a date that exists ...
ValidDate(y, m, d) ==
  /\ y \in Int /\ 0 <= y /\ y < YearValues
  /\ m \in Int /\ 1 <= m /\ m <= 12
  /\ d \in Int /\ 1 <= d /\ d <= GetDaysInMonth(y, m)

\* ... and of a time of the day.
ValidClock(time) ==
  /\ 0 <= time.hour /\ time.hour <= 23
  /\ 0 <= time.minute /\ time.minute <= 59
  /\ 0 <= time.second /\ time.second <= 59
  /\ 0 <= time.microseconds /\ time.microseconds <= MaxMicroseconds

Valid(time) ==
  /\ time \in Structure
  /\ ValidDate(time.year, time.month, time.day)
  /\ ValidClock(time)

Day(time) == DayNumber(time.year, time.month, time.day)

\* All but the date.
SameClock(time, other) ==
  /\ time.hour = other.hour /\ time.minute = other.minute
  /\ time.second = other.second /\ time.microseconds = other.microseconds
  /\ time.zone = other.zone

\* The years that a uint16_t holds.
LEMMA Years ==
  /\ YearValues \in Int /\ 400 < YearValues
  /\ \A y \in Int : 0 <= y /\ y < YearValues => y % YearValues = y
BY DEF YearValues

LEMMA DayType ==
  ASSUME NEW time, Valid(time)
  PROVE  Day(time) \in Int
<1>1. time.year \in Int /\ time.month \in 1..12 /\ time.day \in Int
  BY DEF Valid, ValidDate
<1> QED
  BY <1>1, DayNumberType DEF Day

\* Another date in the structure.
Dated(time, y, m, d) == [time EXCEPT !.year = y, !.month = m, !.day = d]

LEMMA NewDate ==
  ASSUME NEW time, Valid(time), NEW y, NEW m, NEW d, ValidDate(y, m, d)
  PROVE  /\ Valid(Dated(time, y, m, d))
         /\ SameClock(Dated(time, y, m, d), time)
         /\ Day(Dated(time, y, m, d)) = DayNumber(y, m, d)
<1> DEFINE new == Dated(time, y, m, d)
<1>1. y \in Int /\ m \in Int /\ d \in Int /\ time \in Structure
  BY DEF Valid, ValidDate
<1>2. /\ new \in Structure
      /\ new.year = y /\ new.month = m /\ new.day = d
      /\ SameClock(new, time)
  BY <1>1 DEF Structure, SameClock, Dated
<1> HIDE DEF new
<1>3. ValidClock(new)
  BY <1>2 DEF SameClock, Valid, ValidClock
<1>4. Valid(new) /\ SameClock(new, time) /\ Day(new) = DayNumber(y, m, d)
  BY <1>2, <1>3 DEF Valid, Day
<1> QED
  BY <1>4 DEF new

\* utcNorm_shiftPositiveByDays: across the end of any month and year but the
\* last that a uint16_t holds, the date moves on by one day.
LEMMA NextDayIsNext ==
  ASSUME NEW time, Valid(time),
         time.year < YearValues - 1 \/ time.month < 12 \/ time.day < 31
  PROVE  /\ Valid(NextDay(time)) /\ SameClock(NextDay(time), time)
         /\ Day(NextDay(time)) = Day(time) + 1
<1> DEFINE y == time.year
           m == time.month
           d == time.day
<1>1. /\ ValidDate(y, m, d) /\ y \in Int /\ m \in Int /\ m \in 1..12 /\ d \in Int
      /\ time \in Structure
      /\ Day(time) = DayNumber(y, m, d)
  BY DEF Valid, ValidDate, Day
<1>2. CASE d + 1 <= GetDaysInMonth(y, m)
  <2>1. NextDay(time) = Dated(time, y, m, d + 1)
    BY <1>1, <1>2 DEF NextDay, Structure, Dated
  <2>2. DayNumber(y, m, d + 1) = DayNumber(y, m, d) + 1
    BY <1>1, DayOnDay
  <2>3. ValidDate(y, m, d + 1)
    BY <1>1, <1>2 DEF ValidDate
  <2> QED
    BY <1>1, <2>1, <2>2, <2>3, NewDate
<1>3. CASE ~(d + 1 <= GetDaysInMonth(y, m)) /\ m < 12
  <2>1. NextDay(time) = Dated(time, y, m + 1, 1)
    BY <1>1, <1>3 DEF NextDay, Structure, Dated
  <2>2. d = GetDaysInMonth(y, m) /\ m \in 1..11
    BY <1>1, <1>3, MonthLength DEF ValidDate
  <2>3. DayNumber(y, m + 1, 1) = DayNumber(y, m, d) + 1
    BY <1>1, <2>2, MonthOnMonth
  <2>4. ValidDate(y, m + 1, 1)
    BY <1>1, <1>3, MonthLength DEF ValidDate
  <2> QED
    BY <1>1, <2>1, <2>3, <2>4, NewDate
<1>4. CASE ~(d + 1 <= GetDaysInMonth(y, m)) /\ ~(m < 12)
  <2>1. m = 12 /\ GetDaysInMonth(y, m) = 31 /\ d = 31
    BY <1>1, <1>4, MonthLength DEF ValidDate
  <2>2. y < YearValues - 1 /\ 0 <= y
    BY <1>1, <2>1 DEF ValidDate
  <2>3. (y + 1) % YearValues = y + 1
    BY <1>1, <2>2, Years
  <2>4. NextDay(time) = Dated(time, y + 1, 1, 1)
    BY <1>1, <1>4, <2>3 DEF NextDay, Structure, Dated
  <2>5. DayNumber(y + 1, 1, 1) = DayNumber(y, m, d) + 1
    BY <1>1, <2>1, NewYear
  <2>6. ValidDate(y + 1, 1, 1)
    BY <1>1, <2>2, Years, MonthLength DEF ValidDate
  <2> QED
    BY <1>1, <2>4, <2>5, <2>6, NewDate
<1> QED
  BY <1>2, <1>3, <1>4

\* utcNorm_shiftNegativeByDays, down to the first day of the year 0.
LEMMA PreviousDayIsPrevious ==
  ASSUME NEW time, Valid(time),
         time.year > 0 \/ time.month > 1 \/ time.day > 1
  PROVE  /\ Valid(PreviousDay(time)) /\ SameClock(PreviousDay(time), time)
         /\ Day(PreviousDay(time)) = Day(time) - 1
<1> DEFINE y == time.year
           m == time.month
           d == time.day
<1>1. /\ ValidDate(y, m, d)
      /\ y \in Int /\ m \in Int /\ m \in 1..12 /\ d \in Int
      /\ time \in Structure
      /\ Day(time) = DayNumber(y, m, d)
  BY DEF Valid, ValidDate, Day
<1>2. CASE d > 1
  <2>1. PreviousDay(time) = Dated(time, y, m, d - 1)
    BY <1>1, <1>2 DEF PreviousDay, Structure, Dated
  <2>2. DayNumber(y, m, d) = DayNumber(y, m, d - 1) + 1
    BY <1>1, DayOnDay
  <2>3. ValidDate(y, m, d - 1)
    BY <1>1, <1>2, MonthLength DEF ValidDate
  <2>4. d - 1 \in Int
    BY <1>1
  <2>5. DayNumber(y, m, d - 1) \in Int
    BY <1>1, <2>4, DayNumberType
  <2> QED
    BY <1>1, <2>1, <2>2, <2>3, <2>5, NewDate
<1>3. CASE ~(d > 1) /\ m > 1
  <2> DEFINE last == GetDaysInMonth(y, m - 1)
  <2>1. last \in Int /\ 1 <= last
    BY MonthLength
  <2>2. PreviousDay(time) = Dated(time, y, m - 1, last)
    BY <1>1, <1>3 DEF PreviousDay, PreviousMonth, Structure, Dated
  <2>3. d = 1 /\ m - 1 \in 1..11 /\ m - 1 \in 1..12 /\ (m - 1) + 1 = m
    BY <1>1, <1>3 DEF ValidDate
  <2>4. DayNumber(y, m, d) = DayNumber(y, m - 1, last) + 1
    BY <1>1, <2>3, MonthOnMonth
  <2>5. ValidDate(y, m - 1, last)
    <3>1. y \in Int /\ 0 <= y /\ y < YearValues
      BY DEF Valid, ValidDate
    <3>2. m - 1 \in Int /\ 1 <= m - 1 /\ m - 1 <= 12
      BY <2>3
    <3>3. last <= GetDaysInMonth(y, m - 1)
      BY <2>1
    <3> QED
      BY <2>1, <3>1, <3>2, <3>3 DEF ValidDate
  <2>6. DayNumber(y, m - 1, last) \in Int
    BY <1>1, <2>1, <2>3, DayNumberType
  <2> QED
    BY <1>1, <2>2, <2>4, <2>5, <2>6, NewDate
<1>4. CASE ~(d > 1) /\ ~(m > 1)
  <2>1. m = 1 /\ d = 1 /\ 0 <= y - 1 /\ y - 1 < YearValues
    BY <1>1, <1>4, Years DEF ValidDate
  <2>2. (y - 1) % YearValues = y - 1
    BY <1>1, <2>1, Years
  <2>3. GetDaysInMonth(y - 1, 12) = 31
    BY MonthLength
  <2>4. PreviousDay(time) = Dated(time, y - 1, 12, 31)
    BY <1>1, <1>4, <2>2, <2>3 DEF PreviousDay, PreviousMonth, Structure, Dated
  <2>5. (y - 1) + 1 = y /\ y - 1 \in Int /\ 12 \in 1..12 /\ 31 \in Int
    BY <1>1
  <2>6. DayNumber(y, m, d) = DayNumber(y - 1, 12, 31) + 1
    BY <2>1, <2>5, NewYear
  <2>7. ValidDate(y - 1, 12, 31)
    BY <1>1, <2>1, <2>3 DEF ValidDate
  <2>8. DayNumber(y - 1, 12, 31) \in Int
    BY <2>5, DayNumberType
  <2> QED
    BY <1>1, <2>4, <2>6, <2>7, <2>8, NewDate
<1> QED
  BY <1>2, <1>3, <1>4

-----------------------------------------------------------------------------
(* The order of dates.                                                     *)

LEMMA YearsInOrder ==
  ASSUME NEW y \in Int, NEW z \in Int, y <= z
  PROVE  YearDays(y) <= YearDays(z)
<1>1. y \div 4 <= z \div 4 /\ y \div 400 <= z \div 400
  OBVIOUS
<1>2. z \div 100 - y \div 100 <= 1 + (z - y)
  OBVIOUS
<1>3. y = z \/ y + 1 <= z
  OBVIOUS
<1> QED
  BY <1>1, <1>2, <1>3 DEF YearDays

\* Days from the first of January to the first of a month, but for a leap day.
BeforeMonth == <<0, 31, 59, 90, 120, 151, 181, 212, 243, 273, 304, 334>>

\* The first day of the months, counted from the year's.
LEMMA MonthStart ==
  ASSUME NEW y \in Int, NEW m \in 1..12, NEW d \in Int
  PROVE  DayNumber(y, m, d) = YearDays(y - 1) + 306 + d + BeforeMonth[m]
                                + (IF m > 2 THEN LeapDay(y) ELSE 0)
<1>1. DayNumber(y, m, d) = d + MonthDays[m] + YearDays(IF m <= 2 THEN y - 1 ELSE y)
  BY DayNumberTable
<1>2. /\ YearDays(y - 1) \in Int
      /\ YearDays(y) = YearDays(y - 1) + 365 + LeapDay(y)
  BY YearOnYear
<1>3. LeapDay(y) \in Int
  BY DEF LeapDay
<1>4. m \in {1, 2} => MonthDays[m] = 306 + BeforeMonth[m] /\ BeforeMonth[m] \in Int
  BY DEF MonthDays, BeforeMonth
<1>5. m \in {3, 4, 5, 6, 7, 8, 9, 10, 11, 12} =>
        MonthDays[m] + 59 = BeforeMonth[m] /\ BeforeMonth[m] \in Int /\ MonthDays[m] \in Int
  BY DEF MonthDays, BeforeMonth
<1>6. CASE m <= 2
  <2>1. m \in {1, 2}
    BY <1>6
  <2> QED
    BY <1>1, <1>2, <1>4, <1>6, <2>1
<1>7. CASE m > 2
  <2>1. m \in {3, 4, 5, 6, 7, 8, 9, 10, 11, 12}
    BY <1>7
  <2> QED
    BY <1>1, <1>2, <1>3, <1>5, <1>7, <2>1
<1> QED
  BY <1>6, <1>7

\* A month ends before a later one begins.
LEMMA MonthsInOrder ==
  ASSUME NEW y \in Int, NEW m \in 1..12, NEW n \in 1..12, m < n
  PROVE  BeforeMonth[m] + (IF m > 2 THEN LeapDay(y) ELSE 0) + GetDaysInMonth(y, m)
           <= BeforeMonth[n] + (IF n > 2 THEN LeapDay(y) ELSE 0)
<1>1. LeapDay(y) \in Int /\ 0 <= LeapDay(y)
  BY DEF LeapDay
<1>2. m \in {1, 2, 3, 4, 5, 6, 7, 8, 9, 10, 11}
  OBVIOUS
<1>3. n \in {2, 3, 4, 5, 6, 7, 8, 9, 10, 11, 12}
  OBVIOUS
<1>4. CASE m = 1
  BY <1>1, <1>3, <1>4 DEF BeforeMonth, GetDaysInMonth
<1>5. CASE m = 2
  <2>1. GetDaysInMonth(y, m) = 28 + LeapDay(y)
    BY <1>5 DEF GetDaysInMonth, LeapDay
  <2> QED
    BY <1>1, <1>3, <1>5, <2>1 DEF BeforeMonth
<1>6. CASE m \in {3, 4, 5, 6, 7, 8, 9, 10, 11}
  <2>1. n \in {4, 5, 6, 7, 8, 9, 10, 11, 12} /\ m > 2 /\ n > 2
    BY <1>3, <1>6
  <2>2. GetDaysInMonth(y, m) = IF m \in {4, 6, 9, 11} THEN 30 ELSE 31
    BY <1>6 DEF GetDaysInMonth
  <2>3. BeforeMonth[m] + GetDaysInMonth(y, m) <= BeforeMonth[n]
    BY <1>6, <2>1, <2>2 DEF BeforeMonth
  <2>4. BeforeMonth[m] \in Int /\ BeforeMonth[n] \in Int /\ GetDaysInMonth(y, m) \in Int
    BY <1>6, <2>1, MonthLength DEF BeforeMonth
  <2> QED
    BY <1>1, <2>1, <2>3, <2>4
<1> QED
  BY <1>2, <1>4, <1>5, <1>6

\* A year lasts from its first of January to its 31st of December.
LEMMA WithinTheYear ==
  ASSUME NEW y, NEW m, NEW d, ValidDate(y, m, d)
  PROVE  /\ DayNumber(y, m, d) \in Int
         /\ DayNumber(y, 1, 1) \in Int /\ DayNumber(y, 12, 31) \in Int
         /\ DayNumber(y, 1, 1) <= DayNumber(y, m, d)
         /\ DayNumber(y, m, d) <= DayNumber(y, 12, 31)
         /\ DayNumber(y, 1, 1) + 364 <= DayNumber(y, 12, 31)
<1> DEFINE leap(n) == IF n > 2 THEN LeapDay(y) ELSE 0
           first   == YearDays(y - 1) + 306
<1>1. /\ y \in Int /\ m \in 1..12 /\ d \in Int /\ 1 <= d /\ d <= GetDaysInMonth(y, m)
      /\ 1 \in 1..12 /\ 12 \in 1..12 /\ 1 \in Int /\ 31 \in Int
  BY DEF ValidDate
<1>2. YearDays(y - 1) \in Int /\ LeapDay(y) \in Int /\ 0 <= LeapDay(y)
  BY <1>1, YearOnYear DEF LeapDay
<1>3. /\ BeforeMonth[m] \in Int /\ 0 <= BeforeMonth[m]
      /\ BeforeMonth[1] = 0 /\ BeforeMonth[12] = 334
  BY <1>1 DEF BeforeMonth
<1>4. /\ DayNumber(y, m, d) = first + d + BeforeMonth[m] + leap(m)
      /\ DayNumber(y, 1, 1) = first + 1
      /\ DayNumber(y, 12, 31) = first + 31 + 334 + LeapDay(y)
  <2>1. DayNumber(y, m, d) = first + d + BeforeMonth[m] + leap(m)
    BY <1>1, MonthStart
  <2>2. DayNumber(y, 1, 1) = first + 1 + BeforeMonth[1] + 0
    BY <1>1, MonthStart
  <2>3. DayNumber(y, 12, 31) = first + 31 + BeforeMonth[12] + LeapDay(y)
    BY <1>1, MonthStart
  <2> QED
    BY <1>2, <1>3, <2>1, <2>2, <2>3
<1>5. leap(m) \in Int /\ 0 <= leap(m)
  BY <1>2
<1>6. d + BeforeMonth[m] + leap(m) <= 31 + 334 + LeapDay(y)
  <2>1. CASE m = 12
    BY <1>1, <1>2, <1>3, <2>1, MonthLength
  <2>2. CASE m < 12
    <3>1. GetDaysInMonth(y, m) \in Int
      BY MonthLength
    <3>2. BeforeMonth[m] + leap(m) + GetDaysInMonth(y, m) <= BeforeMonth[12] + LeapDay(y)
      BY <1>1, <2>2, MonthsInOrder
    <3> QED
      BY <1>1, <1>2, <1>3, <1>5, <3>1, <3>2
  <2> QED
    BY <1>1, <2>1, <2>2
<1> QED
  BY <1>1, <1>2, <1>3, <1>4, <1>5, <1>6

LEMMA YearAfterYear ==
  ASSUME NEW y \in Int, NEW z \in Int, y < z
  PROVE  DayNumber(y, 12, 31) < DayNumber(z, 1, 1)
<1>1. DayNumber(y, 12, 31) = 31 + 275 + YearDays(y)
  BY DayNumberTable DEF MonthDays
<1>2. DayNumber(z, 1, 1) = 1 + 306 + YearDays(z - 1)
  BY DayNumberTable DEF MonthDays
<1>3. YearDays(y) \in Int /\ YearDays(z - 1) \in Int /\ YearDays(y) <= YearDays(z - 1)
  BY YearOnYear, YearsInOrder
<1> QED
  BY <1>1, <1>2, <1>3

\* The closed formula orders dates as year, month and day do.
LEMMA DatesInOrder ==
  ASSUME NEW y, NEW m, NEW d, ValidDate(y, m, d),
         NEW z, NEW n, NEW e, ValidDate(z, n, e),
         \/ y < z
         \/ y = z /\ m < n
         \/ y = z /\ m = n /\ d < e
  PROVE  DayNumber(y, m, d) < DayNumber(z, n, e)
<1>1. /\ y \in Int /\ m \in 1..12 /\ d \in Int /\ 1 <= d /\ d <= GetDaysInMonth(y, m)
      /\ z \in Int /\ n \in 1..12 /\ e \in Int /\ 1 <= e
  BY DEF ValidDate
<1>2. CASE y < z
  BY <1>1, <1>2, WithinTheYear, YearAfterYear
<1>3. CASE y = z /\ m < n
  <2>1. /\ DayNumber(y, m, d) = YearDays(y - 1) + 306 + d + BeforeMonth[m]
                                  + (IF m > 2 THEN LeapDay(y) ELSE 0)
        /\ DayNumber(y, n, e) = YearDays(y - 1) + 306 + e + BeforeMonth[n]
                                  + (IF n > 2 THEN LeapDay(y) ELSE 0)
    BY <1>1, MonthStart
  <2>2. BeforeMonth[m] + (IF m > 2 THEN LeapDay(y) ELSE 0) + GetDaysInMonth(y, m)
          <= BeforeMonth[n] + (IF n > 2 THEN LeapDay(y) ELSE 0)
    BY <1>1, <1>3, MonthsInOrder
  <2>3. /\ YearDays(y - 1) \in Int /\ LeapDay(y) \in Int
        /\ BeforeMonth[m] \in Int /\ BeforeMonth[n] \in Int
        /\ GetDaysInMonth(y, m) \in Int
    BY <1>1, YearOnYear, MonthLength DEF LeapDay, BeforeMonth
  <2> QED
    BY <1>1, <1>3, <2>1, <2>2, <2>3
<1>4. CASE y = z /\ m = n /\ d < e
  <2>1. PICK before \in Int : \A c \in Int : DayNumber(y, m, c) = before + c
    BY <1>1, SameMonth
  <2>2. DayNumber(y, m, d) = before + d /\ DayNumber(y, m, e) = before + e
    BY <1>1, <2>1
  <2> QED
    BY <1>1, <1>4, <2>2
<1> QED
  BY <1>2, <1>3, <1>4

-----------------------------------------------------------------------------
(* The comparison.                                                         *)

\* Later, on the four parts of an instant.
LEMMA LaterInstant ==
  ASSUME NEW a, NEW b, Len(a) = 4
  PROVE  Later(a, b) <=>
           \/ a[1] > b[1]
           \/ a[1] = b[1] /\ a[2] > b[2]
           \/ a[1] = b[1] /\ a[2] = b[2] /\ a[3] > b[3]
           \/ a[1] = b[1] /\ a[2] = b[2] /\ a[3] = b[3] /\ a[4] > b[4]
<1> DEFINE at(i) == a[i] > b[i] /\ \A j \in 1..i - 1 : a[j] = b[j]
<1>1. Later(a, b) <=> at(1) \/ at(2) \/ at(3) \/ at(4)
  <2>1. \A i : i \in 1..4 <=> i \in {1, 2, 3, 4}
    OBVIOUS
  <2>2. Later(a, b) <=> \E i \in {1, 2, 3, 4} : at(i)
    BY <2>1 DEF Later
  <2> QED
    BY <2>2
<1>2. at(1) <=> a[1] > b[1] /\ \A j \in {} : a[j] = b[j]
  OBVIOUS
<1>3. at(2) <=> a[2] > b[2] /\ \A j \in {1} : a[j] = b[j]
  OBVIOUS
<1>4. at(3) <=> a[3] > b[3] /\ \A j \in {1, 2} : a[j] = b[j]
  OBVIOUS
<1>5. at(4) <=> a[4] > b[4] /\ \A j \in {1, 2, 3} : a[j] = b[j]
  OBVIOUS
<1> HIDE DEF at
<1> QED
  BY <1>1, <1>2, <1>3, <1>4, <1>5

\* ... and on the seven fields of a structure.
LEMMA LaterFields ==
  ASSUME NEW a, NEW b, Len(a) = 7
  PROVE  Later(a, b) <=>
           \/ a[1] > b[1]
           \/ a[1] = b[1] /\ a[2] > b[2]
           \/ a[1] = b[1] /\ a[2] = b[2] /\ a[3] > b[3]
           \/ a[1] = b[1] /\ a[2] = b[2] /\ a[3] = b[3] /\ a[4] > b[4]
           \/ /\ a[1] = b[1] /\ a[2] = b[2] /\ a[3] = b[3] /\ a[4] = b[4]
              /\ a[5] > b[5]
           \/ /\ a[1] = b[1] /\ a[2] = b[2] /\ a[3] = b[3] /\ a[4] = b[4] /\ a[5] = b[5]
              /\ a[6] > b[6]
           \/ /\ a[1] = b[1] /\ a[2] = b[2] /\ a[3] = b[3] /\ a[4] = b[4] /\ a[5] = b[5] /\ a[6] = b[6]
              /\ a[7] > b[7]
<1> DEFINE at(i) == a[i] > b[i] /\ \A j \in 1..i - 1 : a[j] = b[j]
<1>1. Later(a, b) <=> at(1) \/ at(2) \/ at(3) \/ at(4) \/ at(5) \/ at(6) \/ at(7)
  <2>1. \A i : i \in 1..7 <=> i \in {1, 2, 3, 4, 5, 6, 7}
    OBVIOUS
  <2>2. Later(a, b) <=> \E i \in {1, 2, 3, 4, 5, 6, 7} : at(i)
    BY <2>1 DEF Later
  <2> QED
    BY <2>2
<1>2. at(1) <=> a[1] > b[1] /\ \A j \in {} : a[j] = b[j]
  OBVIOUS
<1>3. at(2) <=> a[2] > b[2] /\ \A j \in {1} : a[j] = b[j]
  OBVIOUS
<1>4. at(3) <=> a[3] > b[3] /\ \A j \in {1, 2} : a[j] = b[j]
  OBVIOUS
<1>5. at(4) <=> a[4] > b[4] /\ \A j \in {1, 2, 3} : a[j] = b[j]
  OBVIOUS
<1>6. at(5) <=> a[5] > b[5] /\ \A j \in {1, 2, 3, 4} : a[j] = b[j]
  OBVIOUS
<1>7. at(6) <=> a[6] > b[6] /\ \A j \in {1, 2, 3, 4, 5} : a[j] = b[j]
  OBVIOUS
<1>8. at(7) <=> a[7] > b[7] /\ \A j \in {1, 2, 3, 4, 5, 6} : a[j] = b[j]
  OBVIOUS
<1> HIDE DEF at
<1> QED
  BY <1>1, <1>2, <1>3, <1>4, <1>5, <1>6, <1>7, <1>8

Minute(time) == time.hour * 60 + time.minute

\* The instant of a time in Greenwich.
Parts(time) == <<Day(time), Minute(time), time.second, time.microseconds>>

\* Two valid times in one zone: the first field that differs decides as the
\* instants do.
LEMMA FirstDifference ==
  ASSUME NEW time, Valid(time), NEW other, Valid(other)
  PROVE  Later(Fields(time), Fields(other)) <=>
           Later(Parts(time), Parts(other))
<1> DEFINE y == time.year   m == time.month   d == time.day   h == time.hour
           z == other.year  n == other.month  e == other.day  g == other.hour
<1>1. /\ ValidDate(y, m, d) /\ ValidDate(z, n, e)
      /\ y \in Int /\ m \in Int /\ d \in Int /\ z \in Int /\ n \in Int /\ e \in Int
      /\ Day(time) = DayNumber(y, m, d) /\ Day(other) = DayNumber(z, n, e)
  BY DEF Valid, ValidDate, Day
<1>2. /\ h \in Int /\ time.minute \in Int /\ time.second \in Int /\ time.microseconds \in Int
      /\ g \in Int /\ other.minute \in Int /\ other.second \in Int
      /\ other.microseconds \in Int
  BY DEF Valid, Structure
<1>3. /\ 0 <= time.minute /\ time.minute <= 59 /\ 0 <= other.minute /\ other.minute <= 59
  BY DEF Valid, ValidClock
<1>4. Day(time) \in Int /\ Day(other) \in Int
  BY DayType
<1>5. Minute(time) \in Int /\ Minute(other) \in Int
  BY <1>2 DEF Minute
<1>6. /\ Minute(time) > Minute(other) <=>
           h > g \/ (h = g /\ time.minute > other.minute)
      /\ Minute(time) = Minute(other) <=> h = g /\ time.minute = other.minute
  BY <1>2, <1>3 DEF Minute
<1>7. Day(time) > Day(other) <=>
        y > z \/ (y = z /\ m > n) \/ (y = z /\ m = n /\ d > e)
  <2>1. ASSUME y > z \/ (y = z /\ m > n) \/ (y = z /\ m = n /\ d > e)
        PROVE  Day(time) > Day(other)
    <3>1. DayNumber(z, n, e) < DayNumber(y, m, d)
      <4>1. z < y \/ (z = y /\ n < m) \/ (z = y /\ n = m /\ e < d)
        BY <1>1, <2>1
      <4> QED
        BY <1>1, <4>1, DatesInOrder
    <3> QED
      BY <1>1, <1>4, <3>1
  <2>2. ASSUME y < z \/ (y = z /\ m < n) \/ (y = z /\ m = n /\ d < e)
        PROVE  Day(time) < Day(other)
    BY <1>1, <2>2, DatesInOrder
  <2>3. y = z /\ m = n /\ d = e => Day(time) = Day(other)
    BY <1>1
  <2>4. \/ y > z \/ (y = z /\ m > n) \/ (y = z /\ m = n /\ d > e)
        \/ y < z \/ (y = z /\ m < n) \/ (y = z /\ m = n /\ d < e)
        \/ y = z /\ m = n /\ d = e
    BY <1>1
  <2> QED
    BY <1>4, <2>1, <2>2, <2>3, <2>4
<1>8. Day(time) = Day(other) <=> y = z /\ m = n /\ d = e
  <2>1. y < z \/ (y = z /\ m < n) \/ (y = z /\ m = n /\ d < e) => Day(time) < Day(other)
    BY <1>1, DatesInOrder
  <2>2. \/ y > z \/ (y = z /\ m > n) \/ (y = z /\ m = n /\ d > e)
        \/ y < z \/ (y = z /\ m < n) \/ (y = z /\ m = n /\ d < e)
        \/ y = z /\ m = n /\ d = e
    BY <1>1
  <2>3. y = z /\ m = n /\ d = e => Day(time) = Day(other)
    BY <1>1
  <2> QED
    BY <1>4, <1>7, <2>1, <2>2, <2>3
<1>9. Later(Fields(time), Fields(other)) <=>
           \/ y > z
           \/ y = z /\ m > n
           \/ y = z /\ m = n /\ d > e
           \/ y = z /\ m = n /\ d = e /\ h > g
           \/ y = z /\ m = n /\ d = e /\ h = g /\ time.minute > other.minute
           \/ /\ y = z /\ m = n /\ d = e /\ h = g /\ time.minute = other.minute
              /\ time.second > other.second
           \/ /\ y = z /\ m = n /\ d = e /\ h = g /\ time.minute = other.minute
              /\ time.second = other.second /\ time.microseconds > other.microseconds
  <2>1. Len(Fields(time)) = 7
    BY DEF Fields
  <2>2. /\ Fields(time)[1] = y /\ Fields(time)[2] = m /\ Fields(time)[3] = d
        /\ Fields(time)[4] = h /\ Fields(time)[5] = time.minute
        /\ Fields(time)[6] = time.second /\ Fields(time)[7] = time.microseconds
    BY DEF Fields
  <2>3. /\ Fields(other)[1] = z /\ Fields(other)[2] = n /\ Fields(other)[3] = e
        /\ Fields(other)[4] = g /\ Fields(other)[5] = other.minute
        /\ Fields(other)[6] = other.second /\ Fields(other)[7] = other.microseconds
    BY DEF Fields
  <2> QED
    BY <2>1, <2>2, <2>3, LaterFields
<1>10. Later(Parts(time), Parts(other)) <=>
           \/ Day(time) > Day(other)
           \/ Day(time) = Day(other) /\ Minute(time) > Minute(other)
           \/ /\ Day(time) = Day(other) /\ Minute(time) = Minute(other)
              /\ time.second > other.second
           \/ /\ Day(time) = Day(other) /\ Minute(time) = Minute(other)
              /\ time.second = other.second /\ time.microseconds > other.microseconds
  <2>1. Len(Parts(time)) = 4
    BY DEF Parts
  <2>2. /\ Parts(time)[1] = Day(time) /\ Parts(time)[2] = Minute(time)
        /\ Parts(time)[3] = time.second /\ Parts(time)[4] = time.microseconds
    BY DEF Parts
  <2>3. /\ Parts(other)[1] = Day(other) /\ Parts(other)[2] = Minute(other)
        /\ Parts(other)[3] = other.second /\ Parts(other)[4] = other.microseconds
    BY DEF Parts
  <2> QED
    BY <2>1, <2>2, <2>3, LaterInstant
<1> QED
  BY <1>6, <1>7, <1>8, <1>9, <1>10

-----------------------------------------------------------------------------
(* Totals.                                                                 *)

\* The minutes a time amounts to.
Total(time) == 1440 * Day(time) + Minute(time) - OffsetMinutes(time.zone)

\* The day and the minute of a number of minutes.
Split(minutes) == <<minutes \div 1440, minutes % 1440>>

\* A day more is 1440 minutes less.
LEMMA SameTotal ==
  ASSUME NEW d \in Int, NEW m \in Int
  PROVE  DayAndMinute(d, m) = Split(1440 * d + m)
<1>1. d + m \div 1440 = (1440 * d + m) \div 1440
  OBVIOUS
<1>2. m % 1440 = (1440 * d + m) % 1440
  OBVIOUS
<1> QED
  BY <1>1, <1>2 DEF DayAndMinute, Split

LEMMA MinuteOfDay ==
  ASSUME NEW time, Valid(time)
  PROVE  Minute(time) \in Int /\ 0 <= Minute(time) /\ Minute(time) <= 1439
<1>1. time.hour \in Int /\ time.minute \in Int
  BY DEF Valid, Structure
<1>2. 0 <= time.hour /\ time.hour <= 23 /\ 0 <= time.minute /\ time.minute <= 59
  BY DEF Valid, ValidClock
<1> QED
  BY <1>1, <1>2 DEF Minute

LEMMA OffsetType ==
  ASSUME NEW time, Valid(time)
  PROVE  OffsetMinutes(time.zone) \in Int
<1>1. time.zone.hrs \in Int /\ time.zone.mins \in Int
  BY DEF Valid, Structure
<1> QED
  BY <1>1 DEF OffsetMinutes

LEMMA Greenwich ==
  OffsetMinutes(Zone("Z", 0, 0)) = 0
BY DEF OffsetMinutes, Zone

LEMMA Joined ==
  ASSUME NEW a \in Int, NEW b \in Int, NEW c \in Int, NEW d \in Int
  PROVE  <<a, b>> \o <<c, d>> = <<a, b, c, d>>
<1> DEFINE x == <<a, b>>
           y == <<c, d>>
           z == <<a, b, c, d>>
<1>1. x \in Seq(Int) /\ y \in Seq(Int) /\ Len(x) = 2 /\ Len(y) = 2
  OBVIOUS
<1>2. x[1] = a /\ x[2] = b /\ y[1] = c /\ y[2] = d
  OBVIOUS
<1>3. z \in Seq(Int) /\ Len(z) = 4
  OBVIOUS
<1>4. z[1] = a /\ z[2] = b /\ z[3] = c /\ z[4] = d
  OBVIOUS
<1> HIDE DEF x, y, z
<1>5. /\ x \o y \in Seq(Int) /\ Len(x \o y) = 4
      /\ \A i \in 1..4 : (x \o y)[i] = IF i <= 2 THEN x[i] ELSE y[i - 2]
  <2>1. /\ x \o y \in Seq(Int) /\ Len(x \o y) = Len(x) + Len(y)
        /\ \A i \in 1..Len(x) + Len(y) :
             (x \o y)[i] = IF i <= Len(x) THEN x[i] ELSE y[i - Len(x)]
    BY <1>1, ConcatProperties, Zenon
  <2> QED
    BY <1>1, <2>1
<1>6. (x \o y)[1] = x[1] /\ (x \o y)[2] = x[2] /\ (x \o y)[3] = y[1] /\ (x \o y)[4] = y[2]
  BY <1>5, SMTT(60)
<1>7. \A i \in 1..4 : (x \o y)[i] = z[i]
  <2>1. \A i \in 1..4 : i \in {1, 2, 3, 4}
    OBVIOUS
  <2> QED
    BY <1>2, <1>4, <1>6, <2>1
<1>8. x \o y = z
  BY <1>3, <1>5, <1>7, SeqEqual
<1> QED
  BY <1>8 DEF x, y, z

LEMMA InstantOf ==
  ASSUME NEW time, Valid(time)
  PROVE  Instant(time) =
           DayAndMinute(Day(time), Minute(time) - OffsetMinutes(time.zone))
             \o <<time.second, time.microseconds>>
<1>1. time.hour \in Int /\ time.minute \in Int /\ OffsetMinutes(time.zone) \in Int
  BY OffsetType DEF Valid, Structure
<1>2. time.hour * 60 + time.minute - OffsetMinutes(time.zone)
        = Minute(time) - OffsetMinutes(time.zone)
  BY <1>1 DEF Minute
<1> QED
  BY <1>2 DEF Instant, Day

\* The instant of a time in Greenwich is its date, its minute and the rest.
LEMMA InstantInGreenwich ==
  ASSUME NEW time, Valid(time), time.zone = Zone("Z", 0, 0)
  PROVE  Instant(time) = Parts(time)
<1>1. /\ Minute(time) \in Int /\ 0 <= Minute(time) /\ Minute(time) <= 1439
      /\ Day(time) \in Int
  BY MinuteOfDay, DayType
<1>2. time.hour * 60 + time.minute - OffsetMinutes(time.zone) = Minute(time)
  <2>1. time.hour \in Int /\ time.minute \in Int
    BY DEF Valid, Structure
  <2> QED
    BY <2>1, Greenwich DEF Minute
<1>3. DayAndMinute(Day(time), Minute(time)) = <<Day(time), Minute(time)>>
  <2>1. Minute(time) \div 1440 = 0 /\ Minute(time) % 1440 = Minute(time)
    BY <1>1
  <2>2. Day(time) + Minute(time) \div 1440 = Day(time)
    BY <1>1, <2>1
  <2> QED
    BY <2>1, <2>2 DEF DayAndMinute
<1>4. Instant(time) = <<Day(time), Minute(time)>> \o <<time.second, time.microseconds>>
  BY <1>2, <1>3 DEF Instant, Day
<1>5. time.second \in Int /\ time.microseconds \in Int
  BY DEF Valid, Structure
<1> QED
  BY <1>1, <1>4, <1>5, Joined DEF Parts

-----------------------------------------------------------------------------
(* What the loops keep.                                                    *)

\* The caller's times: no zone is eleven days away, and the years are not the
\* two outermost ones that a uint16_t holds, from which a zone may lead to a
\* year that it does not hold.
InsideTheYears ==
  \A time \in Times : 1 <= time.year /\ time.year < YearValues - 1

\* The offset of a zone in bounds.
Near(offset) == offset \in Int /\ -15840 < offset /\ offset < 15840

\* A time that can be normalised.
Given(time) ==
  /\ Valid(time) /\ Near(OffsetMinutes(time.zone))
  /\ time.zone.sign = "Z" => time.zone = Zone("Z", 0, 0)
  /\ 1 <= time.year /\ time.year < YearValues - 1

LEMMA TimesAreValid ==
  ASSUME NEW time \in Times
  PROVE  /\ Valid(time)
         /\ Near(OffsetMinutes(time.zone))
         /\ time.zone.sign = "Z" => time.zone = Zone("Z", 0, 0)
<1>1. /\ time \in [year : 0..YearValues - 1, month : 1..12, day : 1..31,
                   hour : 0..23, minute : 0..59, second : 0..59,
                   microseconds : 0..MaxMicroseconds,
                   zone : [sign : {"Z", "+", "-"},
                           hrs : 0..ZoneValues - 1, mins : 0..ZoneValues - 1]]
      /\ IsValidDate(time.year, time.month, time.day)
      /\ time.zone.sign = "Z" => time.zone = Zone("Z", 0, 0)
  BY TimesAssumption
<1>2. /\ YearValues \in Int /\ ZoneValues \in Int /\ MaxMicroseconds \in Int
      /\ ZoneValues = 256
  BY DEF YearValues, ZoneValues, MaxMicroseconds
<1>3. /\ time.year \in Int /\ 0 <= time.year /\ time.year < YearValues
      /\ time.microseconds \in Int
      /\ 0 <= time.microseconds /\ time.microseconds <= MaxMicroseconds
      /\ time.month \in Int /\ 1 <= time.month /\ time.month <= 12
      /\ time.day \in Int
  BY <1>1, <1>2
<1>4. /\ time.hour \in Int /\ 0 <= time.hour /\ time.hour <= 23
      /\ time.minute \in Int /\ 0 <= time.minute /\ time.minute <= 59
      /\ time.second \in Int /\ 0 <= time.second /\ time.second <= 59
  BY <1>1
<1>5. /\ time.zone \in [sign : {"Z", "+", "-"}, hrs : Int, mins : Int]
      /\ time.zone.hrs \in Int /\ 0 <= time.zone.hrs /\ time.zone.hrs < ZoneValues
      /\ time.zone.mins \in Int /\ 0 <= time.zone.mins /\ time.zone.mins < ZoneValues
  BY <1>1, <1>2
<1>6. time \in Structure
  BY <1>1, <1>3, <1>4, <1>5 DEF Structure
<1>7. 1 <= time.day /\ time.day <= GetDaysInMonth(time.year, time.month)
  BY <1>1, MonthLength DEF IsValidDate
<1>8. Valid(time)
  BY <1>3, <1>4, <1>6, <1>7 DEF Valid, ValidDate, ValidClock
<1>9. Near(OffsetMinutes(time.zone))
  BY <1>2, <1>5 DEF Near, OffsetMinutes
<1> QED
  BY <1>1, <1>8, <1>9

\* While there are days to add, the copy has not reached the end of the years.
LEMMA RoomAbove ==
  ASSUME NEW time, Valid(time), NEW given, Valid(given),
         given.year < YearValues - 1, Near(OffsetMinutes(given.zone)),
         NEW k \in Int, k > 0, NEW minutes \in Int, 0 <= minutes,
         1440 * (Day(time) + k) + minutes = Total(given)
  PROVE  time.year < YearValues - 1 \/ time.month < 12 \/ time.day < 31
<1>1. SUFFICES ASSUME ~(time.year < YearValues - 1), ~(time.month < 12), ~(time.day < 31)
               PROVE  FALSE
  OBVIOUS
<1>2. ValidDate(time.year, time.month, time.day) /\ ValidDate(given.year, given.month, given.day)
  BY DEF Valid
<1>3. time.month = 12 /\ time.day = 31
  BY <1>1, <1>2, MonthLength DEF ValidDate
<1>4. time.year \in Int /\ given.year \in Int /\ given.year < time.year
  BY <1>1, <1>2, Years DEF ValidDate
<1>5. /\ DayNumber(given.year, 12, 31) < DayNumber(time.year, 1, 1)
      /\ DayNumber(time.year, 1, 1) + 364 <= DayNumber(time.year, 12, 31)
      /\ DayNumber(given.year, given.month, given.day) <= DayNumber(given.year, 12, 31)
      /\ DayNumber(given.year, 12, 31) \in Int
      /\ DayNumber(time.year, 1, 1) \in Int /\ DayNumber(time.year, 12, 31) \in Int
  BY <1>2, <1>4, YearAfterYear, WithinTheYear
<1>6. Day(given) + 364 < Day(time) /\ Day(given) \in Int /\ Day(time) \in Int
  BY <1>3, <1>5, DayType DEF Day
<1>7. Minute(given) \in Int /\ Minute(given) <= 1439
  BY MinuteOfDay
<1> QED
  BY <1>6, <1>7 DEF Total, Near

\* ... nor, while there are days to take away, their beginning.
LEMMA RoomBelow ==
  ASSUME NEW time, Valid(time), NEW given, Valid(given),
         1 <= given.year, Near(OffsetMinutes(given.zone)),
         NEW k \in Int, k < 0, NEW minutes \in Int, minutes <= 1439,
         1440 * (Day(time) + k) + minutes = Total(given)
  PROVE  time.year > 0 \/ time.month > 1 \/ time.day > 1
<1>1. SUFFICES ASSUME ~(time.year > 0), ~(time.month > 1), ~(time.day > 1)
               PROVE  FALSE
  OBVIOUS
<1>2. ValidDate(time.year, time.month, time.day) /\ ValidDate(given.year, given.month, given.day)
  BY DEF Valid
<1>3. time.month = 1 /\ time.day = 1
  BY <1>1, <1>2 DEF ValidDate
<1>4. time.year \in Int /\ given.year \in Int /\ time.year < given.year
  BY <1>1, <1>2 DEF ValidDate
<1>5. /\ DayNumber(time.year, 12, 31) < DayNumber(given.year, 1, 1)
      /\ DayNumber(time.year, 1, 1) + 364 <= DayNumber(time.year, 12, 31)
      /\ DayNumber(given.year, 1, 1) <= DayNumber(given.year, given.month, given.day)
      /\ DayNumber(given.year, 1, 1) \in Int
      /\ DayNumber(time.year, 1, 1) \in Int /\ DayNumber(time.year, 12, 31) \in Int
  BY <1>2, <1>4, YearAfterYear, WithinTheYear
<1>6. Day(time) + 364 < Day(given) /\ Day(given) \in Int /\ Day(time) \in Int
  BY <1>3, <1>5, DayType DEF Day
<1>7. Minute(given) \in Int /\ 0 <= Minute(given)
  BY MinuteOfDay
<1> QED
  BY <1>6, <1>7 DEF Total, Near

-----------------------------------------------------------------------------
(* The invariant.                                                          *)

Copies == {1, 2}

TypeInv ==
  /\ pc \in {"normalise", "minutes", "days", "normalised", "compared"}
  /\ ix \in Copies
  /\ \A i \in Copies : Given(arg[i])
  /\ utc_time \in [Copies -> Structure]
  /\ \A i \in Copies : Valid(utc_time[i])
  /\ total_minutes \in Int /\ day_delta \in Int

\* What the copy holds, and the days and minutes still to add, make up the
\* caller's time.
Carried(i, days, minutes) ==
  /\ 1440 * (Day(utc_time[i]) + days) + minutes = Total(arg[i])
  /\ utc_time[i].second = arg[i].second
  /\ utc_time[i].microseconds = arg[i].microseconds

\* Copy i is done.
Normalised(i) ==
  /\ utc_time[i].zone = Zone("Z", 0, 0)
  /\ Carried(i, 0, Minute(utc_time[i]))

UntouchedInv ==
  /\ ix = 1 => utc_time[2] = arg[2]
  /\ pc = "normalise" => utc_time[ix] = arg[ix]

DoneInv ==
  /\ ix = 2 => Normalised(1)
  /\ pc \in {"normalised", "compared"} => Normalised(ix)

LoopInv ==
  /\ pc = "minutes" => Carried(ix, day_delta, total_minutes)
  /\ pc = "days" => Carried(ix, day_delta, Minute(utc_time[ix]))

DecidedInv ==
  pc = "compared" =>
    ix = 2 /\ (is_greater <=> Later(Fields(utc_time[1]), Fields(utc_time[2])))

CarryInv == TypeInv /\ UntouchedInv /\ DoneInv /\ LoopInv /\ DecidedInv

\* Two times about to be compared.
Begins ==
  /\ \A i \in Copies : Given(arg[i])
  /\ arg = [i \in Copies |-> arg[i]] /\ utc_time = arg
  /\ ix = 1 /\ pc = "normalise" /\ total_minutes \in Int /\ day_delta \in Int

LEMMA CarryBegins == Begins => CarryInv
<1> SUFFICES ASSUME Begins PROVE CarryInv
  OBVIOUS
<1> USE DEF Begins
<1>1. \A i \in Copies : Valid(arg[i]) /\ arg[i] \in Structure
  BY DEF Given, Valid
<1>2. utc_time \in [Copies -> Structure]
  BY <1>1
<1>3. TypeInv
  BY <1>1, <1>2 DEF TypeInv, Copies
<1>4. UntouchedInv
  BY DEF UntouchedInv
<1> QED
  BY <1>3, <1>4 DEF CarryInv, DoneInv, LoopInv, DecidedInv

LEMMA CarryInit ==
  InsideTheYears /\ TimeInit => CarryInv
<1> SUFFICES ASSUME InsideTheYears, TimeInit PROVE CarryInv
  OBVIOUS
<1>1. PICK pair \in [1..2 -> Times] : Compare(pair)
  BY DEF TimeInit
<1>2. 1..2 = Copies
  BY DEF Copies
<1>3. /\ arg \in [Copies -> Times] /\ utc_time = arg
      /\ ix = 1 /\ pc = "normalise" /\ total_minutes = 0 /\ day_delta = 0
  BY <1>1, <1>2 DEF Compare
<1>4. \A i \in Copies : arg[i] \in Times
  BY <1>3
<1>5. \A i \in Copies : Given(arg[i])
  BY <1>4, TimesAreValid DEF InsideTheYears, Given
<1> QED
  BY <1>3, <1>5, CarryBegins DEF Begins

\* A step that gives the copy being normalised another value keeps the types
\* and the other copy.
LEMMA UpdateKeeps ==
  ASSUME CarryInv, NEW time, Valid(time), Update(time), UNCHANGED <<arg, ix>>,
         pc' \in {"minutes", "days", "normalised"},
         total_minutes' \in Int, day_delta' \in Int
  PROVE  /\ TypeInv' /\ UntouchedInv' /\ DecidedInv'
         /\ ix = 2 => Normalised(1)'
         /\ utc_time'[ix] = time /\ arg'[ix] = arg[ix]
<1>1. /\ ix \in Copies /\ utc_time \in [Copies -> Structure]
      /\ \A i \in Copies : Valid(utc_time[i])
  BY DEF CarryInv, TypeInv
<1>2. time \in Structure
  BY DEF Valid
<1>3. /\ utc_time' \in [Copies -> Structure]
      /\ utc_time'[ix] = time
      /\ \A i \in Copies : i # ix => utc_time'[i] = utc_time[i]
  BY <1>1, <1>2 DEF Update
<1>4. TypeInv'
  <2>1. \A i \in Copies : Valid(utc_time'[i])
    BY <1>1, <1>3
  <2>2. pc' \in {"normalise", "minutes", "days", "normalised", "compared"}
    OBVIOUS
  <2>3. ix' \in Copies /\ \A i \in Copies : Given(arg'[i])
    BY <1>1 DEF CarryInv, TypeInv
  <2> QED
    BY <1>3, <2>1, <2>2, <2>3 DEF TypeInv
<1>5. ix = 1 => utc_time'[2] = arg'[2]
  BY <1>3 DEF CarryInv, UntouchedInv, Copies
<1>6. UntouchedInv' /\ DecidedInv'
  BY <1>5 DEF UntouchedInv, DecidedInv
<1>7. ASSUME ix = 2
      PROVE  Normalised(1)'
  <2>1. Normalised(1)
    BY <1>7 DEF CarryInv, DoneInv
  <2>2. utc_time'[1] = utc_time[1] /\ arg' = arg
    BY <1>3, <1>7 DEF Copies
  <2> QED
    BY <2>1, <2>2 DEF Normalised, Carried
<1> QED
  BY <1>3, <1>4, <1>6, <1>7

\* The minutes of a day, in hours and minutes.
LEMMA HourAndMinute ==
  ASSUME NEW m \in Int, 0 <= m, m <= 1439
  PROVE  /\ m \div 60 \in Int /\ m % 60 \in Int
         /\ 0 <= m \div 60 /\ m \div 60 <= 23
         /\ 0 <= m % 60 /\ m % 60 <= 59
         /\ (m \div 60) * 60 + (m % 60) = m
OBVIOUS

LEMMA CarryStep ==
  ASSUME CarryInv, [TimeStep]_timeVars
  PROVE  CarryInv'
<1> DEFINE time  == utc_time[ix]
           given == arg[ix]
<1>1. /\ ix \in Copies /\ utc_time \in [Copies -> Structure]
      /\ total_minutes \in Int /\ day_delta \in Int
      /\ Valid(time) /\ Given(given)
  BY DEF CarryInv, TypeInv
<1>2. /\ Valid(given) /\ Near(OffsetMinutes(given.zone))
      /\ given.zone.sign = "Z" => given.zone = Zone("Z", 0, 0)
      /\ 1 <= given.year /\ given.year < YearValues - 1
  BY <1>1 DEF Given
<1>3. Day(time) \in Int /\ Minute(time) \in Int
  BY <1>1, DayType, MinuteOfDay
<1>4. OffsetMinutes(given.zone) \in Int
  BY <1>2 DEF Near
<1> HIDE DEF time, given
<1>5. ASSUME AlreadyZ
      PROVE  CarryInv'
  <2>1. /\ pc = "normalise" /\ pc' = "normalised"
        /\ utc_time[ix].zone.sign = "Z"
        /\ UNCHANGED <<arg, utc_time, ix, total_minutes, day_delta, is_greater>>
    BY <1>5 DEF AlreadyZ, Goto, locals
  <2>2. TypeInv' /\ UntouchedInv' /\ LoopInv' /\ DecidedInv'
    BY <2>1 DEF CarryInv, TypeInv, UntouchedInv, LoopInv, DecidedInv
  <2>3. time = given
    BY <2>1 DEF CarryInv, UntouchedInv, time, given
  <2>4. time.zone = Zone("Z", 0, 0) /\ OffsetMinutes(given.zone) = 0
    BY <1>2, <2>1, <2>3, Greenwich DEF time
  <2>5. 1440 * (Day(time) + 0) + Minute(time) = Total(given)
    BY <1>3, <2>3, <2>4 DEF Total
  <2>6. Normalised(ix)
    BY <2>3, <2>4, <2>5 DEF Normalised, Carried, time, given
  <2>7. Normalised(ix)'
    BY <2>1, <2>6 DEF Normalised, Carried
  <2>8. ix = 2 => Normalised(1)'
    BY <2>1 DEF CarryInv, DoneInv, Normalised, Carried
  <2>9. DoneInv'
    BY <2>1, <2>7, <2>8 DEF DoneInv
  <2> QED
    BY <2>2, <2>9 DEF CarryInv
<1>6. ASSUME ToUtcZ
      PROVE  CarryInv'
  <2>1. /\ pc = "normalise" /\ pc' = "minutes" /\ day_delta' = 0
        /\ total_minutes' = utc_time[ix].hour * 60 + utc_time[ix].minute
                              - OffsetMinutes(utc_time[ix].zone)
        /\ UNCHANGED <<arg, utc_time, ix, is_greater>>
    BY <1>6 DEF ToUtcZ, Goto
  <2>2. time = given
    BY <2>1 DEF CarryInv, UntouchedInv, time, given
  <2>3. total_minutes' = Minute(time) - OffsetMinutes(given.zone)
    <3>1. total_minutes' = time.hour * 60 + time.minute - OffsetMinutes(time.zone)
      BY <2>1 DEF time
    <3>2. time.hour \in Int /\ time.minute \in Int
      BY <1>1 DEF Valid, Structure
    <3> QED
      BY <1>4, <2>2, <3>1, <3>2 DEF Minute
  <2>4. total_minutes' \in Int /\ day_delta' \in Int
    BY <1>3, <1>4, <2>1, <2>3
  <2>5. TypeInv' /\ UntouchedInv' /\ DecidedInv'
    BY <2>1, <2>4 DEF CarryInv, TypeInv, UntouchedInv, DecidedInv
  <2>6. 1440 * (Day(time) + 0) + total_minutes' = Total(given)
    BY <1>3, <1>4, <2>2, <2>3 DEF Total
  <2>7. Carried(ix, day_delta, total_minutes)'
    BY <2>1, <2>2, <2>6 DEF Carried, time, given
  <2>8. DoneInv' /\ LoopInv'
    BY <2>1, <2>7 DEF CarryInv, DoneInv, LoopInv, Normalised, Carried
  <2> QED
    BY <2>5, <2>8 DEF CarryInv
<1>7. ASSUME \/ ShiftNegativeMinutes
             \/ ShiftPositiveMinutes
      PROVE  CarryInv'
  <2>1. /\ pc = "minutes" /\ pc' = "minutes"
        /\ UNCHANGED <<arg, utc_time, ix, is_greater>>
        /\ \/ total_minutes' = total_minutes + 1440 /\ day_delta' = day_delta - 1
           \/ total_minutes' = total_minutes - 1440 /\ day_delta' = day_delta + 1
    BY <1>7 DEF ShiftNegativeMinutes, ShiftPositiveMinutes, Stay
  <2>2. total_minutes' \in Int /\ day_delta' \in Int
    BY <1>1, <2>1
  <2>3. TypeInv' /\ UntouchedInv' /\ DecidedInv'
    BY <2>1, <2>2 DEF CarryInv, TypeInv, UntouchedInv, DecidedInv
  <2>4. Carried(ix, day_delta, total_minutes)
    BY <2>1 DEF CarryInv, LoopInv
  <2>5. 1440 * (Day(time) + day_delta') + total_minutes'
          = 1440 * (Day(time) + day_delta) + total_minutes
    BY <1>1, <1>3, <2>1
  <2>6. Carried(ix, day_delta, total_minutes)'
    BY <2>1, <2>4, <2>5 DEF Carried, time
  <2>7. DoneInv' /\ LoopInv'
    BY <2>1, <2>6 DEF CarryInv, DoneInv, LoopInv, Normalised, Carried
  <2> QED
    BY <2>3, <2>7 DEF CarryInv
<1>8. ASSUME StoreTime
      PROVE  CarryInv'
  <2> DEFINE new == [time EXCEPT !.hour   = total_minutes \div 60,
                                 !.minute = total_minutes % 60]
  <2>1. /\ pc = "minutes" /\ pc' = "days" /\ Update(new)
        /\ 0 <= total_minutes /\ total_minutes <= 1439
        /\ UNCHANGED <<arg, ix, total_minutes, day_delta, is_greater>>
    BY <1>1, <1>8 DEF StoreTime, Goto, locals, time
  <2>2. /\ total_minutes \div 60 \in Int /\ total_minutes % 60 \in Int
        /\ 0 <= total_minutes \div 60 /\ total_minutes \div 60 <= 23
        /\ 0 <= total_minutes % 60 /\ total_minutes % 60 <= 59
        /\ (total_minutes \div 60) * 60 + (total_minutes % 60) = total_minutes
    BY <1>1, <2>1, HourAndMinute
  <2>3. time \in Structure
    BY <1>1 DEF Valid
  <2>4. /\ new \in Structure
        /\ new.year = time.year /\ new.month = time.month /\ new.day = time.day
        /\ new.hour = total_minutes \div 60 /\ new.minute = total_minutes % 60
        /\ new.second = time.second /\ new.microseconds = time.microseconds
    BY <2>2, <2>3 DEF Structure
  <2> HIDE DEF new
  <2>5. Valid(new) /\ Day(new) = Day(time) /\ Minute(new) = total_minutes
    BY <1>1, <2>2, <2>4 DEF Valid, ValidClock, Day, Minute
  <2>6. /\ TypeInv' /\ UntouchedInv' /\ DecidedInv'
        /\ ix = 2 => Normalised(1)'
        /\ utc_time'[ix] = new /\ arg'[ix] = arg[ix]
    BY <1>1, <2>1, <2>5, UpdateKeeps
  <2>7. Carried(ix, day_delta, total_minutes)
    BY <2>1 DEF CarryInv, LoopInv
  <2>8. Carried(ix, day_delta, Minute(utc_time[ix]))'
    BY <2>1, <2>4, <2>5, <2>6, <2>7 DEF Carried, time
  <2>9. DoneInv' /\ LoopInv'
    BY <2>1, <2>6, <2>8 DEF DoneInv, LoopInv
  <2> QED
    BY <2>6, <2>9 DEF CarryInv
<1>9. ASSUME ShiftPositiveByDays
      PROVE  CarryInv'
  <2>1. /\ pc = "days" /\ pc' = "days" /\ day_delta > 0
        /\ Update(NextDay(time)) /\ day_delta' = day_delta - 1
        /\ UNCHANGED <<arg, ix, total_minutes, is_greater>>
    BY <1>9 DEF ShiftPositiveByDays, Stay, time
  <2>2. Carried(ix, day_delta, Minute(time))
    BY <2>1 DEF CarryInv, LoopInv, time
  <2>3. 1440 * (Day(time) + day_delta) + Minute(time) = Total(given)
    BY <2>2 DEF Carried, time, given
  <2>4. 0 <= Minute(time)
    BY <1>1, MinuteOfDay
  <2>5. time.year < YearValues - 1 \/ time.month < 12 \/ time.day < 31
    BY <1>1, <1>2, <1>3, <2>1, <2>3, <2>4, RoomAbove
  <2>6. /\ Valid(NextDay(time)) /\ SameClock(NextDay(time), time)
        /\ Day(NextDay(time)) = Day(time) + 1
    BY <1>1, <2>5, NextDayIsNext
  <2>7. Minute(NextDay(time)) = Minute(time)
    BY <2>6 DEF SameClock, Minute
  <2>8. /\ TypeInv' /\ UntouchedInv' /\ DecidedInv'
        /\ ix = 2 => Normalised(1)'
        /\ utc_time'[ix] = NextDay(time) /\ arg'[ix] = arg[ix]
    BY <1>1, <2>1, <2>6, UpdateKeeps
  <2>9. 1440 * ((Day(time) + 1) + (day_delta - 1)) + Minute(time) = Total(given)
    BY <1>1, <1>3, <2>3
  <2>10. Carried(ix, day_delta, Minute(utc_time[ix]))'
    <3>1. /\ NextDay(time).second = time.second
          /\ NextDay(time).microseconds = time.microseconds
      BY <2>6 DEF SameClock
    <3> QED
      BY <2>1, <2>2, <2>6, <2>7, <2>8, <2>9, <3>1 DEF Carried, time, given
  <2>11. DoneInv' /\ LoopInv'
    BY <2>1, <2>8, <2>10 DEF DoneInv, LoopInv
  <2> QED
    BY <2>8, <2>11 DEF CarryInv
<1>10. ASSUME ShiftNegativeByDays
       PROVE  CarryInv'
  <2>1. /\ pc = "days" /\ pc' = "days" /\ day_delta < 0
        /\ Update(PreviousDay(time)) /\ day_delta' = day_delta + 1
        /\ UNCHANGED <<arg, ix, total_minutes, is_greater>>
    BY <1>10 DEF ShiftNegativeByDays, Stay, time
  <2>2. Carried(ix, day_delta, Minute(time))
    BY <2>1 DEF CarryInv, LoopInv, time
  <2>3. 1440 * (Day(time) + day_delta) + Minute(time) = Total(given)
    BY <2>2 DEF Carried, time, given
  <2>4. Minute(time) <= 1439
    BY <1>1, MinuteOfDay
  <2>5. time.year > 0 \/ time.month > 1 \/ time.day > 1
    BY <1>1, <1>2, <1>3, <2>1, <2>3, <2>4, RoomBelow
  <2>6. /\ Valid(PreviousDay(time)) /\ SameClock(PreviousDay(time), time)
        /\ Day(PreviousDay(time)) = Day(time) - 1
    BY <1>1, <2>5, PreviousDayIsPrevious
  <2>7. Minute(PreviousDay(time)) = Minute(time)
    BY <2>6 DEF SameClock, Minute
  <2>8. /\ TypeInv' /\ UntouchedInv' /\ DecidedInv'
        /\ ix = 2 => Normalised(1)'
        /\ utc_time'[ix] = PreviousDay(time) /\ arg'[ix] = arg[ix]
    BY <1>1, <2>1, <2>6, UpdateKeeps
  <2>9. 1440 * ((Day(time) - 1) + (day_delta + 1)) + Minute(time) = Total(given)
    BY <1>1, <1>3, <2>3
  <2>10. Carried(ix, day_delta, Minute(utc_time[ix]))'
    <3>1. /\ PreviousDay(time).second = time.second
          /\ PreviousDay(time).microseconds = time.microseconds
      BY <2>6 DEF SameClock
    <3> QED
      BY <2>1, <2>2, <2>6, <2>7, <2>8, <2>9, <3>1 DEF Carried, time, given
  <2>11. DoneInv' /\ LoopInv'
    BY <2>1, <2>8, <2>10 DEF DoneInv, LoopInv
  <2> QED
    BY <2>8, <2>11 DEF CarryInv
<1>11. ASSUME SetZ
       PROVE  CarryInv'
  <2> DEFINE new == [time EXCEPT !.zone = Zone("Z", 0, 0)]
  <2>1. /\ pc = "days" /\ pc' = "normalised" /\ day_delta = 0 /\ Update(new)
        /\ UNCHANGED <<arg, ix, total_minutes, day_delta, is_greater>>
    BY <1>11 DEF SetZ, Goto, locals, time
  <2>2. Zone("Z", 0, 0) \in [sign : {"Z", "+", "-"}, hrs : Int, mins : Int]
    BY DEF Zone
  <2>3. time \in Structure
    BY <1>1 DEF Valid
  <2>4. /\ new \in Structure /\ new.zone = Zone("Z", 0, 0)
        /\ new.year = time.year /\ new.month = time.month /\ new.day = time.day
        /\ new.hour = time.hour /\ new.minute = time.minute
        /\ new.second = time.second /\ new.microseconds = time.microseconds
    BY <2>2, <2>3 DEF Structure
  <2> HIDE DEF new
  <2>5. Valid(new) /\ Day(new) = Day(time) /\ Minute(new) = Minute(time)
    BY <1>1, <2>4 DEF Valid, ValidClock, Day, Minute
  <2>6. /\ TypeInv' /\ UntouchedInv' /\ DecidedInv'
        /\ ix = 2 => Normalised(1)'
        /\ utc_time'[ix] = new /\ arg'[ix] = arg[ix]
    BY <1>1, <2>1, <2>5, UpdateKeeps
  <2>7. Carried(ix, 0, Minute(time))
    BY <2>1 DEF CarryInv, LoopInv, time
  <2>8. Normalised(ix)'
    BY <2>1, <2>4, <2>5, <2>6, <2>7 DEF Normalised, Carried, time
  <2>9. DoneInv' /\ LoopInv'
    BY <2>1, <2>6, <2>8 DEF DoneInv, LoopInv
  <2> QED
    BY <2>6, <2>9 DEF CarryInv
<1>12. ASSUME NextCopy
       PROVE  CarryInv'
  <2>1. /\ pc = "normalised" /\ pc' = "normalise" /\ ix = 1 /\ ix' = 2
        /\ UNCHANGED <<arg, utc_time, total_minutes, day_delta, is_greater>>
    BY <1>12 DEF NextCopy, Goto, locals
  <2>2. TypeInv'
    BY <2>1 DEF CarryInv, TypeInv, Copies
  <2>3. UntouchedInv' /\ LoopInv' /\ DecidedInv'
    BY <2>1 DEF CarryInv, UntouchedInv, LoopInv, DecidedInv
  <2>4. Normalised(1)
    BY <2>1 DEF CarryInv, DoneInv
  <2>5. DoneInv'
    BY <2>1, <2>4 DEF DoneInv, Normalised, Carried
  <2> QED
    BY <2>2, <2>3, <2>5 DEF CarryInv
<1>13. ASSUME Decide
       PROVE  CarryInv'
  <2>1. /\ pc = "normalised" /\ pc' = "compared" /\ ix = 2
        /\ is_greater' = Later(Fields(utc_time[1]), Fields(utc_time[2]))
        /\ UNCHANGED <<arg, utc_time, ix, total_minutes, day_delta>>
    BY <1>13 DEF Decide, Goto, locals
  <2>2. TypeInv' /\ UntouchedInv' /\ LoopInv'
    BY <2>1 DEF CarryInv, TypeInv, UntouchedInv, LoopInv
  <2>3. DecidedInv'
    BY <2>1 DEF DecidedInv
  <2>4. DoneInv'
    BY <2>1 DEF CarryInv, DoneInv, Normalised, Carried
  <2> QED
    BY <2>2, <2>3, <2>4 DEF CarryInv
<1>14. ASSUME UNCHANGED timeVars
       PROVE  CarryInv'
  BY <1>14 DEF timeVars, locals, CarryInv, TypeInv, UntouchedInv, DoneInv, LoopInv,
               DecidedInv, Normalised, Carried
<1> QED
  BY <1>5, <1>6, <1>7, <1>8, <1>9, <1>10, <1>11, <1>12, <1>13, <1>14 DEF TimeStep

-----------------------------------------------------------------------------
(* The theorems.                                                           *)

LEMMA CarryInvariant ==
  InsideTheYears /\ TimeSpec => []CarryInv
<1> SUFFICES ASSUME InsideTheYears PROVE TimeSpec => []CarryInv
  OBVIOUS
<1>1. TimeInit => CarryInv
  BY CarryInit
<1>2. CarryInv /\ [TimeStep]_timeVars => CarryInv'
  BY CarryStep
<1> QED
  BY <1>1, <1>2, PTL DEF TimeSpec

\* What the invariant says of instants.
LEMMA CarriedIsInstant ==
  ASSUME CarryInv, NEW i \in Copies, Normalised(i)
  PROVE  Instant(arg[i]) = Instant(utc_time[i]) /\ Instant(utc_time[i]) = Parts(utc_time[i])
<1> DEFINE time  == utc_time[i]
           given == arg[i]
<1>1. Valid(time) /\ Valid(given)
  BY DEF CarryInv, TypeInv, Given
<1>2. /\ time.zone = Zone("Z", 0, 0)
      /\ 1440 * (Day(time) + 0) + Minute(time) = Total(given)
      /\ time.second = given.second /\ time.microseconds = given.microseconds
  BY DEF Normalised, Carried
<1> HIDE DEF time, given
<1>3. /\ Day(time) \in Int /\ Minute(time) \in Int /\ Day(given) \in Int
      /\ Minute(given) \in Int /\ OffsetMinutes(given.zone) \in Int
  BY <1>1, DayType, MinuteOfDay, OffsetType
<1>4. 1440 * Day(time) + (Minute(time) - OffsetMinutes(time.zone))
        = 1440 * Day(given) + (Minute(given) - OffsetMinutes(given.zone))
  BY <1>2, <1>3, Greenwich DEF Total
<1>5. DayAndMinute(Day(time), Minute(time) - OffsetMinutes(time.zone))
        = DayAndMinute(Day(given), Minute(given) - OffsetMinutes(given.zone))
  BY <1>2, <1>3, <1>4, Greenwich, SameTotal
<1>6. Instant(time) = Instant(given)
  BY <1>1, <1>2, <1>5, InstantOf, ZenonT(60)
<1>7. Instant(time) = Parts(time)
  BY <1>1, <1>2, InstantInGreenwich
<1> QED
  BY <1>6, <1>7 DEF time, given

\* Adding up is standing for the same instant.
LEMMA CarryKeepsInstant == CarryInv => SameInstant
<1> SUFFICES ASSUME CarryInv PROVE SameInstant
  OBVIOUS
<1> DEFINE time  == utc_time[ix]
           given == arg[ix]
<1>1. /\ Valid(time) /\ Valid(given) /\ ix \in Copies
      /\ pc \in {"normalise", "minutes", "days", "normalised", "compared"}
      /\ total_minutes \in Int /\ day_delta \in Int
  BY DEF CarryInv, TypeInv, Given
<1>2. /\ Day(time) \in Int /\ Minute(time) \in Int /\ Day(given) \in Int
      /\ Minute(given) \in Int /\ OffsetMinutes(given.zone) \in Int
  BY <1>1, DayType, MinuteOfDay, OffsetType
<1>3. ASSUME NEW minutes \in Int, Carried(ix, day_delta, minutes)
      PROVE  DayAndMinute(Day(time) + day_delta, minutes)
               \o <<time.second, time.microseconds>> = Instant(given)
  <2>1. /\ 1440 * (Day(time) + day_delta) + minutes = Total(given)
        /\ time.second = given.second /\ time.microseconds = given.microseconds
    BY <1>3 DEF Carried
  <2> HIDE DEF time, given
  <2>2. 1440 * (Day(time) + day_delta) + minutes
          = 1440 * Day(given) + (Minute(given) - OffsetMinutes(given.zone))
    BY <1>1, <1>2, <2>1 DEF Total
  <2>3. DayAndMinute(Day(time) + day_delta, minutes)
          = DayAndMinute(Day(given), Minute(given) - OffsetMinutes(given.zone))
    <3>1. Day(time) + day_delta \in Int /\ Minute(given) - OffsetMinutes(given.zone) \in Int
      BY <1>1, <1>2
    <3>2. DayAndMinute(Day(time) + day_delta, minutes)
            = Split(1440 * (Day(time) + day_delta) + minutes)
      BY <3>1, SameTotal
    <3>3. DayAndMinute(Day(given), Minute(given) - OffsetMinutes(given.zone))
            = Split(1440 * Day(given) + (Minute(given) - OffsetMinutes(given.zone)))
      BY <1>2, <3>1, SameTotal
    <3> QED
      BY <2>2, <3>2, <3>3
  <2> QED
    BY <1>1, <2>1, <2>3, InstantOf
<1>4. CASE pc = "minutes"
  BY <1>1, <1>3, <1>4 DEF CarryInv, LoopInv, SameInstant, Underway, Day
<1>5. CASE pc = "days"
  <2>1. Carried(ix, day_delta, Minute(time))
    BY <1>5 DEF CarryInv, LoopInv
  <2> QED
    BY <1>2, <1>3, <1>5, <2>1 DEF SameInstant, Underway, Day, Minute
<1>6. CASE pc = "normalise"
  BY <1>6 DEF CarryInv, UntouchedInv, SameInstant, Underway
<1>7. CASE pc \in {"normalised", "compared"}
  <2>1. Normalised(ix)
    BY <1>7 DEF CarryInv, DoneInv
  <2>2. Instant(given) = Instant(time)
    BY <1>1, <2>1, CarriedIsInstant
  <2> QED
    BY <1>7, <2>2 DEF SameInstant, Underway
<1> QED
  BY <1>1, <1>4, <1>5, <1>6, <1>7

\* Normalising keeps the instant, pass by pass (SameInstant): of any two times
\* in any zones that the structure can hold (utcNorm.c:7-105), but for the
\* years from which a zone leads out of the uint16_t.
THEOREM InstantKept ==
  InsideTheYears /\ TimeSpec => []SameInstant
  BY CarryInvariant, CarryKeepsInstant, PTL

\* What has been carried to the end has fields in their ranges.
LEMMA CarryEndsValid == CarryInv => NormalisedIsValid
<1> SUFFICES ASSUME CarryInv PROVE NormalisedIsValid
  OBVIOUS
<1> DEFINE time == utc_time[ix]
<1>1. SUFFICES ASSUME pc \in {"normalised", "compared"}
               PROVE  IsValidUtc(time) /\ time.zone = Zone("Z", 0, 0)
  BY DEF NormalisedIsValid
<1>2. time.zone = Zone("Z", 0, 0)
  BY <1>1 DEF CarryInv, DoneInv, Normalised
<1>3. Valid(time)
  BY DEF CarryInv, TypeInv
<1> HIDE DEF time
<1>4. time.zone \in f_zone_Lut
  BY <1>2 DEF f_zone_Lut
<1>5. IsValidDate(time.year, time.month, time.day)
  BY <1>3, MonthLength DEF Valid, ValidDate, IsValidDate
<1>6. IsValidTime(time.hour, time.minute, time.second, time.microseconds)
  BY <1>3 DEF Valid, ValidClock, IsValidTime
<1> QED
  BY <1>2, <1>4, <1>5, <1>6 DEF IsValidUtc

\* A normalised time is a valid one, in Greenwich (NormalisedIsValid;
\* utcNorm.c:93-104).
THEOREM NormalisedTimesAreValid ==
  InsideTheYears /\ TimeSpec => []NormalisedIsValid
  BY CarryInvariant, CarryEndsValid, PTL

\* Of two times in Greenwich the first field that differs decides.
LEMMA CarryOrders == CarryInv => GreaterIsLater
<1> SUFFICES ASSUME CarryInv PROVE GreaterIsLater
  OBVIOUS
<1>1. SUFFICES ASSUME pc = "compared"
               PROVE  is_greater <=> Later(Instant(arg[1]), Instant(arg[2]))
  BY DEF GreaterIsLater
<1>2. /\ ix = 2 /\ Normalised(1) /\ Normalised(2)
      /\ is_greater <=> Later(Fields(utc_time[1]), Fields(utc_time[2]))
  BY <1>1 DEF CarryInv, DecidedInv, DoneInv
<1>3. Valid(utc_time[1]) /\ Valid(utc_time[2]) /\ 1 \in Copies /\ 2 \in Copies
  BY DEF CarryInv, TypeInv, Copies
<1>4. Instant(arg[1]) = Parts(utc_time[1]) /\ Instant(arg[2]) = Parts(utc_time[2])
  BY <1>2, <1>3, CarriedIsInstant
<1> QED
  BY <1>2, <1>3, <1>4, FirstDifference

\* utcTime_isGreater answers what it promises (GreaterIsLater): its copies are
\* the caller's instants, and of times in one zone the first field that differs
\* decides as the instants do (utcTime.c:238-266).
THEOREM GreaterMeansLater ==
  InsideTheYears /\ TimeSpec => []GreaterIsLater
  BY CarryInvariant, CarryOrders, PTL

-----------------------------------------------------------------------------
(* Reading texts.                                                          *)

\* What the numbers of a text can be.
LEMMA TextFields ==
  ASSUME NEW txt \in Texts
  PROVE  /\ txt.year \in Int /\ 0 <= txt.year /\ txt.year <= MaxTextYear
         /\ txt.month \in Int /\ txt.day \in Int
         /\ txt.hour \in Int /\ 0 <= txt.hour
         /\ txt.minute \in Int /\ 0 <= txt.minute
         /\ txt.second \in Int /\ 0 <= txt.second
         /\ txt.fraction * Unit(txt.digits) \in Int
         /\ 0 <= txt.fraction * Unit(txt.digits)
         /\ txt.fraction * Unit(txt.digits) <= MaxMicroseconds
         /\ txt.zone \in [sign : {"Z", "+", "-"}, hrs : 0..99, mins : 0..99]
<1>1. /\ txt \in [digits : {0, 3, 6}, zulu : BOOLEAN, length : Nat, delimiters : BOOLEAN,
                  year : 0..MaxTextYear, month : 0..99, day : 0..99,
                  hour : 0..99, minute : 0..99, second : 0..99, fraction : Nat,
                  zone : [sign : {"Z", "+", "-"}, hrs : 0..99, mins : 0..99]]
      /\ txt.fraction * Unit(txt.digits) <= MaxMicroseconds
  BY TextsAssumption
<1>2. Unit(txt.digits) \in {1000000, 1000, 1} /\ txt.fraction \in Nat
  BY <1>1 DEF Unit
<1>3. txt.fraction * Unit(txt.digits) \in Int /\ 0 <= txt.fraction * Unit(txt.digits)
  BY <1>2
<1>4. /\ txt.year \in 0..MaxTextYear /\ txt.month \in 0..99 /\ txt.day \in 0..99
      /\ txt.hour \in 0..99 /\ txt.minute \in 0..99 /\ txt.second \in 0..99
      /\ txt.zone \in [sign : {"Z", "+", "-"}, hrs : 0..99, mins : 0..99]
  BY <1>1
<1>5. txt.fraction * Unit(txt.digits) <= MaxMicroseconds
  BY TextsAssumption
<1>6. /\ txt.year \in Int /\ 0 <= txt.year /\ txt.year <= MaxTextYear
      /\ txt.month \in Int /\ txt.day \in Int
      /\ txt.hour \in Int /\ 0 <= txt.hour
      /\ txt.minute \in Int /\ 0 <= txt.minute
      /\ txt.second \in Int /\ 0 <= txt.second
  <2>1. txt.year \in Int /\ 0 <= txt.year /\ txt.year <= MaxTextYear
    <3>1. MaxTextYear \in Int
      BY DEF MaxTextYear
    <3> QED
      BY <1>4, <3>1
  <2>2. txt.month \in Int /\ txt.day \in Int
    BY <1>4
  <2>3. /\ txt.hour \in Int /\ 0 <= txt.hour
        /\ txt.minute \in Int /\ 0 <= txt.minute
        /\ txt.second \in Int /\ 0 <= txt.second
    BY <1>4
  <2> QED
    BY <2>1, <2>2, <2>3
<1> QED
  BY <1>3, <1>4, <1>5, <1>6

\* A date that dateTime.c's table of months allows is one that comes before the
\* first of the next month, by the closed formula, and the other way round.
LEMMA TableIsFormula ==
  ASSUME NEW y \in Int, NEW m \in 1..12, NEW d \in Int
  PROVE  d <= GetDaysInMonth(y, m) <=>
           DayNumber(y, m, d) < DayNumber(y + m \div 12, (m % 12) + 1, 1)
<1> DEFINE last == GetDaysInMonth(y, m)
<1>1. last \in Int
  BY MonthLength
<1>2. PICK before \in Int : \A c \in Int : DayNumber(y, m, c) = before + c
  BY SameMonth
<1>3. DayNumber(y, m, d) = before + d /\ DayNumber(y, m, last) = before + last
  BY <1>1, <1>2
<1>4. DayNumber(y + m \div 12, (m % 12) + 1, 1) = DayNumber(y, m, last) + 1
  <2>1. CASE m \in 1..11
    <3>1. m \div 12 = 0 /\ m % 12 = m
      BY <2>1
    <3>2. y + m \div 12 = y /\ (m % 12) + 1 = m + 1
      BY <3>1
    <3> QED
      BY <2>1, <3>2, MonthOnMonth
  <2>2. CASE m = 12
    <3>1. m \div 12 = 1 /\ m % 12 = 0
      BY <2>2
    <3>2. y + m \div 12 = y + 1 /\ (m % 12) + 1 = 1
      BY <3>1
    <3>3. last = 31
      BY <2>2, MonthLength
    <3> QED
      BY <2>2, <3>2, <3>3, NewYear
  <2> QED
    BY <2>1, <2>2
<1> HIDE DEF last
<1>5. d <= last <=> before + d < (before + last) + 1
  BY <1>1
<1> QED
  BY <1>3, <1>4, <1>5 DEF last

\* The text says a time that there is, as AcceptsRealDates has it.
Real(txt) ==
  /\ txt.length = FormatLength(txt.digits, txt.zulu)
  /\ txt.delimiters /\ Exists(txt)
  /\ txt.hour < 24 /\ txt.minute < 60 /\ txt.second < 60
  /\ txt.zulu \/ txt.zone \in f_zone_Lut

\* strToUtc_convert takes it.
LEMMA RealIsRead ==
  ASSUME NEW txt \in Texts
  PROVE  /\ Convert(txt).ok <=> Real(txt)
         /\ Convert(txt).time # Blank <=> Real(txt)
         /\ Real(txt) => Convert(txt).time = TimeOf(txt)
<1> DEFINE time == TimeOf(txt)
<1>1. /\ time.year = txt.year /\ time.month = txt.month /\ time.day = txt.day
      /\ time.hour = txt.hour /\ time.minute = txt.minute /\ time.second = txt.second
      /\ time.microseconds = txt.fraction * Unit(txt.digits)
      /\ time.zone = GetZone(txt)
  BY DEF TimeOf
<1> HIDE DEF time
<1>2. Exists(txt) <=> IsValidDate(time.year, time.month, time.day)
  <2>1. /\ Exists(txt) => txt.month \in 1..12
        /\ IsValidDate(time.year, time.month, time.day) => txt.month \in 1..12
    BY <1>1 DEF Exists, IsValidDate
  <2>2. ASSUME txt.month \in 1..12
        PROVE  Exists(txt) <=> txt.day >= 1 /\ txt.day <= GetDaysInMonth(txt.year, txt.month)
    <3>1. txt.year \in Int /\ txt.day \in Int
      BY TextFields
    <3>2. txt.day <= GetDaysInMonth(txt.year, txt.month) <=>
            DayNumber(txt.year, txt.month, txt.day)
              < DayNumber(txt.year + txt.month \div 12, (txt.month % 12) + 1, 1)
      BY <2>2, <3>1, TableIsFormula
    <3> QED
      BY <2>2, <3>2 DEF Exists
  <2>3. ASSUME txt.month \in 1..12
        PROVE  txt.day \in 1..GetDaysInMonth(txt.year, txt.month) <=>
                 txt.day >= 1 /\ txt.day <= GetDaysInMonth(txt.year, txt.month)
    BY TextFields, MonthLength
  <2> QED
    BY <1>1, <2>1, <2>2, <2>3 DEF IsValidDate
<1>3. IsValidTime(time.hour, time.minute, time.second, time.microseconds) <=>
        txt.hour < 24 /\ txt.minute < 60 /\ txt.second < 60
  BY <1>1, TextFields DEF IsValidTime
<1>4. time.zone \in f_zone_Lut <=> txt.zulu \/ txt.zone \in f_zone_Lut
  BY <1>1 DEF GetZone, f_zone_Lut
<1>5. WellFormed(txt) <=>
        txt.length = FormatLength(txt.digits, txt.zulu) /\ txt.delimiters
  <2>1. txt.year \in Int /\ txt.year <= MaxTextYear
    BY TextFields
  <2>2. MaxTextYear \in Int
    BY DEF MaxTextYear
  <2>3. Shifted(txt.year) = 0
    BY <2>1, <2>2 DEF Shifted
  <2> QED
    BY <2>3 DEF WellFormed
<1>6. WellFormed(txt) /\ IsValidUtc(time) <=> Real(txt)
  BY <1>2, <1>3, <1>4, <1>5 DEF Real, IsValidUtc
<1>7. /\ Convert(txt).ok <=> Real(txt)
      /\ Convert(txt).time = IF Real(txt) THEN time ELSE Blank
  BY <1>6 DEF Convert, time
<1>8. Real(txt) => time # Blank
  <2>1. Real(txt) => time.month \in 1..12
    BY <1>1 DEF Real, Exists
  <2>2. Blank.month \notin 1..12
    BY DEF Blank
  <2> QED
    BY <2>1, <2>2
<1> QED
  BY <1>7, <1>8 DEF time

-----------------------------------------------------------------------------
\* With texts, the caller's times are what was read, and stay so.
SourceInv ==
  source # <<>> =>
    /\ source \in [1..2 -> Texts]
    /\ pc # "read" => arg = [k \in 1..2 |-> Convert(source[k]).time]

\* Only the first step reads the texts.
LEMMA SourceKept ==
  ASSUME [TextNext]_allVars
  PROVE  /\ UNCHANGED source
         /\ pc # "read" => pc' # "read" /\ arg' = arg
         /\ pc = "read" => \/ arg' = [k \in 1..2 |-> Convert(source[k]).time]
                           \/ pc' = "read"
<1>1. CASE ReadTexts
  BY <1>1 DEF ReadTexts, Goto, textVars
<1>2. CASE TimeStep /\ UNCHANGED textVars
  BY <1>2 DEF TimeStep, AlreadyZ, ToUtcZ, ShiftNegativeMinutes, ShiftPositiveMinutes,
       StoreTime, ShiftPositiveByDays, ShiftNegativeByDays, SetZ, NextCopy, Decide,
       Goto, Stay, textVars
<1>3. CASE \E time \in {arg[1], utc_time[1]}, format \in Formats, room \in Rooms :
             PrintTime(time, format[1], format[2], room)
  BY <1>3 DEF PrintTime, Goto
<1>4. CASE ReadBack
  BY <1>4 DEF ReadBack, Goto
<1>5. CASE UNCHANGED allVars
  BY <1>5 DEF allVars, timeVars, textVars
<1> QED
  BY <1>1, <1>2, <1>3, <1>4, <1>5 DEF TextNext

LEMMA SourceInvariant == TextSpec => []SourceInv
<1>1. TextInit => SourceInv
  BY DEF TextInit, SourceInv
<1>2. SourceInv /\ [TextNext]_allVars => SourceInv'
  BY SourceKept DEF SourceInv
<1> QED
  BY <1>1, <1>2, PTL DEF TextSpec

\* Exactly the texts of one of the six forms that say a date, a time and a zone
\* that there are get as far as being compared (AcceptsRealDates): the code's
\* table of months accepts a day if and only if the formula has it in the month.
THEOREM RealDatesAreRead == TextSpec => []AcceptsRealDates
<1>1. ASSUME SourceInv
      PROVE  AcceptsRealDates
  <2>1. SUFFICES ASSUME pc # "read", source # <<>>
                 PROVE  (arg[1] # Blank /\ arg[2] # Blank) <=>
                          \A k \in 1..2 : Real(source[k])
    BY DEF AcceptsRealDates, Real
  <2>2. /\ source \in [1..2 -> Texts]
        /\ arg = [k \in 1..2 |-> Convert(source[k]).time]
    BY <1>1, <2>1 DEF SourceInv
  <2>3. /\ source[1] \in Texts /\ source[2] \in Texts
        /\ arg[1] = Convert(source[1]).time /\ arg[2] = Convert(source[2]).time
    BY <2>2
  <2>4. \A k \in 1..2 : k = 1 \/ k = 2
    OBVIOUS
  <2> QED
    BY <2>3, <2>4, RealIsRead
<1> QED
  BY <1>1, SourceInvariant, PTL

-----------------------------------------------------------------------------
(* Printing and reading back.                                              *)

LEMMA InstantFromTotal ==
  ASSUME NEW time, Valid(time)
  PROVE  Instant(time) = Split(Total(time)) \o <<time.second, time.microseconds>>
<1>1. Day(time) \in Int /\ Minute(time) - OffsetMinutes(time.zone) \in Int
  BY DayType, MinuteOfDay, OffsetType
<1>2. DayAndMinute(Day(time), Minute(time) - OffsetMinutes(time.zone))
        = Split(1440 * Day(time) + (Minute(time) - OffsetMinutes(time.zone)))
  BY <1>1, SameTotal
<1>3. Total(time) = 1440 * Day(time) + (Minute(time) - OffsetMinutes(time.zone))
  BY <1>1, MinuteOfDay, OffsetType DEF Total
<1> QED
  BY <1>2, <1>3, InstantOf

\* Times of one total, one second and one microsecond are one instant.
SameMoment(time, other) ==
  Total(time) = Total(other) /\ time.second = other.second

LEMMA OneInstant ==
  ASSUME NEW time, Valid(time), NEW other, Valid(other), SameMoment(time, other),
         time.microseconds = other.microseconds
  PROVE  Instant(time) = Instant(other)
  BY InstantFromTotal DEF SameMoment

\* A time without the digits that are not printed.
Cut(time, unit) == [time EXCEPT !.microseconds = (@ \div unit) * unit]

LEMMA CutNumber ==
  ASSUME NEW n \in Int, 0 <= n, NEW unit \in {1000000, 1000, 1}
  PROVE  (n \div unit) * unit \in Int /\ 0 <= (n \div unit) * unit /\ (n \div unit) * unit <= n
<1>1. CASE unit = 1000000
  BY <1>1
<1>2. CASE unit = 1000
  BY <1>2
<1>3. CASE unit = 1
  BY <1>3
<1> QED
  BY <1>1, <1>2, <1>3

LEMMA CutTime ==
  ASSUME NEW time, Valid(time), NEW unit \in {1000000, 1000, 1}
  PROVE  /\ Valid(Cut(time, unit)) /\ SameMoment(Cut(time, unit), time)
         /\ Cut(time, unit).microseconds = (time.microseconds \div unit) * unit
<1> DEFINE cut == Cut(time, unit)
           us  == (time.microseconds \div unit) * unit
<1>1. /\ time \in Structure /\ time.microseconds \in Int
      /\ 0 <= time.microseconds /\ time.microseconds <= MaxMicroseconds
  BY DEF Valid, Structure, ValidClock
<1>2. us \in Int /\ 0 <= us /\ us <= MaxMicroseconds
  <2>1. us \in Int /\ 0 <= us /\ us <= time.microseconds /\ MaxMicroseconds \in Int
    BY <1>1, CutNumber DEF MaxMicroseconds
  <2> HIDE DEF us
  <2> QED
    BY <1>1, <2>1
<1>3. cut = [time EXCEPT !.microseconds = us]
  BY DEF Cut
<1> HIDE DEF us
<1>4. /\ cut \in Structure /\ cut.microseconds = us
      /\ cut.year = time.year /\ cut.month = time.month /\ cut.day = time.day
      /\ cut.hour = time.hour /\ cut.minute = time.minute /\ cut.second = time.second
      /\ cut.zone = time.zone
  BY <1>1, <1>2, <1>3 DEF Structure
<1> HIDE DEF cut
<1>5. ValidDate(cut.year, cut.month, cut.day)
  BY <1>4 DEF Valid
<1>6. ValidClock(cut)
  BY <1>2, <1>4 DEF Valid, ValidClock
<1>7. Total(cut) = Total(time)
  BY <1>4 DEF Total, Day, Minute
<1>8. Valid(cut) /\ SameMoment(cut, time) /\ cut.microseconds = us
  BY <1>4, <1>5, <1>6, <1>7 DEF Valid, SameMoment
<1> QED
  BY <1>8 DEF cut, us

-----------------------------------------------------------------------------
\* The zones in use.
LEMMA LutZones ==
  ASSUME NEW zone \in f_zone_Lut
  PROVE  /\ zone \in [sign : {"Z", "+", "-"}, hrs : Int, mins : Int]
         /\ Near(OffsetMinutes(zone))
         /\ zone.sign = "Z" => zone = Zone("Z", 0, 0)
<1>1. \/ zone = Zone("Z", 0, 0)
      \/ \E hrs \in 0..14, mins \in {0, 30, 45} : zone = Zone("+", hrs, mins)
      \/ \E hrs \in 0..14, mins \in {0, 30, 45} : zone = Zone("-", hrs, mins)
  BY DEF f_zone_Lut
<1>2. CASE zone = Zone("Z", 0, 0)
  <2>1. zone = [sign |-> "Z", hrs |-> 0, mins |-> 0]
    BY <1>2 DEF Zone
  <2>2. OffsetMinutes(zone) = 0
    BY <1>2, Greenwich
  <2> QED
    BY <1>2, <2>1, <2>2 DEF Near
<1>3. ASSUME NEW sign \in {"+", "-"}, NEW hrs \in 0..14, NEW mins \in {0, 30, 45},
             zone = Zone(sign, hrs, mins)
      PROVE  /\ zone \in [sign : {"Z", "+", "-"}, hrs : Int, mins : Int]
             /\ Near(OffsetMinutes(zone))
             /\ zone.sign # "Z"
  <2>1. zone = [sign |-> sign, hrs |-> hrs, mins |-> mins]
    BY <1>3 DEF Zone
  <2>2. zone.sign = sign /\ zone.hrs = hrs /\ zone.mins = mins
    BY <2>1
  <2>3. OffsetMinutes(zone) = (IF sign = "-" THEN -1 ELSE 1) * (hrs * 60 + mins)
    BY <2>2 DEF OffsetMinutes
  <2>4. Near(OffsetMinutes(zone))
    BY <2>3 DEF Near
  <2> QED
    BY <2>1, <2>2, <2>4
<1> QED
  BY <1>1, <1>2, <1>3

\* A printed zone is one in use, and the same distance from Greenwich.
LEMMA PrintedZoneIsIt ==
  ASSUME NEW zone \in f_zone_Lut
  PROVE  /\ PrintedZone(zone) \in f_zone_Lut
         /\ OffsetMinutes(PrintedZone(zone)) = OffsetMinutes(zone)
<1>1. /\ zone \in [sign : {"Z", "+", "-"}, hrs : Int, mins : Int]
      /\ zone.sign = "Z" => zone = Zone("Z", 0, 0)
  BY LutZones
<1>2. CASE zone.sign = "Z"
  <2>1. zone = [sign |-> "Z", hrs |-> 0, mins |-> 0]
    BY <1>1, <1>2 DEF Zone
  <2>2. PrintedZone(zone) = [sign |-> "+", hrs |-> 0, mins |-> 0]
    BY <2>1 DEF PrintedZone
  <2>3. PrintedZone(zone) \in f_zone_Lut
    BY <2>2 DEF f_zone_Lut, Zone
  <2>4. OffsetMinutes(PrintedZone(zone)) = 0 /\ OffsetMinutes(zone) = 0
    BY <2>1, <2>2 DEF OffsetMinutes
  <2> QED
    BY <2>3, <2>4
<1>3. CASE zone.sign # "Z"
  <2>1. PrintedZone(zone) = zone
    BY <1>1, <1>3 DEF PrintedZone
  <2> QED
    BY <2>1
<1> QED
  BY <1>2, <1>3

\* A valid structure with a zone in use is valid to the code as well.
LEMMA ValidIsValidUtc ==
  ASSUME NEW time \in Structure, IsValidUtc(time), 0 <= time.year, time.year < YearValues,
         0 <= time.hour, 0 <= time.minute, 0 <= time.second, 0 <= time.microseconds
  PROVE  Valid(time)
<1>1. /\ time.year \in Int /\ time.month \in Int /\ time.day \in Int
  BY DEF Structure
<1>2. time.month \in 1..12 /\ time.day \in 1..GetDaysInMonth(time.year, time.month)
  BY DEF IsValidUtc, IsValidDate
<1>3. ValidDate(time.year, time.month, time.day)
  BY <1>1, <1>2, MonthLength DEF ValidDate
<1>4. ValidClock(time)
  BY DEF IsValidUtc, IsValidTime, ValidClock
<1> QED
  BY <1>3, <1>4 DEF Valid

\* What utcTime_toBuffer prints with success, strToUtc_convert reads, as the
\* time cut to the digits printed.
LEMMA PrintsBack ==
  ASSUME NEW time, Valid(time), time.year <= MaxTextYear,
         NEW digits \in {0, 3, 6}, NEW z \in BOOLEAN, NEW room \in Rooms,
         ToBuffer(time, digits, z, room).ok
  PROVE  LET txt  == ToBuffer(time, digits, z, room).text
             read == Convert(txt).time
         IN  /\ txt.digits = digits
             /\ Convert(txt).ok /\ Valid(read) /\ SameMoment(read, time)
             /\ read.microseconds = (time.microseconds \div Unit(digits)) * Unit(digits)
<1> DEFINE zulu   == z /\ IsZoneZ(time.zone)
           wanted == FormatLength(digits, zulu)
           length == Copied(room, wanted + Shifted(time.year))
           txt    == PrintedText(time, digits, zulu, length)
           read   == TimeOf(txt)
           us     == (time.microseconds \div Unit(digits)) * Unit(digits)
<1>1. /\ ToBuffer(time, digits, z, room).text = txt
      /\ IsValidUtc(time) /\ length = wanted
  BY DEF ToBuffer
<1>2. /\ txt.digits = digits /\ txt.zulu = zulu /\ txt.length = length
      /\ txt.delimiters = TRUE /\ txt.year = time.year /\ txt.month = time.month
      /\ txt.day = time.day /\ txt.hour = time.hour /\ txt.minute = time.minute
      /\ txt.second = time.second /\ txt.fraction = time.microseconds \div Unit(digits)
      /\ txt.zone = PrintedZone(time.zone)
  BY DEF PrintedText, Fraction
<1> HIDE DEF txt
<1>3. Shifted(time.year) = 0
  <2>1. time.year \in Int /\ MaxTextYear \in Int
    BY DEF Valid, ValidDate, MaxTextYear
  <2> QED
    BY <2>1 DEF Shifted
<1>4. WellFormed(txt)
  BY <1>1, <1>2, <1>3 DEF WellFormed
<1> HIDE DEF wanted, length
<1>5. read = [year |-> time.year, month |-> time.month, day |-> time.day,
              hour |-> time.hour, minute |-> time.minute, second |-> time.second,
              microseconds |-> us, zone |-> GetZone(txt)]
  BY <1>2 DEF TimeOf
<1>6. GetZone(txt) \in f_zone_Lut /\ OffsetMinutes(GetZone(txt)) = OffsetMinutes(time.zone)
  <2>1. time.zone \in f_zone_Lut
    BY <1>1 DEF IsValidUtc
  <2>2. CASE zulu
    <3>1. GetZone(txt) = Zone("Z", 0, 0)
      BY <1>2, <2>2 DEF GetZone
    <3>2. OffsetMinutes(time.zone) = 0
      BY <2>2, Greenwich DEF IsZoneZ, OffsetMinutes, Zone
    <3>3. Zone("Z", 0, 0) \in f_zone_Lut
      BY DEF f_zone_Lut
    <3> QED
      BY <3>1, <3>2, <3>3, Greenwich
  <2>3. CASE ~zulu
    <3>1. GetZone(txt) = PrintedZone(time.zone)
      BY <1>2, <2>3 DEF GetZone
    <3> QED
      BY <2>1, <3>1, PrintedZoneIsIt
  <2> QED
    BY <2>2, <2>3
<1>7. /\ time.microseconds \in Int /\ 0 <= time.microseconds
      /\ time.microseconds <= MaxMicroseconds /\ MaxMicroseconds \in Int
  BY DEF Valid, Structure, ValidClock, MaxMicroseconds
<1>8. us \in Int /\ 0 <= us /\ us <= time.microseconds
  <2>1. Unit(digits) \in {1000000, 1000, 1}
    BY DEF Unit
  <2> QED
    BY <1>7, <2>1, CutNumber
<1> HIDE DEF us, read
<1>9. /\ read.year = time.year /\ read.month = time.month /\ read.day = time.day
      /\ read.hour = time.hour /\ read.minute = time.minute /\ read.second = time.second
      /\ read.microseconds = us /\ read.zone = GetZone(txt)
  BY <1>5
<1>10. read \in Structure
  <2>1. GetZone(txt) \in [sign : {"Z", "+", "-"}, hrs : Int, mins : Int]
    BY <1>6, LutZones
  <2>2. /\ time.year \in Int /\ time.month \in Int /\ time.day \in Int
        /\ time.hour \in Int /\ time.minute \in Int /\ time.second \in Int
    BY DEF Valid, Structure
  <2> QED
    BY <1>5, <1>8, <2>1, <2>2 DEF Structure
<1>11. IsValidUtc(read)
  <2>1. IsValidTime(read.hour, read.minute, read.second, read.microseconds)
    BY <1>1, <1>7, <1>8, <1>9 DEF IsValidUtc, IsValidTime
  <2> QED
    BY <1>1, <1>6, <1>9, <2>1 DEF IsValidUtc
<1>12. Convert(txt).ok /\ Convert(txt).time = read
  BY <1>4, <1>11 DEF Convert, read
<1>13. Valid(read)
  <2>1. ValidDate(read.year, read.month, read.day)
    BY <1>9 DEF Valid
  <2>2. ValidClock(read)
    BY <1>7, <1>8, <1>9 DEF Valid, ValidClock
  <2> QED
    BY <1>10, <2>1, <2>2 DEF Valid
<1>14. SameMoment(read, time)
  BY <1>6, <1>9 DEF SameMoment, Total, Day, Minute
<1> QED
  BY <1>1, <1>2, <1>9, <1>12, <1>13, <1>14 DEF us

-----------------------------------------------------------------------------
\* Normalising crosses at most one turn of the year.
LEMMA NearbyYear ==
  ASSUME NEW time, Valid(time), NEW given, Valid(given), Near(OffsetMinutes(given.zone)),
         OffsetMinutes(time.zone) = 0, Total(time) = Total(given)
  PROVE  time.year <= given.year + 1
<1>1. SUFFICES ASSUME given.year + 1 < time.year
               PROVE  FALSE
  BY DEF Valid, ValidDate
<1> DEFINE between == given.year + 1
<1>2. /\ ValidDate(time.year, time.month, time.day)
      /\ ValidDate(given.year, given.month, given.day)
      /\ time.year \in Int /\ given.year \in Int
      /\ between \in Int /\ given.year < between /\ between < time.year
  BY <1>1 DEF Valid, ValidDate
<1>3. ValidDate(between, 1, 1)
  BY <1>2, MonthLength DEF ValidDate, YearValues
<1>4. /\ DayNumber(given.year, 12, 31) < DayNumber(between, 1, 1)
      /\ DayNumber(between, 1, 1) + 364 <= DayNumber(between, 12, 31)
      /\ DayNumber(between, 12, 31) < DayNumber(time.year, 1, 1)
      /\ DayNumber(between, 1, 1) \in Int /\ DayNumber(between, 12, 31) \in Int
  BY <1>2, <1>3, YearAfterYear, WithinTheYear
<1>5. /\ DayNumber(given.year, given.month, given.day) <= DayNumber(given.year, 12, 31)
      /\ DayNumber(time.year, 1, 1) <= DayNumber(time.year, time.month, time.day)
      /\ DayNumber(given.year, 12, 31) \in Int /\ DayNumber(time.year, 1, 1) \in Int
  BY <1>2, WithinTheYear
<1>6. Day(given) \in Int /\ Day(time) \in Int /\ Day(given) + 364 < Day(time)
  BY <1>4, <1>5, DayType DEF Day
<1>7. /\ Minute(given) \in Int /\ Minute(given) <= 1439
      /\ Minute(time) \in Int /\ 0 <= Minute(time)
  BY MinuteOfDay
<1> QED
  BY <1>6, <1>7 DEF Total, Near

\* The caller's years: of four digits, and not the first or the last of them.
\* What a year more can do is shown by the run on MCUtcLimits.cfg.
FourDigits ==
  /\ \A time \in Times : 1 <= time.year /\ time.year < MaxTextYear
  /\ \A txt \in Texts : 1 <= txt.year /\ txt.year < MaxTextYear

\* A text that is read is a time that can be normalised.
LEMMA ReadIsGiven ==
  ASSUME FourDigits, NEW txt \in Texts, Convert(txt).ok
  PROVE  Given(Convert(txt).time) /\ Convert(txt).time.year < MaxTextYear
<1> DEFINE time == TimeOf(txt)
<1>1. Convert(txt).time = time /\ IsValidUtc(time)
  BY DEF Convert
<1>2. /\ time = [year |-> txt.year, month |-> txt.month, day |-> txt.day,
                 hour |-> txt.hour, minute |-> txt.minute, second |-> txt.second,
                 microseconds |-> txt.fraction * Unit(txt.digits), zone |-> GetZone(txt)]
      /\ time.year = txt.year /\ time.hour = txt.hour /\ time.minute = txt.minute
      /\ time.second = txt.second /\ time.zone = GetZone(txt)
      /\ time.microseconds = txt.fraction * Unit(txt.digits)
  BY DEF TimeOf
<1> HIDE DEF time
<1>3. /\ time.zone \in [sign : {"Z", "+", "-"}, hrs : Int, mins : Int]
      /\ Near(OffsetMinutes(time.zone))
      /\ time.zone.sign = "Z" => time.zone = Zone("Z", 0, 0)
  BY <1>1, LutZones DEF IsValidUtc
<1>4. time \in Structure
  BY <1>2, <1>3, TextFields DEF Structure
<1>5. 1 <= time.year /\ time.year < MaxTextYear /\ time.year \in Int
  BY <1>2, TextFields DEF FourDigits
<1>6. 0 <= time.year /\ time.year < YearValues - 1 /\ time.year < YearValues
  BY <1>5 DEF MaxTextYear, YearValues
<1>7. Valid(time)
  BY <1>1, <1>2, <1>4, <1>6, TextFields, ValidIsValidUtc
<1> QED
  BY <1>1, <1>3, <1>5, <1>6, <1>7 DEF Given

-----------------------------------------------------------------------------
Working == {"normalise", "minutes", "days", "normalised", "compared"}

\* What the buffer says is the first time given, cut to the digits printed.
Faithful ==
  LET unit == Unit(text.digits)
  IN  /\ Convert(text).ok
      /\ Instant(Convert(text).time) =
           Instant([arg[1] EXCEPT !.microseconds = (@ \div unit) * unit])

TextInv ==
  /\ pc = "read" => /\ source \in [1..2 -> Texts] /\ ix = 1
                    /\ total_minutes = 0 /\ day_delta = 0
  /\ pc \in Working => /\ CarryInv
                       /\ \A i \in Copies : arg[i].year < MaxTextYear
  /\ pc \in {"printed", "done"} => Faithful
  /\ pc = "done" => back = Convert(text)

LEMMA TextInvInit == FourDigits /\ TextInit => TextInv
<1> SUFFICES ASSUME FourDigits, TextInit PROVE TextInv
  OBVIOUS
<1>1. CASE pc = "read"
  <2>1. ~TimeInit
    BY <1>1 DEF TimeInit, Compare
  <2> QED
    BY <1>1, <2>1 DEF TextInit, TextInv, Working
<1>2. CASE pc # "read"
  <2>1. TimeInit
    BY <1>2 DEF TextInit
  <2>2. InsideTheYears
    <3>1. MaxTextYear < YearValues - 1 /\ MaxTextYear \in Int /\ YearValues \in Int
      BY DEF MaxTextYear, YearValues
    <3>2. ASSUME NEW time \in Times
          PROVE  1 <= time.year /\ time.year < YearValues - 1
      <4>1. 1 <= time.year /\ time.year < MaxTextYear /\ time.year \in Int
        BY TimesAreValid DEF FourDigits, Valid, ValidDate
      <4> QED
        BY <3>1, <4>1
    <3> QED
      BY <3>2 DEF InsideTheYears
  <2>3. CarryInv
    BY <2>1, <2>2, CarryInit
  <2>4. PICK pair \in [1..2 -> Times] : arg = pair /\ pc = "normalise"
    BY <2>1 DEF TimeInit, Compare
  <2>5. \A i \in Copies : arg[i].year < MaxTextYear
    BY <2>4 DEF FourDigits, Copies
  <2> QED
    BY <2>3, <2>4, <2>5 DEF TextInv
<1> QED
  BY <1>1, <1>2

LEMMA BeginsNext == Begins' => CarryInv'
  BY CarryBegins, PTL

LEMMA ReadTextsStep ==
  ASSUME FourDigits, TextInv, ReadTexts
  PROVE  TextInv'
<1>1. /\ pc = "read" /\ pc' = IF \A k \in 1..2 : Convert(source[k]).ok
                               THEN "normalise" ELSE "refused"
      /\ arg' = [k \in 1..2 |-> Convert(source[k]).time] /\ utc_time' = arg'
      /\ UNCHANGED <<ix, total_minutes, day_delta>>
  BY DEF ReadTexts, Goto, locals
<1>2. CASE \A k \in 1..2 : Convert(source[k]).ok
  <2>1. 1..2 = Copies
    BY DEF Copies
  <2>2. ASSUME NEW i \in Copies
        PROVE  /\ arg'[i] = Convert(source[i]).time
               /\ Given(arg'[i]) /\ arg'[i].year < MaxTextYear
    <3>1. source[i] \in Texts
      BY <1>1, <2>1 DEF TextInv
    <3>2. Convert(source[i]).ok /\ arg'[i] = Convert(source[i]).time
      BY <1>1, <1>2, <2>1
    <3> QED
      BY <3>1, <3>2, ReadIsGiven
  <2>3. arg' = [i \in Copies |-> arg'[i]]
    BY <1>1, <2>1
  <2>4. Begins'
    BY <1>1, <1>2, <2>2, <2>3 DEF Begins, TextInv
  <2>5. CarryInv'
    BY <2>4, BeginsNext
  <2> QED
    BY <1>1, <1>2, <2>2, <2>5 DEF TextInv
<1>3. CASE ~\A k \in 1..2 : Convert(source[k]).ok
  BY <1>1, <1>3 DEF TextInv, Working
<1> QED
  BY <1>2, <1>3

LEMMA TimeStepText ==
  ASSUME TextInv, TimeStep, UNCHANGED textVars
  PROVE  TextInv'
<1>1. pc \in Working /\ arg' = arg
  BY DEF TimeStep, AlreadyZ, ToUtcZ, ShiftNegativeMinutes, ShiftPositiveMinutes,
         StoreTime, ShiftPositiveByDays, ShiftNegativeByDays, SetZ, NextCopy, Decide,
         Goto, Stay, Working
<1>2. CarryInv /\ \A i \in Copies : arg[i].year < MaxTextYear
  BY <1>1 DEF TextInv
<1>3. CarryInv'
  BY <1>2, CarryStep
<1>4. pc' \in Working
  BY <1>3 DEF CarryInv, TypeInv, Working
<1> QED
  BY <1>1, <1>2, <1>3, <1>4 DEF TextInv, Working

\* Both the caller's time and its normalised copy can be printed.
LEMMA PrintStep ==
  ASSUME TextInv, NEW time \in {arg[1], utc_time[1]}, NEW digits \in {0, 3, 6},
         NEW z \in BOOLEAN, NEW room \in Rooms, PrintTime(time, digits, z, room)
  PROVE  TextInv'
<1> DEFINE first  == arg[1]
           result == ToBuffer(time, digits, z, room)
           unit   == Unit(digits)
<1>1. /\ pc = "compared" /\ pc' = IF result.ok THEN "printed" ELSE "refused"
      /\ text' = result.text /\ arg' = arg
  BY DEF PrintTime, Goto
<1>2. CarryInv /\ 1 \in Copies /\ first.year < MaxTextYear
  BY <1>1 DEF TextInv, Working, Copies
<1>3. Normalised(1) /\ Given(first) /\ Valid(utc_time[1]) /\ Valid(first)
  BY <1>1, <1>2 DEF CarryInv, DoneInv, DecidedInv, TypeInv, Given
<1>4. /\ OffsetMinutes(utc_time[1].zone) = 0
      /\ SameMoment(utc_time[1], first)
      /\ utc_time[1].microseconds = first.microseconds
  <2>1. /\ 1440 * (Day(utc_time[1]) + 0) + Minute(utc_time[1]) = Total(first)
        /\ utc_time[1].zone = Zone("Z", 0, 0)
        /\ utc_time[1].second = first.second
        /\ utc_time[1].microseconds = first.microseconds
    BY <1>3 DEF Normalised, Carried
  <2>2. Day(utc_time[1]) \in Int /\ Minute(utc_time[1]) \in Int
    BY <1>3, DayType, MinuteOfDay
  <2>3. OffsetMinutes(utc_time[1].zone) = 0
    BY <2>1, Greenwich
  <2>4. Total(utc_time[1]) = Total(first)
    BY <2>1, <2>2, <2>3 DEF Total
  <2> QED
    BY <2>1, <2>3, <2>4 DEF SameMoment
<1>5. utc_time[1].year <= MaxTextYear /\ first.year <= MaxTextYear
  <2>1. utc_time[1].year <= first.year + 1
    BY <1>3, <1>4, NearbyYear DEF Given, SameMoment
  <2>2. first.year \in Int /\ utc_time[1].year \in Int /\ MaxTextYear \in Int
    BY <1>3 DEF Valid, ValidDate, MaxTextYear
  <2> QED
    BY <1>2, <2>1, <2>2
<1>6. /\ Valid(time) /\ time.year <= MaxTextYear
      /\ SameMoment(time, first) /\ time.microseconds = first.microseconds
  BY <1>3, <1>4, <1>5 DEF SameMoment
<1>7. CASE result.ok
  <2> DEFINE read == Convert(result.text).time
  <2>1. /\ result.text.digits = digits /\ Convert(result.text).ok
        /\ Valid(read) /\ SameMoment(read, time)
        /\ read.microseconds = (time.microseconds \div unit) * unit
    BY <1>6, <1>7, PrintsBack
  <2>2. unit \in {1000000, 1000, 1}
    BY DEF Unit
  <2> HIDE DEF result, read, unit, first
  <2>3. /\ Valid(Cut(first, unit)) /\ SameMoment(Cut(first, unit), first)
        /\ Cut(first, unit).microseconds = (first.microseconds \div unit) * unit
    BY <1>3, <2>2, CutTime
  <2>4. SameMoment(read, Cut(first, unit))
    BY <1>6, <2>1, <2>3 DEF SameMoment
  <2>5. Instant(read) = Instant(Cut(first, unit))
    BY <1>6, <2>1, <2>3, <2>4, OneInstant
  <2>6. /\ Instant(Convert(text').time)
              = Instant([arg'[1] EXCEPT !.microseconds = (@ \div unit) * unit])
        /\ Convert(text').ok /\ Unit(text'.digits) = unit
    BY <1>1, <2>1, <2>5 DEF Cut, read, unit, first
  <2>7. Faithful'
    BY <2>6 DEF Faithful
  <2> QED
    BY <1>1, <1>7, <2>7 DEF TextInv, Working
<1>8. CASE ~result.ok
  BY <1>1, <1>8 DEF TextInv, Working
<1> QED
  BY <1>7, <1>8

LEMMA TextStep ==
  ASSUME FourDigits, TextInv, [TextNext]_allVars
  PROVE  TextInv'
<1>1. CASE ReadTexts
  BY <1>1, ReadTextsStep
<1>2. CASE TimeStep /\ UNCHANGED textVars
  BY <1>2, TimeStepText
<1>3. CASE \E time \in {arg[1], utc_time[1]}, format \in Formats, room \in Rooms :
             PrintTime(time, format[1], format[2], room)
  <2>1. PICK time \in {arg[1], utc_time[1]}, format \in Formats, room \in Rooms :
               PrintTime(time, format[1], format[2], room)
    BY <1>3
  <2>2. format[1] \in {0, 3, 6} /\ format[2] \in BOOLEAN
    BY DEF Formats
  <2> QED
    BY <2>1, <2>2, PrintStep
<1>4. CASE ReadBack
  BY <1>4 DEF ReadBack, Goto, TextInv, Working, Faithful
<1>5. CASE UNCHANGED allVars
  <2>1. UNCHANGED <<pc, ix, source, arg, text, back, total_minutes, day_delta, timeVars>>
    BY <1>5 DEF allVars, timeVars, textVars, locals
  <2>2. CarryInv => CarryInv'
    BY <2>1, CarryStep
  <2>3. Faithful => Faithful'
    BY <2>1 DEF Faithful
  <2> QED
    BY <2>1, <2>2, <2>3 DEF TextInv
<1> QED
  BY <1>1, <1>2, <1>3, <1>4, <1>5 DEF TextNext

LEMMA TextInvariant == FourDigits /\ TextSpec => []TextInv
<1> SUFFICES ASSUME FourDigits PROVE TextSpec => []TextInv
  OBVIOUS
<1>1. TextInit => TextInv
  BY TextInvInit
<1>2. TextInv /\ [TextNext]_allVars => TextInv'
  BY TextStep
<1> QED
  BY <1>1, <1>2, PTL DEF TextSpec

\* Between reading and printing, times that came from texts are normalised and
\* compared as well (SameInstant, NormalisedIsValid, GreaterIsLater): what is
\* read is fit to be normalised, and nothing is normalised twice.
THEOREM ReadTimesAreNormalised ==
  FourDigits /\ TextSpec => [](SameInstant /\ NormalisedIsValid /\ GreaterIsLater)
<1>1. TextInit => SameInstant
  <2>1. ASSUME TextInit PROVE /\ utc_time = arg
                              /\ pc \in {"read", "normalise"}
    BY <2>1 DEF TextInit, TimeInit, Compare
  <2> QED
    BY <2>1 DEF SameInstant, Underway
<1>2. TextInv /\ pc \in Working => SameInstant
  BY CarryKeepsInstant DEF TextInv
<1>3. TextInv /\ TextInv' /\ SameInstant /\ [TextNext]_allVars => SameInstant'
  <2> SUFFICES ASSUME TextInv', SameInstant, [TextNext]_allVars
               PROVE  SameInstant'
    OBVIOUS
  <2>1. (TextInv /\ pc \in Working => SameInstant)'
    BY <1>2, PTL
  <2>2. CASE ReadTexts
    <3>1. pc' \in {"normalise", "refused"} /\ utc_time' = arg'
      BY <2>2 DEF ReadTexts, Goto
    <3> QED
      BY <3>1 DEF SameInstant, Underway
  <2>3. CASE TimeStep
    <3>1. pc' \in Working
      BY <2>3 DEF TimeStep, Working, Goto, Stay, AlreadyZ, ToUtcZ, ShiftNegativeMinutes,
                  ShiftPositiveMinutes, StoreTime, ShiftPositiveByDays,
                  ShiftNegativeByDays, SetZ, NextCopy, Decide
    <3> QED
      BY <2>1, <3>1
  <2>4. ASSUME UNCHANGED <<arg, utc_time, ix, day_delta, total_minutes>>,
               pc' = pc \/ {pc, pc'} \subseteq {"compared", "printed", "refused", "done"}
        PROVE  SameInstant'
    BY <2>4 DEF SameInstant, Underway
  <2>5. CASE \E time \in {arg[1], utc_time[1]}, format \in Formats, room \in Rooms :
               PrintTime(time, format[1], format[2], room)
    BY <2>4, <2>5 DEF PrintTime, Goto, locals
  <2>6. CASE ReadBack
    BY <2>4, <2>6 DEF ReadBack, Goto, locals
  <2>7. CASE UNCHANGED allVars
    BY <2>4, <2>7 DEF allVars, timeVars, locals
  <2> QED
    BY <2>2, <2>3, <2>5, <2>6, <2>7 DEF TextNext
<1>4. TextInv => NormalisedIsValid /\ GreaterIsLater
  BY CarryEndsValid, CarryOrders DEF TextInv, Working, NormalisedIsValid, GreaterIsLater
<1> QED
  BY <1>1, <1>3, <1>4, TextInvariant, PTL DEF TextSpec

\* What was printed with success reads back as the instant read first, cut to
\* the digits printed (RoundTrip), in every format, zone and size of buffer, for
\* the years in which normalising stays within four digits.
THEOREM PrintedTimesReadBack ==
  FourDigits /\ TextSpec => []RoundTrip
<1>1. TextInv => RoundTrip
  BY DEF TextInv, Faithful, RoundTrip
<1> QED
  BY <1>1, TextInvariant, PTL
=============================================================================
