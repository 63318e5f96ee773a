------------------------------- MODULE UtcText ------------------------------
(***************************************************************************)
(* A caller of lib/clock: it reads two texts (strToUtc.c), asks which is   *)
(* the later (UtcTime), prints a time (utcTime_toBuffer) and reads back    *)
(* what it printed.                                                        *)
(*                                                                         *)
(* A text is what its characters say: digits of the second's fraction,     *)
(* whether it ends in Z, the numbers, and how many characters there are.   *)
(* A text whose year has five digits has every later character one place   *)
(* to the right.  All numbers are written in digits.                       *)
(***************************************************************************)
EXTENDS UtcTime

CONSTANTS
  Texts,    \* the texts read first
  Rooms     \* the lengths of the buffers printed to

VARIABLES
  source,   \* the texts given, if any
  printed,  \* the time printed last
  text,     \* what the buffer then holds
  back      \* what was read back from it, [ok |-> FALSE] before

textVars == <<source, printed, text, back>>
allVars  == <<timeVars, textVars>>

\* YYYY-MM-DDThh:mm:ss, then .sss or .ssssss, then Z or +hh:mm.
FormatLength(digits, zulu) ==
  19 + (IF digits = 0 THEN 0 ELSE digits + 1) + (IF zulu THEN 1 ELSE 6)

Formats == {0, 3, 6} \X BOOLEAN   \* e_utc_format_t: fraction digits, Z or not

\* 10 to the number of digits that a fraction leaves out.
Unit(digits) == CASE digits = 0 -> 1000000 [] digits = 3 -> 1000 [] digits = 6 -> 1

MaxTextYear == 9999   \* with four digits

Shifted(year) == IF year > MaxTextYear THEN 1 ELSE 0

\* Every number is as many digits as it has places in the text.
ASSUME TextsAssumption ==
  \A txt \in Texts :
    /\ txt \in [digits : {0, 3, 6}, zulu : BOOLEAN, length : Nat, delimiters : BOOLEAN,
                year : 0..MaxTextYear, month : 0..99, day : 0..99,
                hour : 0..99, minute : 0..99, second : 0..99, fraction : Nat,
                zone : [sign : {"Z", "+", "-"}, hrs : 0..99, mins : 0..99]]
    /\ txt.fraction * Unit(txt.digits) <= MaxMicroseconds

-----------------------------------------------------------------------------
Blank == [year |-> 0, month |-> 0, day |-> 0, hour |-> 0, minute |-> 0,
          second |-> 0, microseconds |-> 0, zone |-> Zone("Z", 0, 0)]

\* strToUtc_checkStrLength, strToUtc_checkDelimiters.  The full stop before
\* the fraction is not looked at.
WellFormed(txt) ==
  /\ txt.length = FormatLength(txt.digits, txt.zulu)
  /\ Shifted(txt.year) = 0 /\ txt.delimiters

\* strToUtc_getZone: the length says whether there is to be a Z.
GetZone(txt) == IF txt.zulu THEN Zone("Z", 0, 0) ELSE txt.zone

TimeOf(txt) ==
  [year |-> txt.year, month |-> txt.month, day |-> txt.day,
   hour |-> txt.hour, minute |-> txt.minute, second |-> txt.second,
   microseconds |-> txt.fraction * Unit(txt.digits), zone |-> GetZone(txt)]

Convert_AnyDay(txt) ==
  LET time == TimeOf(txt)
      ok   == /\ WellFormed(txt) /\ IsValidUtc([time EXCEPT !.day = 1])
              /\ time.day \in 1..31
  IN  [ok |-> ok, time |-> IF ok THEN time ELSE Blank]

\* strToUtc_convert: date, time and zone are validated one after the other.
\* What a refused text leaves in the structure is not looked at.
Convert(txt) ==
  LET time == TimeOf(txt)
      ok   == WellFormed(txt) /\ IsValidUtc(time)
  IN  [ok |-> ok, time |-> IF ok THEN time ELSE Blank]

-----------------------------------------------------------------------------
\* utcTime_isZoneZ
IsZoneZ(zone) == zone \in {Zone("Z", 0, 0), Zone("+", 0, 0)}

\* m_snprintf writes what fits, less the terminator, and returns its length.
Copied(room, wanted) == IF wanted < room THEN wanted ELSE room - 1

PrintedZone(zone) == [zone EXCEPT !.sign = IF @ = "Z" THEN "+" ELSE @]

Fraction_Remainder(time, digits) == time.microseconds % 1000

Fraction(time, digits) == time.microseconds \div Unit(digits)

PrintedText(time, digits, zulu, length) ==
  [digits |-> digits, zulu |-> zulu, length |-> length, delimiters |-> TRUE,
   year |-> time.year, month |-> time.month, day |-> time.day,
   hour |-> time.hour, minute |-> time.minute, second |-> time.second,
   fraction |-> Fraction(time, digits), zone |-> PrintedZone(time.zone)]

\* utcTime_toBuffer: the room is checked against the format asked for; the
\* result counts as good if it has the length of the format chosen.
ToBuffer(time, digits, z, room) ==
  LET zulu   == z /\ IsZoneZ(time.zone)
      length == Copied(room, FormatLength(digits, zulu) + Shifted(time.year))
  IN  [ok |-> /\ room > FormatLength(digits, z)
              /\ IsValidUtc(time)
              /\ length = FormatLength(digits, zulu),
       text |-> PrintedText(time, digits, zulu, length)]

-----------------------------------------------------------------------------
NoText == [length |-> 0]
Unread == [ok |-> FALSE, time |-> Blank]

\* The caller has two texts, or the structures themselves.
TextInit ==
  /\ \/ /\ source \in [1..2 -> Texts]
        /\ arg = [k \in 1..2 |-> Blank] /\ utc_time = arg
        /\ ix = 1 /\ pc = "read"
        /\ total_minutes = 0 /\ day_delta = 0 /\ is_greater = FALSE
     \/ source = <<>> /\ TimeInit
  /\ printed = Blank /\ text = NoText /\ back = Unread

\* utcTime_fromString, twice; with two good texts utcTime_isGreater is called.
ReadTexts ==
  /\ Goto("read", IF \A k \in 1..2 : Convert(source[k]).ok
                    THEN "normalise" ELSE "refused")
  /\ arg' = [k \in 1..2 |-> Convert(source[k]).time]
  /\ utc_time' = arg'
  /\ UNCHANGED <<ix, locals, is_greater, textVars>>

\* The first time is printed, as it was read or normalised.
PrintTime(time, digits, z, room) ==
  LET result == ToBuffer(time, digits, z, room)
  IN  /\ Goto("compared", IF result.ok THEN "printed" ELSE "refused")
      /\ printed' = time
      /\ text' = result.text
      /\ UNCHANGED <<arg, utc_time, ix, locals, is_greater, source, back>>

ReadBack ==
  /\ Goto("printed", "done")
  /\ back' = Convert(text)
  /\ UNCHANGED <<arg, utc_time, ix, locals, is_greater, source, printed, text>>

TextNext ==
  \/ ReadTexts
  \/ TimeStep /\ UNCHANGED textVars
  \/ \E time \in {arg[1], utc_time[1]}, format \in Formats, room \in Rooms :
       PrintTime(time, format[1], format[2], room)
  \/ ReadBack

TextSpec == TextInit /\ [][TextNext]_allVars

-----------------------------------------------------------------------------
(* Properties.                                                             *)

\* The date exists: it lies before the first of the next month.
Exists(txt) ==
  /\ txt.month \in 1..12 /\ txt.day >= 1
  /\ DayNumber(txt.year, txt.month, txt.day) <
       DayNumber(txt.year + txt.month \div 12, (txt.month % 12) + 1, 1)

\* A text is accepted exactly if it has one of the six forms, its date exists,
\* its time is one of a clock and its zone is in use (strToUtc.c:286-309).
AcceptsRealDates ==
  (pc # "read" /\ source # <<>>) =>
    ((arg[1] # Blank /\ arg[2] # Blank) <=>
       \A k \in 1..2 :
         /\ source[k].length = FormatLength(source[k].digits, source[k].zulu)
         /\ source[k].delimiters /\ Exists(source[k])
         /\ source[k].hour < 24 /\ source[k].minute < 60 /\ source[k].second < 60
         /\ source[k].zulu \/ source[k].zone \in f_zone_Lut)

\* "true if the conversion was successful" (utcTime.h:111): what was printed
\* with success reads back, as the instant that was read first, cut to the
\* digits printed, whether it was normalised in between or not.
RoundTrip ==
  pc = "done" =>
    LET unit  == Unit(text.digits)
        meant == Instant([arg[1] EXCEPT !.microseconds = (@ \div unit) * unit])
    IN  back.ok /\ Instant(back.time) = meant
=============================================================================
