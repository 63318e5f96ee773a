------------------------------- MODULE Numbers ------------------------------
(***************************************************************************)
(* A caller of mString.c and mStrToNum.c: it writes a number, or is given  *)
(* a text, and reads the text as a number of one of the four types.        *)
(***************************************************************************)
EXTENDS Strings

CONSTANTS
  NumberTexts,   \* the texts that it is given, Nul characters among them
  Widths         \* the widths it pads to, 0 for none

\* It has room for what it pads.
ASSUME NumbersAssumption ==
  /\ NumberTexts \subseteq Seq(Nat)
  /\ \A width \in Widths : width \in Nat /\ width < U32Chars /\ width < S32Chars

VARIABLES
  numberStep,    \* "idle", "text" or "read"
  reading,       \* the type read, and the value that was written
  numberText,    \* the characters
  number         \* what was read: ok, value

numberVars == <<numberStep, reading, numberText, number>>

Types == {"u8", "u16", "u32", "s32"}

Values(type) ==
  CASE type = "u8"  -> 0..U8Max
    [] type = "u16" -> 0..U16Max
    [] type = "u32" -> 0..U32Max
    [] type = "s32" -> -S32Max - 1..S32Max

NoNumber == [ok |-> FALSE, value |-> 0]

NumbersInit ==
  /\ numberStep = "idle"
  /\ reading = [type |-> "u32", given |-> TRUE, value |-> 0]
  /\ numberText = <<>>
  /\ number = NoNumber

\* What a printer writes: with its sign or without, padded or not.
NumberWritten(type, value, width) ==
  IF type = "s32"
  THEN IF width = 0 THEN Itoa(value, S32Chars) ELSE ItoaPad(value, S32Chars, width)
  ELSE IF width = 0 THEN Utoa(value, U32Chars) ELSE UtoaPad(value, U32Chars, width)

WriteNumber(type, value, width) ==
  /\ numberStep = "idle"
  /\ numberStep' = "text"
  /\ reading' = [type |-> type, given |-> FALSE, value |-> value]
  /\ numberText' = Append(NumberWritten(type, value, width), Nul)
  /\ UNCHANGED number

GiveText(type, chars) ==
  /\ numberStep = "idle"
  /\ numberStep' = "text"
  /\ reading' = [type |-> type, given |-> TRUE, value |-> 0]
  /\ numberText' = chars
  /\ UNCHANGED number

Matoi(type, str, length, old) ==
  CASE type = "u8"  -> MatoiUpTo(U8Max, str, length)
    [] type = "u16" -> MatoiUpTo(U16Max, str, length)
    [] type = "u32" -> Matoi_U32(str, length)
    [] type = "s32" -> Matoi_S32(str, length, old)

ReadNumber ==
  /\ numberStep = "text"
  /\ numberStep' = "read"
  /\ number' = Matoi(reading.type, numberText, Len(numberText), number.value)
  /\ UNCHANGED <<reading, numberText>>

NumbersNext ==
  \/ \E type \in Types, width \in Widths :
       \E value \in Values(type) : WriteNumber(type, value, width)
  \/ \E type \in Types, chars \in NumberTexts : GiveText(type, chars)
  \/ ReadNumber

NumbersSpec == NumbersInit /\ [][NumbersNext]_numberVars

-----------------------------------------------------------------------------
(* Properties.                                                             *)

\* The number that a row of digits stands for, however large.
Meaning(digits) ==
  LET value[n \in 0..Len(digits)] ==
        IF n = 0 THEN 0 ELSE value[n - 1] * Radix + (digits[n] - Char(0))
  IN  value[Len(digits)]

IsNumeral(chars) == chars # <<>> /\ \A n \in DOMAIN chars : IsDigit(chars[n])

\* The value that chars name for a reader of that type, none if it is not one.
Named(type, chars) ==
  LET negative == type = "s32" /\ chars # <<>> /\ chars[1] = Minus
      digits   == IF negative THEN Tail(chars) ELSE chars
      value    == IF negative THEN -Meaning(digits) ELSE Meaning(digits)
  IN  IF IsNumeral(digits) THEN {value} \intersect Values(type) ELSE {}

\* "true if the conversion was successful" (mStrToNum.h:16): exactly the
\* numbers of the type are read, at their value, and whatever m_itoa_s,
\* m_utoa_s and the padding functions write is the number they were given.
NumbersSurvive ==
  numberStep = "read" =>
    LET named == Named(reading.type, Visible(numberText, Len(numberText)))
    IN  /\ number.ok <=> named # {}
        /\ number.ok => number.value \in named
        /\ reading.given \/ (number.ok /\ number.value = reading.value)
=============================================================================
