------------------------------- MODULE Strings ------------------------------
(***************************************************************************)
(* mString.c and mStrToNum.c: text in memory of limited size.  Memory is a *)
(* sequence of characters, a text ends at its first Nul.  Numbers are      *)
(* written with Radix digits (10 in the code) and their widths are         *)
(* constants, so that every limit lies within reach.                       *)
(***************************************************************************)
EXTENDS Integers, SequencesExt

CONSTANTS
  Radix,                  \* 10
  HexRadix,               \* 16
  HexDigits,              \* the digits of a uintptr_t, 16
  U8Max, U16Max, U32Max   \* UINT8_MAX, UINT16_MAX, UINT32_MAX

ASSUME StringsAssumption ==
  /\ Radix \in 2..10 /\ HexRadix \in 2..16 /\ HexDigits \in Nat
  /\ {U8Max, U16Max, U32Max} \subseteq Nat
  /\ U8Max < U16Max /\ U16Max < U32Max /\ U32Max % 2 = 1

S32Max == U32Max \div 2

\* The characters, as their codes.
Nul   == 0
Minus == 45
Char(digit) == IF digit < 10 THEN 48 + digit ELSE 97 + digit - 10
IsDigit(ch) == ch \in Char(0)..Char(Radix - 1)      \* mStrToNum_toDigit

-----------------------------------------------------------------------------
(* Lengths, and appending.                                                 *)

\* m_strlen_s: 0 too when there is no Nul among the first size characters.
StrLen(mem, size) ==
  LET ends == {n \in 1..size : n \in DOMAIN mem /\ mem[n] = Nul}
  IN  IF ends = {} THEN 0 ELSE Min(ends) - 1

\* mem with chars stored from the position after offset on.
Stored(mem, offset, chars) ==
  [n \in DOMAIN mem |-> IF n - offset \in DOMAIN chars THEN chars[n - offset] ELSE mem[n]]

\* m_strcat_s
StrCat(dest, size, src) ==
  LET d == StrLen(dest, size)
      s == StrLen(src, size)
  IN  IF size > 1 /\ d + s <= size - 1
      THEN [mem |-> Stored(dest, d, Append(SubSeq(src, 1, s), Nul)), length |-> d + s]
      ELSE [mem |-> dest, length |-> 0]

-----------------------------------------------------------------------------
(* Numbers to text.  The result is the text without its Nul, and empty     *)
(* when the function reports an error.                                     *)

Digits(value, radix) ==
  LET digits[n \in 0..value] ==
        IF n < radix THEN <<Char(n)>>
        ELSE Append(digits[n \div radix], Char(n % radix))
  IN  digits[value]

Zeros(n) == [k \in 1..n |-> Char(0)]

U32Chars == Len(Digits(U32Max, Radix)) + 1        \* M_STR_U32_CHARS
S32Chars == Len(Digits(S32Max + 1, Radix)) + 2    \* M_STR_S32_CHARS

\* m_utoa_s, m_itoa_s: the buffer must have room for the longest number.
Utoa(value, size) == IF size >= U32Chars THEN Digits(value, Radix) ELSE <<>>

Itoa(value, size) ==
  IF size < S32Chars THEN <<>>
  ELSE IF value < 0 THEN <<Minus>> \o Digits(-value, Radix)
       ELSE Digits(value, Radix)

\* The end of both padding functions: what does not fit is an error.  They
\* fill a local array before they see that (lines 220 and 251), so this is
\* what they do only for a width below U32Chars, and up to S32Chars; a wider
\* one writes past that array, and is not modelled.
Padded(sign, digits, width, size) ==
  LET zeros == width - Len(sign) - Len(digits)
      text  == sign \o Zeros(zeros) \o digits
  IN  IF zeros <= 0 THEN sign \o digits
      ELSE IF Len(text) < size THEN text ELSE <<>>

\* m_utoa_s_pad, m_itoa_s_pad with i_zero_pad.
UtoaPad(value, size, width) ==
  LET text == Utoa(value, size)
  IN  IF text = <<>> THEN text ELSE Padded(<<>>, text, width, size)

ItoaPad(value, size, width) ==
  LET text == Itoa(value, size)
      sign == IF value < 0 THEN <<Minus>> ELSE <<>>
  IN  IF text = <<>> THEN text
      ELSE Padded(sign, SubSeq(text, Len(sign) + 1, Len(text)), width, size)

\* mString_hexToString
HexToString(value, size, min_digits) ==
  LET digits == Digits(value, HexRadix)
      text   == Zeros(min_digits - Len(digits)) \o digits
  IN  IF min_digits <= HexDigits /\ Len(text) < size THEN text ELSE <<>>

-----------------------------------------------------------------------------
(* Text to numbers.                                                        *)

ScanChar_Wrap(scan, ch) ==
  LET next == (scan.value * Radix + ch - Char(0)) % (U32Max + 1)
  IN  IF scan.stopped THEN scan
      ELSE IF IsDigit(ch)
           THEN [value |-> next, ok |-> TRUE, stopped |-> FALSE]
           ELSE [scan EXCEPT !.ok = FALSE, !.stopped = TRUE]

\* One pass of the loop of mStrToNum_scanU32; a character that is no digit,
\* or a digit too many, ends it, and the value so far stays where it was put.
ScanChar(scan, ch) ==
  LET next == scan.value * Radix + ch - Char(0)
  IN  IF scan.stopped THEN scan
      ELSE IF IsDigit(ch) /\ next <= U32Max
           THEN [value |-> next, ok |-> TRUE, stopped |-> FALSE]
           ELSE [scan EXCEPT !.ok = FALSE, !.stopped = TRUE]

\* The characters looked at: up to length of them, and none from a Nul on.
Visible(str, length) ==
  LET ends == {n \in 1..length : str[n] = Nul}
  IN  SubSeq(str, 1, IF ends = {} THEN length ELSE Min(ends) - 1)

ScanU32(str, length) ==
  LET chars == Visible(str, length)
      scan[n \in 0..Len(chars)] ==
        IF n = 0 THEN [value |-> 0, ok |-> FALSE, stopped |-> FALSE]
        ELSE ScanChar(scan[n - 1], chars[n])
  IN  scan[Len(chars)]

\* matoi_u32: *value starts at 0 and keeps a number that is refused half way.
Matoi_U32(str, length) ==
  LET scan == ScanU32(str, length)
  IN  [ok |-> scan.ok, value |-> scan.value]

\* matoi_u16, matoi_u8: *value is 0 unless the number is accepted.
MatoiUpTo(max, str, length) ==
  LET scan == ScanU32(str, length)
      ok   == scan.ok /\ scan.value <= max
  IN  [ok |-> ok, value |-> IF ok THEN scan.value ELSE 0]

\* matoi_s32: *value keeps its old value when the number is refused.
Matoi_S32(str, length, old) ==
  LET negative == length > 0 /\ str[1] = Minus
      scan     == IF negative THEN ScanU32(Tail(str), length - 1)
                  ELSE ScanU32(str, length)
      ok       == scan.ok /\ scan.value <= (IF negative THEN S32Max + 1 ELSE S32Max)
  IN  [ok |-> ok, value |-> IF ~ok THEN old
                            ELSE IF negative THEN -scan.value ELSE scan.value]

=============================================================================
