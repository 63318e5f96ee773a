------------------------------- MODULE Printf -------------------------------
(***************************************************************************)
(* mPrintf.c: m_printf_n and m_snprintf_n.  A format is a sequence of what *)
(* one pass of the loop in mPrintf_formatToBuffer consumes; each pass is a *)
(* step.  The arguments are what the format asks for: a number, and a text *)
(* in memory where a pointer is expected (for %g, the text of m_ftoa_s,    *)
(* which is external).  A format of NULL does what an empty one does.      *)
(***************************************************************************)
EXTENDS Strings

CONSTANTS
  PrintFormats,   \* the formats: sequences of items
  Params,         \* the lists of arguments
  DestSizes,      \* the sizes of the buffers given to m_snprintf, 0 for NULL
  BufferSize,     \* M_PRINTF_BUFFER_SIZE, 256
  UintptrMax      \* UINTPTR_MAX

Specifiers == {"c", "s", "g", "d", "ld", "u", "x", "p"}

\* An item: a literal character, or % with its conversion, 0 flag and width.
\* "end" is a % that ends the format, "l" a %l without a d behind it.
Items == [spec : Specifiers \union {"literal", "%", "l", "?", "end"},
          ch : Nat, zero : BOOLEAN, width : Nat]
Literal(ch) == [spec |-> "literal", ch |-> ch, zero |-> FALSE, width |-> 0]
Conversion(spec, zero, width) == [spec |-> spec, ch |-> Nul, zero |-> zero, width |-> width]

\* The widths whose zeros fit the arrays of m_utoa_s_pad and m_itoa_s_pad,
\* which are filled before the fit is checked (mString.c:220 and 251).
PadFits(item) ==
  item.zero => /\ item.spec = "u" => item.width < U32Chars
               /\ item.spec \in {"d", "ld"} => item.width <= S32Chars

\* A text that a pointer leads to has a Nul at its end.
ASSUME PrintfAssumption ==
  /\ BufferSize \in Nat \ {0} /\ DestSizes \subseteq Nat /\ UintptrMax \in Nat
  /\ PrintFormats \subseteq Seq(Items)
  /\ \A format \in PrintFormats : \A n \in DOMAIN format : PadFits(format[n])
  /\ Params \subseteq Seq([number : Int, text : Seq(Nat)])
  /\ \A params \in Params : \A n \in DOMAIN params :
       params[n].text # <<>> /\ params[n].text[Len(params[n].text)] = Nul

VARIABLES
  g_m_printf_output_fn,   \* whether there is one
  printing,     \* the call: step, format, params, size (-1 for m_printf)
  progress,     \* its locals: pos, argIndex
  outBuffer, outLength,
  delivered     \* what the output function or the caller's buffer was given

printfVars == <<g_m_printf_output_fn, printing, progress, outBuffer, outLength, delivered>>

Percent == 37
TmpSize == S32Chars             \* sizeof(tmp), 12
Garbage == 1                    \* what the stack held before

NoPrint == [step |-> "idle", format |-> <<>>, params |-> <<>>, size |-> -1]

PrintfInit ==
  /\ g_m_printf_output_fn = FALSE
  /\ printing = NoPrint
  /\ progress = [pos |-> 0, argIndex |-> 0]
  /\ outBuffer = [n \in 1..BufferSize |-> Garbage]
  /\ outLength = 0
  /\ delivered = <<>>

-----------------------------------------------------------------------------
(* The buffer: memory and o_len.                                           *)

AppendChar_NoRoomForNul(out, ch) ==
  IF out.length + 1 <= BufferSize
  THEN [mem |-> Stored(out.mem, out.length, <<ch, Nul>>), length |-> out.length + 1]
  ELSE out

\* mPrintf_appendChar: what does not fit is left out.
AppendChar(out, ch) ==
  IF out.length + 1 < BufferSize
  THEN [mem |-> Stored(out.mem, out.length, <<ch, Nul>>), length |-> out.length + 1]
  ELSE out

\* mPrintf_appendCstring: where m_strcat_s reports an error, the length it
\* returns, 0, empties the buffer.
AppendCstring(out, src) ==
  LET cat == StrCat(out.mem, BufferSize, src)
  IN  [mem |-> Stored(cat.mem, cat.length, <<Nul>>), length |-> cat.length]

\* A number goes through tmp, unless it could not be converted.
AppendConverted(out, digits) ==
  IF digits = <<>> THEN out ELSE AppendCstring(out, Append(digits, Nul))

-----------------------------------------------------------------------------
(* One item.                                                               *)

ToChar(number) == number % (U8Max + 1)       \* (char), as a code
ToU32(number) == number % (U32Max + 1)
ToS32(number) == LET u == ToU32(number) IN IF u > S32Max THEN u - U32Max - 1 ELSE u

SignedText(item, number) ==
  IF item.zero THEN ItoaPad(ToS32(number), TmpSize, item.width)
               ELSE Itoa(ToS32(number), TmpSize)

UnsignedText(item, number) ==
  IF item.zero THEN UtoaPad(ToU32(number), TmpSize, item.width)
               ELSE Utoa(ToU32(number), TmpSize)

HexText(item, number) ==
  HexToString(ToU32(number), TmpSize, IF item.zero /\ item.width > 1 THEN item.width ELSE 1)

\* mPrintf_u64ToUintptr, mPrintf_formatPointerDigits
PointerDigits(number) == HexToString(number % (UintptrMax + 1), HexDigits + 1, 1)

\* mPrintf_handleSpecBasic, _handleSpecExtended, and %ld.
Converted(item, param, out) ==
  CASE item.spec = "c" -> AppendChar(out, ToChar(param.number))
    [] item.spec \in {"s", "g"} -> AppendCstring(out, param.text)
    [] item.spec \in {"d", "ld"} -> AppendConverted(out, SignedText(item, param.number))
    [] item.spec = "u" -> AppendConverted(out, UnsignedText(item, param.number))
    [] item.spec = "x" -> AppendConverted(out, HexText(item, param.number))
    [] item.spec = "p" ->
         AppendConverted(AppendChar(AppendChar(out, Char(0)), 120), PointerDigits(param.number))

TakesArgument(item, argIndex, count) == item.spec \in Specifiers /\ argIndex < count

\* A conversion without its argument, and an unknown one, print nothing.
FormatItem(item, argIndex, params, out) ==
  IF item.spec \in Specifiers
  THEN IF TakesArgument(item, argIndex, Len(params))
       THEN Converted(item, params[argIndex + 1], out) ELSE out
  ELSE CASE item.spec = "literal" -> AppendChar(out, item.ch)
         [] item.spec = "%" -> AppendChar(out, Percent)
         [] item.spec = "l" -> AppendChar(AppendChar(out, Percent), 108)
         [] item.spec \in {"?", "end"} -> out

-----------------------------------------------------------------------------
(* The calls.                                                              *)

SetOutput(set) ==
  /\ printing.step = "idle"
  /\ g_m_printf_output_fn' = set
  /\ UNCHANGED <<printing, progress, outBuffer, outLength, delivered>>

\* m_snprintf_n with a buffer; without one, or m_printf_n (size -1).
CallPrintf(format, params, size) ==
  /\ printing.step = "idle"
  /\ printing' = [step |-> IF size = 0 THEN "returned" ELSE "format",
                  format |-> format, params |-> params, size |-> size]
  /\ outBuffer' = IF size = 0 THEN outBuffer ELSE [outBuffer EXCEPT ![1] = Nul]
  /\ UNCHANGED <<g_m_printf_output_fn, progress, outLength, delivered>>

FormatPass ==
  /\ printing.step = "format" /\ progress.pos < Len(printing.format)
  /\ LET item == printing.format[progress.pos + 1]
         out  == FormatItem(item, progress.argIndex, printing.params,
                            [mem |-> outBuffer, length |-> outLength])
     IN  /\ outBuffer' = out.mem /\ outLength' = out.length
         /\ progress' =
              [pos |-> progress.pos + 1,
               argIndex |-> progress.argIndex
                 + IF TakesArgument(item, progress.argIndex, Len(printing.params))
                   THEN 1 ELSE 0]
  /\ UNCHANGED <<g_m_printf_output_fn, printing, delivered>>

Formatted == printing.step = "format" /\ progress.pos = Len(printing.format)

\* mPrintf_streamOut
StreamOut ==
  /\ Formatted /\ printing.size = -1
  /\ printing' = [printing EXCEPT !.step = "returned"]
  /\ delivered' = IF g_m_printf_output_fn THEN SubSeq(outBuffer, 1, outLength) ELSE <<>>
  /\ UNCHANGED <<g_m_printf_output_fn, progress, outBuffer, outLength>>

\* mPrintf_cpToDest: as much as leaves room for the Nul.
CopyToDest ==
  LET copyCount == Min({outLength, printing.size - 1})
  IN  /\ Formatted /\ printing.size > 0
      /\ printing' = [printing EXCEPT !.step = "returned"]
      /\ delivered' = SubSeq(outBuffer, 1, copyCount)
      /\ UNCHANGED <<g_m_printf_output_fn, progress, outBuffer, outLength>>

PrintfNext ==
  \/ \E set \in BOOLEAN : SetOutput(set)
  \/ \E format \in PrintFormats, params \in Params, size \in DestSizes \union {-1} :
       CallPrintf(format, params, size)
  \/ FormatPass \/ StreamOut \/ CopyToDest

PrintfSpec == PrintfInit /\ [][PrintfNext]_printfVars

-----------------------------------------------------------------------------
(* Properties.                                                             *)

\* The pieces of text that item n of a format stands for: the arguments go to
\* the conversions that print them, in order.
Taken(format, n) == Cardinality({k \in 1..n : format[k].spec \in Specifiers})

PiecesOf(format, params, n) ==
  LET item  == format[n]
      taken == Taken(format, n)
      param == params[taken]
  IN  CASE item.spec = "literal" -> <<<<item.ch>>>>
        [] item.spec = "%" -> <<<<Percent>>>>
        [] item.spec = "l" -> <<<<Percent>>, <<108>>>>
        [] item.spec \in {"?", "end"} -> <<>>
        [] item.spec \in Specifiers /\ taken > Len(params) -> <<>>
        [] OTHER ->
             CASE item.spec = "c" -> <<<<ToChar(param.number)>>>>
               [] item.spec \in {"s", "g"} -> <<SubSeq(param.text, 1, Len(param.text) - 1)>>
               [] item.spec \in {"d", "ld"} -> <<SignedText(item, param.number)>>
               [] item.spec = "u" -> <<UnsignedText(item, param.number)>>
               [] item.spec = "x" -> <<HexText(item, param.number)>>
               [] item.spec = "p" -> <<<<Char(0)>>, <<120>>, PointerDigits(param.number)>>

Pieces(format, params) == FlattenSeq([n \in DOMAIN format |-> PiecesOf(format, params, n)])

\* The result of a sequence of pieces with some left out.
Joined(pieces, kept) ==
  FlattenSeq([n \in DOMAIN pieces |-> IF n \in kept THEN pieces[n] ELSE <<>>])

\* What a conversion makes is printed whole, in its place, with its own
\* argument; all of it if it fits the buffer, and where it does not, pieces
\* are missing but none is cut, moved or printed twice.  The buffer's Nul is
\* where the returned length says, and m_snprintf cuts at the room it is given
\* ("Core implementation", mPrintf.h:70).  Nul characters printed by %c are
\* left out of this.
PrintsWholePieces ==
  printing.step = "returned" /\ printing.size # 0 =>
    LET pieces == Pieces(printing.format, printing.params)
        whole  == Joined(pieces, DOMAIN pieces)
        text   == SubSeq(outBuffer, 1, outLength)
    IN  Nul \notin Range(whole) =>
          /\ outLength < BufferSize /\ outBuffer[outLength + 1] = Nul
          /\ IF Len(whole) < BufferSize THEN text = whole
             ELSE \E kept \in SUBSET DOMAIN pieces : text = Joined(pieces, kept)
          /\ delivered =
               IF printing.size > 0 THEN SubSeq(text, 1, Min({outLength, printing.size - 1}))
               ELSE IF g_m_printf_output_fn THEN text ELSE <<>>
=============================================================================
