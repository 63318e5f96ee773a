-------------------------------- MODULE Crc32 -------------------------------
(***************************************************************************)
(* calcCrc32.c: a checksum with a table that the first call fills.  Any    *)
(* thread or interrupt may call it, and the table has no lock.             *)
(*                                                                         *)
(* A word is the set of the positions of its ones.                         *)
(***************************************************************************)
EXTENDS Integers, Sequences, FiniteSetsExt

CONSTANTS
  Callers,      \* the contexts that call calcCrc32
  Messages,     \* sequences of bytes
  WordBits,     \* 32
  ByteBits,     \* 8
  Polynomial    \* 0xEDB88320

Word == SUBSET (0..WordBits - 1)
Byte == SUBSET (0..ByteBits - 1)

ASSUME CrcAssumption ==
  /\ ByteBits \in 1..WordBits /\ WordBits \in Nat
  /\ Polynomial \in Word
  /\ Messages \subseteq Seq(Byte)

VARIABLES
  f_crc32_lut, f_crc32_initialised,
  checksum      \* each context's call: step, data, ix, result

crcVars == <<f_crc32_lut, f_crc32_initialised, checksum>>

Rows     == 2 ^ ByteBits                   \* CALC_CRC32_LUT_LEN
AllOnes  == 0..WordBits - 1                \* CALC_CRC32_SEED
Bits(n)  == {k \in 0..ByteBits - 1 : (n \div 2 ^ k) % 2 = 1}
ShiftRight(word, n) == {k \in AllOnes : k + n \in word}
LowByte(word) == word \intersect (0..ByteBits - 1)

\* One pass of the inner loop of calcCrc32_Initialise.
DivideByX(word) ==
  SymDiff(ShiftRight(word, 1), IF 0 \in word THEN Polynomial ELSE {})

Entry(byte) ==
  LET entry[bits \in 0..ByteBits] ==
        IF bits = 0 THEN byte ELSE DivideByX(entry[bits - 1])
  IN  entry[ByteBits]

NoCall == [step |-> "idle", data |-> <<>>, ix |-> 0, result |-> {}]

CrcInit ==
  /\ f_crc32_lut = [byte \in Byte |-> {}]
  /\ f_crc32_initialised = FALSE
  /\ checksum = [c \in Callers |-> NoCall]

-----------------------------------------------------------------------------
At(c, step) == checksum[c].step = step

\* Next step of the call of c.
Proceed(c, step, ix, result) ==
  checksum' = [checksum EXCEPT ![c] =
                 [step |-> step, data |-> @.data, ix |-> ix, result |-> result]]

\* A call without data returns 0 at once.
AskNothing(c) ==
  /\ At(c, "idle")
  /\ Proceed(c, "returned", 0, {})
  /\ UNCHANGED <<f_crc32_lut, f_crc32_initialised>>

Ask(c, data) ==
  /\ At(c, "idle")
  /\ checksum' = [checksum EXCEPT ![c] =
                    [step |-> "check", data |-> data, ix |-> 0, result |-> {}]]
  /\ UNCHANGED <<f_crc32_lut, f_crc32_initialised>>

CheckTable_FlagFirst(c) ==
  /\ At(c, "check")
  /\ f_crc32_initialised' = TRUE
  /\ IF f_crc32_initialised THEN Proceed(c, "sum", 0, AllOnes)
                            ELSE Proceed(c, "fill", 0, {})
  /\ UNCHANGED f_crc32_lut

CheckTable(c) ==
  /\ At(c, "check")
  /\ IF f_crc32_initialised THEN Proceed(c, "sum", 0, AllOnes)
                            ELSE Proceed(c, "fill", 0, {})
  /\ UNCHANGED <<f_crc32_lut, f_crc32_initialised>>

\* One entry of the table; the loop counter is the caller's own.
FillRow(c) ==
  LET ix == checksum[c].ix
  IN  /\ At(c, "fill") /\ ix < Rows
      /\ f_crc32_lut' = [f_crc32_lut EXCEPT ![Bits(ix)] = Entry(Bits(ix))]
      /\ Proceed(c, "fill", ix + 1, {})
      /\ UNCHANGED f_crc32_initialised

\* The flag is set when the table is whole.
PublishTable(c) ==
  /\ At(c, "fill") /\ checksum[c].ix = Rows
  /\ f_crc32_initialised' = TRUE
  /\ Proceed(c, "sum", 0, AllOnes)
  /\ UNCHANGED f_crc32_lut

SumByte(c) ==
  LET call == checksum[c]
      row  == LowByte(SymDiff(call.result, call.data[call.ix + 1]))
  IN  /\ At(c, "sum") /\ call.ix < Len(call.data)
      /\ Proceed(c, "sum", call.ix + 1,
                 SymDiff(ShiftRight(call.result, ByteBits), f_crc32_lut[row]))
      /\ UNCHANGED <<f_crc32_lut, f_crc32_initialised>>

ReturnSum(c) ==
  LET call == checksum[c]
  IN  /\ At(c, "sum") /\ call.ix = Len(call.data)
      /\ Proceed(c, "returned", call.ix, SymDiff(call.result, AllOnes))
      /\ UNCHANGED <<f_crc32_lut, f_crc32_initialised>>

CrcStep(c) ==
  \/ AskNothing(c)
  \/ \E data \in Messages : Ask(c, data)
  \/ CheckTable(c) \/ FillRow(c) \/ PublishTable(c)
  \/ SumByte(c) \/ ReturnSum(c)

CrcNext == \E c \in Callers : CrcStep(c)

CrcSpec == CrcInit /\ [][CrcNext]_crcVars

-----------------------------------------------------------------------------
(* Properties.                                                             *)

\* The register of the checksum's definition, after each number of bits that
\* it has been fed with, the lowest of each byte first.
Fed(data, seed) ==
  LET bit(n)  == (n - 1) % ByteBits \in data[(n - 1) \div ByteBits + 1]
      fed[n \in 0..ByteBits * Len(data)] ==
        IF n = 0 THEN seed
        ELSE SymDiff(ShiftRight(fed[n - 1], 1),
                     IF bit(n) # (0 \in fed[n - 1]) THEN Polynomial ELSE {})
  IN  fed

Register(data, seed) == Fed(data, seed)[ByteBits * Len(data)]

\* "Calculate CRC-32 using polynomial 0xEDB88320, seed 0xFFFFFFFF"
\* (calcCrc32.c:46): every caller gets the checksum of its data, also while
\* another context is still filling the table or has just done so.
CrcIsExact ==
  \A c \in Callers :
    At(c, "returned") =>
      checksum[c].result = SymDiff(Register(checksum[c].data, AllOnes), AllOnes)

\* Whoever has passed the test of the flag finds every entry in place.
TableComplete ==
  /\ \A c \in Callers :
       /\ At(c, "sum") => f_crc32_initialised
       /\ At(c, "fill") => \A n \in 0..checksum[c].ix - 1 : f_crc32_lut[Bits(n)] = Entry(Bits(n))
  /\ f_crc32_initialised => \A n \in 0..Rows - 1 : f_crc32_lut[Bits(n)] = Entry(Bits(n))
=============================================================================
