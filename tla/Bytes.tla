-------------------------------- MODULE Bytes -------------------------------
(***************************************************************************)
(* A caller of getBytes.c: it packs numbers one behind the other into a    *)
(* payload and reads them back.  Little-endian numbers go through          *)
(* getBytes_*ToBytesLe, which are told how much room is left; 16-bit       *)
(* numbers also go byte by byte, the caller looking after the room.        *)
(*                                                                         *)
(* A byte has CharBits bits, so that shifting by n bytes is dividing by    *)
(* Weight(n), what the lowest bit of byte n is worth.                      *)
(***************************************************************************)
EXTENDS Integers, SequencesExt

CONSTANTS
  CharBits,     \* 8
  FieldValues(_),  \* the numbers of each kind that are packed
  PayloadSize,  \* bytes in the caller's payload; others follow it in memory
  MaxFields     \* bound: numbers packed

ASSUME BytesAssumption ==
  /\ CharBits \in Nat \ {0}
  /\ PayloadSize \in Nat /\ MaxFields \in Nat

VARIABLES
  payload,      \* the payload, and the memory behind it
  fields        \* what has been packed: kind, value, offset

bytesVars == <<payload, fields>>

Kinds ==
  [size : {2, 4, 8}, signed : BOOLEAN, big : {FALSE}]
    \union [size : {2}, signed : BOOLEAN, big : {TRUE}]

Weight(n) == 2 ^ (CharBits * n)
Base      == Weight(1)               \* 256

NumbersOf(kind) ==                   \* of int16_t, uint16_t and so on
  LET all == Weight(kind.size)
  IN  IF kind.signed THEN -(all \div 2)..all \div 2 - 1 ELSE 0..all - 1

ASSUME FieldsAssumption ==
  \A kind \in Kinds : FieldValues(kind) \subseteq NumbersOf(kind)

Neighbour == Base     \* no byte: what the memory behind the payload holds
Behind    == 8        \* as much of it as any number could reach

BytesInit ==
  /\ payload = [n \in 1..PayloadSize + Behind |->
                  IF n <= PayloadSize THEN 0 ELSE Neighbour]
  /\ fields = <<>>

-----------------------------------------------------------------------------
(* getBytes.c *)

\* The casts between int16_t, int32_t, int64_t and their unsigned types.
Unsigned(value, size) == value % Weight(size)
Signed(value, size) ==
  IF value < Weight(size) \div 2 THEN value ELSE value - Weight(size)

\* getBytes_shiftAndMask64 and its inline copies; byte 0 is the lowest.
ByteOf(value, size, n) == (Unsigned(value, size) \div Weight(n)) % Base

GetLoByte(value) == ByteOf(value, 2, 0)
GetHiByte(value) == ByteOf(value, 2, 1)

\* mem with the bytes stored after offset.
WithBytes(mem, offset, bytes) ==
  [n \in DOMAIN mem |-> IF n - offset \in DOMAIN bytes THEN bytes[n - offset] ELSE mem[n]]

ToBytesLe_OneShort(value, size, mem, offset, payload_size) ==
  IF payload_size >= size - 1
  THEN WithBytes(mem, offset, [n \in 1..size |-> ByteOf(value, size, n - 1)])
  ELSE mem

\* getBytes_u16ToBytesLe and the like: nothing is stored where room is short.
ToBytesLe(value, size, mem, offset, payload_size) ==
  IF payload_size >= size
  THEN WithBytes(mem, offset, [n \in 1..size |-> ByteOf(value, size, n - 1)])
  ELSE mem

\* getBytes_encodeU16Le with the addresses of two bytes of mem, 0 for NULL.
EncodeLe(value, mem, low_byte, high_byte) ==
  [n \in DOMAIN mem |->
     IF n = high_byte THEN GetHiByte(value)
     ELSE IF n = low_byte THEN GetLoByte(value) ELSE mem[n]]

DecodeLe(low_byte, high_byte) == high_byte * Base + low_byte

BytesToU16(bytes)   == bytes[1] * Base + bytes[2]

BytesToU16Le(bytes) == DecodeLe(bytes[1], bytes[2])

BytesToU32Le(bytes) ==
  bytes[4] * Weight(3) + bytes[3] * Weight(2) + bytes[2] * Base + bytes[1]

-----------------------------------------------------------------------------
(* The caller.                                                             *)

Offset == IF fields = <<>> THEN 0 ELSE Last(fields).offset + Last(fields).kind.size
Room   == PayloadSize - Offset

AddField(kind, value) ==
  fields' = Append(fields, [kind |-> kind, value |-> value, offset |-> Offset])

PackLe(kind, value) ==
  /\ ~kind.big
  /\ payload' = ToBytesLe(value, kind.size, payload, Offset, Room)
  /\ IF Room >= kind.size THEN AddField(kind, value) ELSE UNCHANGED fields

\* Byte by byte, by the getters or by getBytes_encode: only where it fits.
PackPair(kind, value) ==
  /\ kind.size = 2 /\ Room >= 2
  /\ payload' =
       IF kind.big THEN WithBytes(payload, Offset, <<GetHiByte(value), GetLoByte(value)>>)
                   ELSE EncodeLe(value, payload, Offset + 1, Offset + 2)
  /\ AddField(kind, value)

BytesNext ==
  /\ Len(fields) < MaxFields
  /\ \E kind \in Kinds :
       \E value \in FieldValues(kind) : PackLe(kind, value) \/ PackPair(kind, value)

BytesSpec == BytesInit /\ [][BytesNext]_bytesVars

-----------------------------------------------------------------------------
(* Properties.                                                             *)

\* What the reader for that kind of number makes of the bytes.
Read(kind, bytes) ==
  LET value == CASE kind.big -> BytesToU16(bytes)
                 [] kind.size = 2 /\ ~kind.big -> BytesToU16Le(bytes)
                 [] kind.size = 4 -> BytesToU32Le(bytes)
  IN  IF kind.signed THEN Signed(value, kind.size) ELSE value

\* Every number packed is still there and reads back as it was given, signed
\* or not and whichever byte comes first, and memory behind the payload is
\* left alone ("must have space for at least 4 bytes", getBytes.c:163).
\* Numbers of 8 bytes have no reader: they are the sum of their bytes' worth.
FrameSurvives ==
  /\ \A n \in PayloadSize + 1..PayloadSize + Behind : payload[n] = Neighbour
  /\ \A k \in DOMAIN fields :
       LET field == fields[k]
           bytes == SubSeq(payload, field.offset + 1, field.offset + field.kind.size)
           worth(n) == bytes[n] * Weight(n - 1)
       IN  IF field.kind.size = 8
           THEN worth(1) + worth(2) + worth(3) + worth(4)
                  + worth(5) + worth(6) + worth(7) + worth(8) = Unsigned(field.value, 8)
           ELSE Read(field.kind, bytes) = field.value
=============================================================================
