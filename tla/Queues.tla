------------------------------- MODULE Queues -------------------------------
(***************************************************************************)
(* The circular buffer of lib/common/src/queues.c, shared by one producer  *)
(* (queues_pushByte, queues_pushData) and one consumer (queues_popByte,    *)
(* queues_popData) that run concurrently: two ThreadX threads, or a thread *)
(* and an interrupt handler.  There is no lock.  One step makes at most    *)
(* one access to the memory the two share: read_offset and write_offset    *)
(* (volatile) and the buffer's bytes.                                      *)
(*                                                                         *)
(* The model starts after a successful queues_initialise; that call and    *)
(* queues_reset are in QueuesLifecycle.  Bytes are stored in program order *)
(* (buffer is not volatile, so this is an assumption on the build).        *)
(*                                                                         *)
(* UpdateOffset_NoWrap and the like, with a suffix that the source does    *)
(* not have, are plausible slips in the definition named before the        *)
(* suffix.  No specification uses them: they show that a property fails    *)
(* when the code is wrong.                                                 *)
(***************************************************************************)
EXTENDS Integers, Sequences

CONSTANTS Byte,        \* the values of uint8_t the producer pushes
          UINT16_MAX,  \* the largest uint16_t: 65535 in the program
          Lengths,     \* sizes of the buffers that are attached
          MaxBatch,    \* largest in_length given to queues_pushData
          MaxRead      \* largest read_length given to queues_popData

ASSUME QueuesAssumption ==
  /\ Byte # {}
  /\ UINT16_MAX \in Nat
  /\ Lengths \subseteq 1..UINT16_MAX
  /\ MaxBatch \in 1..UINT16_MAX
  /\ MaxRead \in 1..UINT16_MAX

VARIABLES
  buffer,        \* the attached bytes
  length,        \* size of the attached buffer; push and pop only load it
  read_offset,   \* where the consumer reads from; only the consumer stores it
  write_offset,  \* where the producer writes to; only the producer stores it
  \* the producer's call in progress
  push_pc,       \* "idle", or the next access of queues_pushData
  in_data,       \* the bytes to write
  push_write,    \* write_position of queues_getNumBytesPending
  push_offset,   \* the local write_offset of queues_pushData
  push_count,    \* its byte_count
  pushed,        \* what the last finished push returned
  \* the consumer's call in progress
  pop_pc,        \* "idle", or the next access of queues_popByte / _popData
  pop_call,      \* which of the two it is
  read_length,   \* bytes desired
  pop_write,     \* write_position of queues_getNumBytesPending
  copied,        \* bytes this call will deliver
  out_buffer,    \* bytes it has stored in the caller's buffer
  pop_offset     \* read_offset as loaded for queues_updateOffset

shared   == <<buffer, length, read_offset, write_offset>>
producer == <<push_pc, in_data, push_write, push_offset, push_count, pushed>>
consumer == <<pop_pc, pop_call, read_length, pop_write, copied, out_buffer,
              pop_offset>>
vars == <<shared, producer, consumer>>

Offset(size) == 0 .. size - 1
Batch        == UNION {[1..n -> Byte] : n \in 1..MaxBatch}

-----------------------------------------------------------------------------
(* The arithmetic on offsets, in a buffer of the given size.               *)

\* What a uint16_t keeps of an integer.
Uint16(value) == value % (UINT16_MAX + 1)

UpdateOffset_NoWrap(offset, size) ==
  IF offset = size THEN 0 ELSE Uint16(offset + 1)

\* queues_updateOffset: the next slot, back to 0 after the last one.
UpdateOffset(offset, size) ==
  IF offset = size - 1 THEN 0 ELSE Uint16(offset + 1)

\* queues_getNumBytesPending, on the snapshot it took of the two offsets.
NumBytesPending(write, read, size) ==
  IF write >= read THEN write - read ELSE Uint16(size - (read - write))

HasSpace_Full(pending, in_length, size)  == pending + in_length <= size
HasSpace_Alone(pending, in_length, size) == in_length < size

\* queues_hasSpace: one slot always stays empty.
HasSpace(pending, in_length, size) == pending + in_length < size

ReadableAmount_Wanted(wanted, available) == wanted
ReadableAmount_All(wanted, available)    == available

\* queues_getReadableAmount
ReadableAmount(wanted, available) ==
  IF wanted < available THEN wanted ELSE available

IsFull_Length(pending, size) == pending = size

\* queues_isFull
IsFull(pending, size) == pending + 1 = size

-----------------------------------------------------------------------------
\* Nobody has called yet.
NoCalls ==
  /\ push_pc = "idle" /\ in_data = <<>>
  /\ push_write = 0 /\ push_offset = 0 /\ push_count = 0
  /\ pushed = FALSE
  /\ pop_pc = "idle" /\ pop_call = "data"
  /\ read_length = 0 /\ pop_write = 0 /\ copied = 0
  /\ out_buffer = <<>> /\ pop_offset = 0

Init ==
  /\ length \in Lengths
  /\ buffer \in [Offset(length) -> Byte]   \* the caller's array, as it is
  /\ read_offset = 0
  /\ write_offset = 0
  /\ NoCalls

-----------------------------------------------------------------------------
(* queues_pushData; queues_pushByte is the call with one byte.             *)

\* The call begins and queues_getNumBytesPending loads write_offset.
PushData(data) ==
  /\ push_pc = "idle"
  /\ in_data' = data
  /\ push_write' = write_offset
  /\ push_pc' = "space"
  /\ UNCHANGED <<shared, push_offset, push_count, pushed, consumer>>

PushSpace_Spin ==
  /\ push_pc = "space"
  /\ HasSpace(NumBytesPending(push_write, read_offset, length),
              Len(in_data), length)
  /\ push_pc' = "snapshot"
  /\ UNCHANGED <<shared, in_data, push_write, push_offset, push_count, pushed,
                 consumer>>

\* It loads read_offset; without room for all of in_data the call returns.
PushSpace ==
  /\ push_pc = "space"
  /\ IF HasSpace(NumBytesPending(push_write, read_offset, length),
                 Len(in_data), length)
       THEN push_pc' = "snapshot" /\ UNCHANGED pushed
       ELSE push_pc' = "idle" /\ pushed' = FALSE
  /\ UNCHANGED <<shared, in_data, push_write, push_offset, push_count,
                 consumer>>

\* The local copy of write_offset that the loop advances.
PushSnapshot ==
  /\ push_pc = "snapshot"
  /\ push_offset' = write_offset
  /\ push_count' = 0
  /\ push_pc' = "copy"
  /\ UNCHANGED <<shared, in_data, push_write, pushed, consumer>>

\* One pass of the loop: one byte stored, the local offset advanced.
PushCopy ==
  /\ push_pc = "copy"
  /\ buffer' = [buffer EXCEPT ![push_offset] = in_data[push_count + 1]]
  /\ push_offset' = UpdateOffset(push_offset, length)
  /\ push_count' = push_count + 1
  /\ push_pc' = IF push_count' = Len(in_data) THEN "publish" ELSE "copy"
  /\ UNCHANGED <<length, read_offset, write_offset, in_data, push_write, pushed,
                 consumer>>

\* The data appears in the buffer.
PushPublish ==
  /\ push_pc = "publish"
  /\ write_offset' = push_offset
  /\ pushed' = TRUE
  /\ push_pc' = "idle"
  /\ UNCHANGED <<buffer, length, read_offset, in_data, push_write,
                 push_offset, push_count, consumer>>

-----------------------------------------------------------------------------
(* queues_popByte ("byte") and queues_popData ("data").                    *)

\* The call begins and loads write_offset, in queues_isEmpty for
\* queues_popByte and in queues_getNumBytesPending for queues_popData.
Pop(call, wanted) ==
  /\ pop_pc = "idle"
  /\ pop_call' = call
  /\ read_length' = wanted
  /\ pop_write' = write_offset
  /\ copied' = 0
  /\ out_buffer' = <<>>
  /\ pop_pc' = "available"
  /\ UNCHANGED <<shared, producer, pop_offset>>

PopByte       == Pop("byte", 1)
PopData(want) == Pop("data", want)

\* queues_isEmpty loads read_offset and compares: one byte, or none.
PopNotEmpty ==
  /\ pop_pc = "available" /\ pop_call = "byte"
  /\ copied' = IF pop_write = read_offset THEN 0 ELSE 1
  /\ pop_pc' = IF copied' = 0 THEN "idle" ELSE "copy"
  /\ UNCHANGED <<shared, producer, pop_call, read_length, pop_write,
                 out_buffer, pop_offset>>

PopReadable_Spin ==
  /\ pop_pc = "available" /\ pop_call = "data"
  /\ NumBytesPending(pop_write, read_offset, length) >= read_length
  /\ copied' = read_length
  /\ pop_pc' = "copy"
  /\ UNCHANGED <<shared, producer, pop_call, read_length, pop_write,
                 out_buffer, pop_offset>>

\* queues_getNumBytesPending loads read_offset: how much can be read.
PopReadable ==
  /\ pop_pc = "available" /\ pop_call = "data"
  /\ copied' = ReadableAmount(read_length,
                              NumBytesPending(pop_write, read_offset, length))
  /\ pop_pc' = IF copied' = 0 THEN "idle" ELSE "copy"
  /\ UNCHANGED <<shared, producer, pop_call, read_length, pop_write,
                 out_buffer, pop_offset>>

\* What a load from buffer[offset] finds; behind the end of the array (where
\* only QueuesLifecycle leads) that may be anything.
BytesAt(offset) ==
  IF offset \in DOMAIN buffer THEN {buffer[offset]} ELSE Byte

\* out_buffer[byte_count] = buffer[read_offset]: the loads of the pointer, of
\* the offset and of the byte are one step, for read_offset is the consumer's
\* own.  (Where a thread's pop races with a reset, which byte it gets is not
\* told apart by any property.)
PopCopy ==
  /\ pop_pc = "copy"
  /\ \E byte \in BytesAt(read_offset) : out_buffer' = Append(out_buffer, byte)
  /\ pop_pc' = "load"
  /\ UNCHANGED <<shared, producer, pop_call, read_length, pop_write, copied,
                 pop_offset>>

\* read_offset is loaded again for queues_updateOffset ...
PopLoad ==
  /\ pop_pc = "load"
  /\ pop_offset' = read_offset
  /\ pop_pc' = "advance"
  /\ UNCHANGED <<shared, producer, pop_call, read_length, pop_write, copied,
                 out_buffer>>

\* ... and stored: the slot is free for the producer.
PopAdvance ==
  /\ pop_pc = "advance"
  /\ read_offset' = UpdateOffset(pop_offset, length)
  /\ pop_pc' = IF Len(out_buffer) = copied THEN "idle" ELSE "copy"
  /\ UNCHANGED <<buffer, length, write_offset, producer, pop_call, read_length,
                 pop_write, copied, out_buffer, pop_offset>>

-----------------------------------------------------------------------------
PushStep == PushSpace \/ PushSnapshot \/ PushCopy \/ PushPublish
PopStep  == PopNotEmpty \/ PopReadable \/ PopCopy \/ PopLoad \/ PopAdvance

Next ==
  \/ \E data \in Batch : PushData(data)
  \/ PushStep
  \/ PopByte
  \/ \E want \in 1..MaxRead : PopData(want)
  \/ PopStep

Spec == Init /\ [][Next]_vars

\* A call that has begun keeps running; nobody has to begin one.
FairSpec == Spec /\ WF_vars(PushStep) /\ WF_vars(PopStep)

-----------------------------------------------------------------------------
(* Reading the state.                                                      *)

\* The slot k places after offset.
Slot(offset, k, size) ==
  IF offset + k >= size THEN offset + k - size ELSE offset + k

Pending  == NumBytesPending(write_offset, read_offset, length)
Contents == [k \in 1..Pending |-> buffer[Slot(read_offset, k - 1, length)]]

\* The passes of the pop loop that have advanced read_offset.
PopCount ==
  IF pop_pc \in {"load", "advance"} THEN Len(out_buffer) - 1
                                    ELSE Len(out_buffer)

\* Bytes the pop call in progress has still to deliver.
Due ==
  IF pop_pc = "available"
    THEN ReadableAmount(read_length, NumBytesPending(pop_write, read_offset, length))
    ELSE copied - PopCount

-----------------------------------------------------------------------------
(* Properties.                                                             *)

\* Both offsets, and every copy of them that a call still uses, are inside
\* the buffer, whatever the interleaving, and the locals have their types.
TypeOK ==
  /\ length \in Lengths
  /\ buffer \in [Offset(length) -> Byte]
  /\ read_offset \in Offset(length) /\ write_offset \in Offset(length)
  /\ push_pc \in {"idle", "space", "snapshot", "copy", "publish"}
  /\ in_data \in Batch \cup {<<>>}
  /\ push_write \in 0..UINT16_MAX /\ push_offset \in 0..UINT16_MAX
  /\ push_pc = "space" => push_write \in Offset(length)
  /\ push_pc \in {"copy", "publish"} => push_offset \in Offset(length)
  /\ push_count \in 0..MaxBatch
  /\ push_pc = "copy" => push_count < Len(in_data)
  /\ pushed \in BOOLEAN
  /\ pop_pc \in {"idle", "available", "copy", "load", "advance"}
  /\ pop_call \in {"byte", "data"}
  /\ read_length \in 0..MaxRead
  /\ pop_write \in 0..UINT16_MAX /\ pop_offset \in 0..UINT16_MAX
  /\ pop_pc = "available" => pop_write \in Offset(length)
  /\ pop_pc = "advance" => pop_offset \in Offset(length)
  /\ copied \in Nat
  /\ out_buffer \in Seq(Byte)

\* No unread byte is overwritten: the slot the producer stores into (line
\* 241) is not one of the pending slots, so never the slot the consumer is
\* reading (lines 175, 203), although the consumer moves read_offset while
\* the producer copies on a check it made earlier.
NoUnreadOverwritten ==
  push_pc = "copy" =>
    \A k \in 0..Pending - 1 : Slot(read_offset, k, length) # push_offset

\* What the consumer decided to read on its snapshot (lines 171, 199) stays
\* available until it has read it, whatever the producer does meanwhile.
PromiseHolds == Due <= Pending

\* When write_offset is published (line 248) every byte of the batch is in
\* its place behind the pending ones: no torn batch becomes visible.
BatchComplete ==
  push_pc = "publish" =>
    \A i \in 1..Len(in_data) : buffer[Slot(write_offset, i - 1, length)] = in_data[i]

\* A single byte is refused only while queues_isFull says that the queue is
\* full (lines 42-43 and 133-134 count the empty slot differently).
RefusedOnlyWhenFull ==
  [][push_pc = "space" /\ push_pc' = "idle" /\ Len(in_data) = 1
       => IsFull(Pending, length)]_vars

\* The ring is a bounded FIFO that holds length - 1 bytes: batches appear
\* whole and in order, none is refused that would fit, and each pop delivers
\* the oldest bytes, each once, as many as it found when it looked.
Abstract == INSTANCE Fifo WITH
  capacity <- length - 1,
  queue    <- Contents,
  accepted <- pushed,
  due      <- Due,
  out      <- SubSeq(out_buffer, 1, PopCount)

ImplementsFifo == Abstract!Spec

\* Neither call waits for the other: a call that keeps running returns, even
\* when the other side never runs again or never stops.
PushReturns == (push_pc # "idle") ~> (push_pc = "idle")
PopReturns  == (pop_pc # "idle") ~> (pop_pc = "idle")
=============================================================================
