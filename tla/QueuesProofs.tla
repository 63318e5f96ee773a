----------------------------- MODULE QueuesProofs -----------------------------
(***************************************************************************)
(* Proofs about Queues and QueuesLifecycle, for all Lengths, every batch  *)
(* size and read size.                                                     *)
(*                                                                         *)
(* The properties of Queues are not inductive: they say nothing of a check *)
(* made on offsets that have moved since.  IInv adds, for each point of    *)
(* the two calls, what the values already loaded still guarantee.          *)
(*                                                                         *)
(* Then queues_initialise and queues_reset.  AnyMode holds however the     *)
(* contexts interleave: what the producer indexes, and how much a pop      *)
(* stores in its caller's buffer.  What the queue holds, and where the     *)
(* consumer reads, is right unless the consumer is a thread: Apart.  There *)
(* IInv survives both calls (TypeOK while the queue is initialised),       *)
(* because they only step while no call is in progress.                    *)
(***************************************************************************)
EXTENDS QueuesLifecycle, SequenceTheorems, TLAPS

\* What the producer knows: its own write_offset has not moved since it was
\* loaded, the room it found can only have grown, and the bytes copied so
\* far lie in order behind the published ones.
PushInv ==
  /\ push_pc # "idle" => in_data \in Batch
  /\ push_pc = "space" => push_write = write_offset
  /\ push_pc \in {"snapshot", "copy", "publish"} =>
       HasSpace(Pending, Len(in_data), length)
  /\ push_pc = "copy" => push_count < Len(in_data)
  /\ push_pc = "publish" => push_count = Len(in_data)
  /\ push_pc \in {"copy", "publish"} =>
       /\ push_offset = Slot(write_offset, push_count, length)
       /\ \A i \in 1..push_count :
            buffer[Slot(write_offset, i - 1, length)] = in_data[i]

\* What the consumer knows: its own read_offset has not moved since it was
\* loaded, and the bytes it found can only have become more.
PopInv ==
  /\ pop_pc # "idle" => read_length \in 1..MaxRead
  /\ pop_pc = "available" =>
       /\ NumBytesPending(pop_write, read_offset, length) <= Pending
       /\ pop_call = "byte" => read_length = 1
       /\ out_buffer = <<>>
  /\ pop_pc \notin {"idle", "available"} =>
       /\ Len(out_buffer) <= copied
       /\ copied - PopCount <= Pending
  /\ pop_pc = "copy" => Len(out_buffer) < copied
  /\ pop_pc \in {"load", "advance"} => 
       /\ Len(out_buffer) > 0
       /\ out_buffer[Len(out_buffer)] = buffer[read_offset]
  /\ pop_pc = "advance" => pop_offset = read_offset
  /\ pop_pc = "idle" => copied = PopCount

IInv == TypeOK /\ PushInv /\ PopInv

-----------------------------------------------------------------------------
(* The arithmetic of the ring.                                             *)

\* The constants are natural numbers, the ones that count something positive.
LEMMA LengthRange ==
  /\ \A size \in Lengths : size \in 1..UINT16_MAX
  /\ UINT16_MAX \in Nat
  /\ MaxBatch \in Nat /\ MaxRead \in Nat /\ MaxRead >= 1
  BY QueuesAssumption DEF QueuesAssumption

\* A uint16_t keeps its own values, and makes one of every integer.
LEMMA Uint16Keeps ==
  /\ \A v \in 0..UINT16_MAX : Uint16(v) = v
  /\ \A v \in Int : Uint16(v) \in 0..UINT16_MAX
<1> DEFINE m == UINT16_MAX + 1
<1>1. m \in Nat /\ m > 0
  BY LengthRange
<1>2. \A v \in Int : v % m \in 0..m - 1
  BY <1>1
<1>3. \A v \in 0..m - 1 : v % m = v
  BY <1>1
<1> QED
  BY <1>1, <1>2, <1>3, LengthRange DEF Uint16

LEMMA OffsetsAreUint16 == \A size \in Lengths : Offset(size) \subseteq 0..UINT16_MAX
  BY LengthRange DEF Offset

\* Inside a buffer nothing is cut to 16 bits.
LEMMA UpdateInside ==
  ASSUME NEW size \in Lengths, NEW o \in Offset(size)
  PROVE  /\ UpdateOffset(o, size) = IF o = size - 1 THEN 0 ELSE o + 1
         /\ UpdateOffset(o, size) \in Offset(size)
<1>1. o # size - 1 => o + 1 \in 0..UINT16_MAX
  BY LengthRange DEF Offset
<1>2. UpdateOffset(o, size) = IF o = size - 1 THEN 0 ELSE o + 1
  BY <1>1, Uint16Keeps DEF UpdateOffset
<1> QED
  BY <1>2, LengthRange DEF Offset

LEMMA PendingInside ==
  ASSUME NEW size \in Lengths, NEW w \in Offset(size), NEW r \in Offset(size)
  PROVE  NumBytesPending(w, r, size) = IF w >= r THEN w - r ELSE size - (r - w)
<1>1. w < r => size - (r - w) \in 0..UINT16_MAX
  BY LengthRange DEF Offset
<1>2. ~(w >= r) => w < r
  BY LengthRange DEF Offset
<1> QED
  BY <1>1, <1>2, Uint16Keeps DEF NumBytesPending

\* The slot k places on from an offset is a slot of the buffer.
LEMMA SlotIsOffset ==
  ASSUME NEW size \in Lengths, NEW o \in Offset(size), NEW k \in 0..size
  PROVE  Slot(o, k, size) \in Offset(size)
  BY LengthRange DEF Slot, Offset

\* queues_updateOffset moves one slot on.
LEMMA UpdateIsNextSlot ==
  ASSUME NEW size \in Lengths, NEW o \in Offset(size), NEW k \in 0..size - 1
  PROVE  UpdateOffset(Slot(o, k, size), size) = Slot(o, k + 1, size)
<1>1. Slot(o, k, size) \in Offset(size)
  BY SlotIsOffset, LengthRange
<1>2. UpdateOffset(Slot(o, k, size), size)
        = IF Slot(o, k, size) = size - 1 THEN 0 ELSE Slot(o, k, size) + 1
  BY <1>1, UpdateInside
<1>3. CASE o + k < size
  BY <1>2, <1>3, LengthRange DEF Slot, Offset
<1>4. CASE o + k >= size
  <2>1. Slot(o, k, size) = o + k - size /\ Slot(o, k, size) # size - 1
    BY <1>4, LengthRange DEF Slot, Offset
  <2>2. Slot(o, k + 1, size) = o + k + 1 - size
    BY <1>4, LengthRange DEF Slot, Offset
  <2> QED
    BY <1>2, <2>1, <2>2, LengthRange DEF Offset
<1> QED
  BY <1>3, <1>4, LengthRange DEF Offset

\* The number of pending bytes is never the size of the buffer.
LEMMA PendingRange ==
  ASSUME NEW size \in Lengths, NEW w \in Offset(size), NEW r \in Offset(size)
  PROVE  NumBytesPending(w, r, size) \in 0..size - 1
  BY PendingInside, LengthRange DEF Offset

\* Publishing n bytes that had space makes n more bytes pending.
LEMMA PendingAfterPush ==
  ASSUME NEW size \in Lengths, NEW w \in Offset(size), NEW r \in Offset(size),
         NEW n \in Nat, HasSpace(NumBytesPending(w, r, size), n, size)
  PROVE  NumBytesPending(Slot(w, n, size), r, size) = NumBytesPending(w, r, size) + n
<1>1. NumBytesPending(w, r, size) + n < size
  BY DEF HasSpace
<1>2. n \in 0..size /\ Slot(w, n, size) \in Offset(size)
  BY <1>1, PendingRange, SlotIsOffset, LengthRange
<1>3. NumBytesPending(w, r, size) = IF w >= r THEN w - r ELSE size - (r - w)
  BY PendingInside
<1>4. NumBytesPending(Slot(w, n, size), r, size)
        = IF Slot(w, n, size) >= r THEN Slot(w, n, size) - r
                                   ELSE size - (r - Slot(w, n, size))
  BY <1>2, PendingInside
<1> QED
  BY <1>1, <1>3, <1>4, LengthRange DEF Slot, Offset

\* Advancing read_offset over a pending byte leaves one byte fewer.
LEMMA PendingAfterPop ==
  ASSUME NEW size \in Lengths, NEW w \in Offset(size), NEW r \in Offset(size),
         NumBytesPending(w, r, size) > 0
  PROVE  NumBytesPending(w, UpdateOffset(r, size), size) = NumBytesPending(w, r, size) - 1
<1>1. /\ UpdateOffset(r, size) = IF r = size - 1 THEN 0 ELSE r + 1
      /\ UpdateOffset(r, size) \in Offset(size)
  BY UpdateInside
<1>2. NumBytesPending(w, r, size) = IF w >= r THEN w - r ELSE size - (r - w)
  BY PendingInside
<1>3. NumBytesPending(w, UpdateOffset(r, size), size)
        = IF w >= UpdateOffset(r, size) THEN w - UpdateOffset(r, size)
                                        ELSE size - (UpdateOffset(r, size) - w)
  BY <1>1, PendingInside
<1> QED
  BY <1>1, <1>2, <1>3, LengthRange DEF Offset

\* The slots a batch with space goes to are none of the pending ones.
LEMMA FreeSlots ==
  ASSUME NEW size \in Lengths, NEW w \in Offset(size), NEW r \in Offset(size),
         NEW k \in Nat, HasSpace(NumBytesPending(w, r, size), k + 1, size),
         NEW j \in 0..NumBytesPending(w, r, size) - 1
  PROVE  Slot(r, j, size) # Slot(w, k, size)
<1>1. NumBytesPending(w, r, size) = IF w >= r THEN w - r ELSE size - (r - w)
  BY PendingInside
<1> QED
  BY <1>1, LengthRange DEF HasSpace, Slot, Offset

\* Different places on from one offset are different slots.
LEMMA SlotsDiffer ==
  ASSUME NEW size \in Lengths, NEW o \in Offset(size),
         NEW i \in 0..size - 1, NEW j \in 0..size - 1, i # j
  PROVE  Slot(o, i, size) # Slot(o, j, size)
  BY LengthRange DEF Slot, Offset

\* A batch is a non-empty sequence of bytes no longer than MaxBatch.
LEMMA BatchIsSequence ==
  ASSUME NEW d \in Batch
  PROVE  /\ d \in Seq(Byte)
         /\ Len(d) \in 1..MaxBatch
         /\ \A i \in 1..Len(d) : d[i] \in Byte
<1>1. PICK n \in 1..MaxBatch : d \in [1..n -> Byte]
  BY DEF Batch
<1>2. n \in Nat
  OBVIOUS
<1>3. d \in Seq(Byte)
  BY <1>1, <1>2
<1>4. Len(d) = n
  BY <1>1, <1>2, <1>3
<1> QED
  BY <1>1, <1>3, <1>4

\* The empty and the one-place move.
LEMMA SlotZero ==
  ASSUME NEW size \in Lengths, NEW o \in Offset(size)
  PROVE  Slot(o, 0, size) = o
  BY LengthRange DEF Slot, Offset

-----------------------------------------------------------------------------
(* The inductive invariant.                                                *)

\* No call is in progress in a fresh queue.
LEMMA InitIInv == Init => IInv
<1> SUFFICES ASSUME Init PROVE IInv
  OBVIOUS
<1>1. length \in Lengths /\ 0 \in Offset(length)
  BY LengthRange DEF Init, Offset
<1>2. TypeOK
  BY <1>1 DEF Init, NoCalls, TypeOK
<1>3. PushInv
  BY DEF Init, NoCalls, PushInv
<1>4. PopInv
  BY DEF Init, NoCalls, PopInv, PopCount
<1> QED
  BY <1>2, <1>3, <1>4 DEF IInv

\* A push begins: the producer has loaded its own write_offset.
LEMMA PushDataStep ==
  ASSUME IInv, NEW data \in Batch, PushData(data)
  PROVE  IInv'
<1>0. /\ length \in Lengths /\ length \in Nat /\ length \in 1..UINT16_MAX
      /\ Offset(length) \subseteq 0..UINT16_MAX
  BY LengthRange, OffsetsAreUint16 DEF IInv, TypeOK
<1> USE <1>0
<1> USE DEF IInv, PushData, shared, consumer
<1>1. TypeOK'
  BY DEF TypeOK
<1>2. PushInv'
  BY DEF PushInv
<1>3. PopInv'
  BY DEF PopInv, PopCount, Pending
<1> QED
  BY <1>1, <1>2, <1>3

\* The producer's check: the room it found is there.
LEMMA PushSpaceStep ==
  ASSUME IInv, PushSpace
  PROVE  IInv'
<1>0. /\ length \in Lengths /\ length \in Nat /\ length \in 1..UINT16_MAX
      /\ Offset(length) \subseteq 0..UINT16_MAX
  BY LengthRange, OffsetsAreUint16 DEF IInv, TypeOK
<1> USE <1>0
<1> USE DEF IInv, PushSpace, shared, consumer
<1>1. TypeOK'
  BY DEF TypeOK
<1>2. PushInv'
  BY DEF PushInv, Pending
<1>3. PopInv'
  BY DEF PopInv, PopCount, Pending
<1> QED
  BY <1>1, <1>2, <1>3

\* The copy begins where the published bytes end.
LEMMA PushSnapshotStep ==
  ASSUME IInv, PushSnapshot
  PROVE  IInv'
<1>0. /\ length \in Lengths /\ length \in Nat /\ length \in 1..UINT16_MAX
      /\ Offset(length) \subseteq 0..UINT16_MAX
  BY LengthRange, OffsetsAreUint16 DEF IInv, TypeOK
<1> USE <1>0
<1> USE DEF IInv, PushSnapshot, shared, consumer
<1>1. in_data \in Batch /\ Len(in_data) \in 1..MaxBatch
  BY BatchIsSequence DEF PushInv
<1>2. TypeOK'
  BY <1>1, LengthRange DEF TypeOK
<1>3. PushInv'
  BY <1>1, SlotZero DEF PushInv, Pending, TypeOK
<1>4. PopInv'
  BY DEF PopInv, PopCount, Pending
<1> QED
  BY <1>2, <1>3, <1>4

\* The byte goes to a free slot: neither a pending byte nor a byte of the
\* batch copied before it changes.
LEMMA PushCopyStep ==
  ASSUME IInv, PushCopy
  PROVE  IInv'
<1>0. /\ length \in Lengths /\ length \in Nat /\ length \in 1..UINT16_MAX
      /\ Offset(length) \subseteq 0..UINT16_MAX
  BY LengthRange, OffsetsAreUint16 DEF IInv, TypeOK
<1> USE <1>0
<1> USE DEF IInv, PushCopy, consumer
<1>1. /\ in_data \in Batch /\ Len(in_data) \in 1..MaxBatch
      /\ in_data[push_count + 1] \in Byte
      /\ push_count \in Nat /\ push_count < Len(in_data)
  BY BatchIsSequence, LengthRange DEF PushInv, TypeOK
<1>2. /\ Pending \in 0..length - 1
      /\ Pending + Len(in_data) < length
      /\ push_offset = Slot(write_offset, push_count, length)
      /\ push_offset \in Offset(length)
      /\ UpdateOffset(push_offset, length) = Slot(write_offset, push_count + 1, length)
      /\ UpdateOffset(push_offset, length) \in Offset(length)
  <2>1. Pending \in 0..length - 1
    BY PendingRange DEF TypeOK, Pending
  <2>2. Pending + Len(in_data) < length
    BY DEF PushInv, HasSpace
  <2>3. push_count \in 0..length - 1
    BY <1>1, <2>1, <2>2, LengthRange
  <2>4. push_offset \in Offset(length) /\ write_offset \in Offset(length)
    BY DEF TypeOK
  <2>5. push_offset = Slot(write_offset, push_count, length)
    BY DEF PushInv
  <2>6. UpdateOffset(push_offset, length) \in Offset(length)
    BY <2>4, UpdateInside
  <2> QED
    BY <2>1, <2>2, <2>3, <2>4, <2>5, <2>6, UpdateIsNextSlot
<1>3. TypeOK'
  BY <1>1, <1>2, LengthRange DEF TypeOK
<1>4. \A i \in 1..push_count + 1 :
        buffer'[Slot(write_offset, i - 1, length)] = in_data[i]
  <2>1. ASSUME NEW i \in 1..push_count
        PROVE  buffer'[Slot(write_offset, i - 1, length)] = in_data[i]
    <3>0. /\ push_count \in 0..length - 1 /\ i - 1 \in 0..length - 1
          /\ i - 1 \in 0..length /\ i - 1 # push_count
          /\ write_offset \in Offset(length)
      BY <1>1, <1>2 DEF TypeOK
    <3>1. Slot(write_offset, i - 1, length) # push_offset
      BY <1>2, <3>0, SlotsDiffer
    <3>2. buffer[Slot(write_offset, i - 1, length)] = in_data[i]
      BY DEF PushInv
    <3>3. Slot(write_offset, i - 1, length) \in Offset(length)
      BY <3>0, SlotIsOffset
    <3> QED
      BY <3>1, <3>2, <3>3 DEF TypeOK
  <2>2. buffer'[Slot(write_offset, push_count, length)] = in_data[push_count + 1]
    BY <1>2 DEF TypeOK
  <2>3. ASSUME NEW i \in 1..push_count + 1
        PROVE  buffer'[Slot(write_offset, i - 1, length)] = in_data[i]
    <3>1. i \in 1..push_count \/ (i = push_count + 1 /\ i - 1 = push_count)
      BY <1>1
    <3> QED
      BY <2>1, <2>2, <3>1
  <2> QED
    BY <2>3
<1>5. PushInv'
  BY <1>1, <1>2, <1>4 DEF PushInv, Pending
<1>6. Pending > 0 => buffer'[read_offset] = buffer[read_offset]
  <2>1. ASSUME Pending > 0
        PROVE  Slot(read_offset, 0, length) # push_offset
    <3>1. HasSpace(Pending, push_count + 1, length) /\ 0 \in 0..Pending - 1
      BY <1>1, <1>2, <2>1 DEF HasSpace
    <3> QED
      BY <1>1, <1>2, <3>1, FreeSlots DEF TypeOK, Pending
  <2> QED
    BY <2>1, SlotZero DEF TypeOK
<1>7. PopInv'
  <2>1. Pending' = Pending /\ PopCount' = PopCount
    BY DEF Pending, PopCount
  <2>2. ASSUME pop_pc \in {"load", "advance"}
        PROVE  Pending > 0
    <3>1. /\ Len(out_buffer) <= copied /\ copied - PopCount <= Pending
          /\ PopCount = Len(out_buffer) - 1
      BY <2>2 DEF PopInv, PopCount
    <3>2. Len(out_buffer) \in Nat /\ copied \in Nat
      BY DEF TypeOK
    <3> QED
      BY <1>2, <3>1, <3>2
  <2>3. PopInv
    OBVIOUS
  <2> HIDE DEF IInv
  <2> QED
    BY <1>6, <2>1, <2>2, <2>3 DEF PopInv
<1> QED
  BY <1>3, <1>5, <1>7

\* The published batch adds to what the consumer may read.
LEMMA PushPublishStep ==
  ASSUME IInv, PushPublish
  PROVE  IInv'
<1>0. /\ length \in Lengths /\ length \in Nat /\ length \in 1..UINT16_MAX
      /\ Offset(length) \subseteq 0..UINT16_MAX
  BY LengthRange, OffsetsAreUint16 DEF IInv, TypeOK
<1> USE <1>0
<1> USE DEF IInv, PushPublish, consumer
<1>1. /\ in_data \in Batch /\ Len(in_data) \in 1..MaxBatch
      /\ Pending \in 0..length - 1
      /\ HasSpace(Pending, Len(in_data), length)
      /\ push_offset = Slot(write_offset, Len(in_data), length)
  BY BatchIsSequence, PendingRange DEF PushInv, TypeOK, Pending
<1>2. Pending' = Pending + Len(in_data)
  BY <1>1, PendingAfterPush, LengthRange DEF TypeOK, Pending
<1>3. TypeOK'
  BY DEF TypeOK
<1>4. PushInv'
  BY DEF PushInv
<1>5. PopInv'
  <2>1. Pending' >= Pending
    BY <1>1, <1>2, LengthRange
  <2>2. pop_pc = "available" => NumBytesPending(pop_write, read_offset, length) \in Nat
    BY PendingRange DEF TypeOK
  <2>3. PopCount \in Int /\ PopCount' = PopCount
    BY DEF PopCount, TypeOK
  <2> QED
    BY <1>1, <1>2, <2>1, <2>2, <2>3 DEF PopInv, TypeOK
<1> QED
  BY <1>3, <1>4, <1>5

\* A pop begins: what it may find can only be less than is pending.
LEMMA PopStartStep ==
  ASSUME IInv,
         NEW call \in {"byte", "data"}, NEW want \in 1..MaxRead,
         call = "byte" => want = 1,
         Pop(call, want)
  PROVE  IInv'
<1>0. /\ length \in Lengths /\ length \in Nat /\ length \in 1..UINT16_MAX
      /\ Offset(length) \subseteq 0..UINT16_MAX
  BY LengthRange, OffsetsAreUint16 DEF IInv, TypeOK
<1> USE <1>0
<1> USE DEF IInv, Pop, shared, producer
<1>1. TypeOK'
  BY LengthRange DEF TypeOK
<1>2. PushInv'
  BY DEF PushInv, Pending
<1>3. PopInv'
  <2>1. pop_pc' = "available" /\ out_buffer' = <<>> /\ read_length' = want
    OBVIOUS
  <2>2. pop_call' = "byte" => read_length' = 1
    OBVIOUS
  <2>3. NumBytesPending(pop_write', read_offset', length) = Pending
    BY DEF Pending
  <2>4. Pending' = Pending /\ Pending \in 0..length - 1
    BY PendingRange DEF Pending, TypeOK
  <2> QED
    BY <2>1, <2>2, <2>3, <2>4, LengthRange DEF PopInv
<1> QED
  BY <1>1, <1>2, <1>3

\* What the call decides to deliver is pending, in both kinds of call.
LEMMA PopAvailableStep ==
  ASSUME IInv, PopNotEmpty \/ PopReadable
  PROVE  IInv'
<1>0. /\ length \in Lengths /\ length \in Nat /\ length \in 1..UINT16_MAX
      /\ Offset(length) \subseteq 0..UINT16_MAX
  BY LengthRange, OffsetsAreUint16 DEF IInv, TypeOK
<1> USE <1>0
<1> USE DEF IInv, PopNotEmpty, PopReadable, shared, producer
<1>1. /\ pop_pc = "available"
      /\ read_length \in 1..MaxRead
      /\ NumBytesPending(pop_write, read_offset, length) \in 0..length - 1
      /\ NumBytesPending(pop_write, read_offset, length) <= Pending
      /\ Pending \in 0..length - 1
      /\ out_buffer = <<>>
  BY PendingRange DEF PopInv, TypeOK, Pending
<1>2. copied' \in Nat /\ copied' <= Pending
  <2>1. CASE PopNotEmpty
    <3>1. /\ pop_write \in Nat /\ read_offset \in Nat
          /\ NumBytesPending(pop_write, read_offset, length) = 0
               => pop_write = read_offset
      BY PendingInside DEF TypeOK, Offset
    <3>2. pop_write # read_offset => Pending >= 1
      BY <1>1, <3>1
    <3> QED
      BY <1>1, <2>1, <3>2
  <2>2. CASE PopReadable
    BY <1>1, <2>2, LengthRange DEF ReadableAmount
  <2> QED
    BY <2>1, <2>2
<1>3. pop_pc' = IF copied' = 0 THEN "idle" ELSE "copy"
  OBVIOUS
<1>4. TypeOK'
  BY <1>2, <1>3 DEF TypeOK
<1>5. PushInv'
  BY DEF PushInv, Pending
<1>6. PopInv'
  BY <1>1, <1>2, <1>3, LengthRange DEF PopInv, PopCount, Pending
<1> QED
  BY <1>4, <1>5, <1>6

\* The byte copied is the oldest pending one.
LEMMA PopCopyStep ==
  ASSUME IInv, PopCopy
  PROVE  IInv'
<1>0. /\ length \in Lengths /\ length \in Nat /\ length \in 1..UINT16_MAX
      /\ Offset(length) \subseteq 0..UINT16_MAX
  BY LengthRange, OffsetsAreUint16 DEF IInv, TypeOK
<1> USE <1>0
<1> USE DEF IInv, PopCopy, shared, producer
<1>4. /\ buffer[read_offset] \in Byte
      /\ out_buffer' = Append(out_buffer, buffer[read_offset])
  BY DEF TypeOK, BytesAt
<1>1. TypeOK'
  BY <1>4 DEF TypeOK
<1>2. PushInv'
  BY DEF PushInv, Pending
<1>3. /\ Len(out_buffer') = Len(out_buffer) + 1
      /\ out_buffer'[Len(out_buffer')] = buffer[read_offset]
  BY <1>4 DEF TypeOK
<1>5. PopInv'
  BY <1>3 DEF PopInv, PopCount, Pending, TypeOK
<1> QED
  BY <1>1, <1>2, <1>5

\* The consumer loads its own read_offset.
LEMMA PopLoadStep ==
  ASSUME IInv, PopLoad
  PROVE  IInv'
<1>0. /\ length \in Lengths /\ length \in Nat /\ length \in 1..UINT16_MAX
      /\ Offset(length) \subseteq 0..UINT16_MAX
  BY LengthRange, OffsetsAreUint16 DEF IInv, TypeOK
<1> USE <1>0
<1> USE DEF IInv, PopLoad, shared, producer
<1>1. TypeOK'
  BY DEF TypeOK
<1>2. PushInv'
  BY DEF PushInv, Pending
<1>3. PopInv'
  BY DEF PopInv, PopCount, Pending
<1> QED
  BY <1>1, <1>2, <1>3

\* Freeing a slot makes one byte fewer pending, and room for one more.
LEMMA PopAdvanceStep ==
  ASSUME IInv, PopAdvance
  PROVE  IInv'
<1>0. /\ length \in Lengths /\ length \in Nat /\ length \in 1..UINT16_MAX
      /\ Offset(length) \subseteq 0..UINT16_MAX
  BY LengthRange, OffsetsAreUint16 DEF IInv, TypeOK
<1> USE <1>0
<1> USE DEF IInv, PopAdvance, producer
<1>1. /\ pop_offset = read_offset
      /\ Len(out_buffer) \in Nat /\ Len(out_buffer) > 0
      /\ Len(out_buffer) <= copied
      /\ copied - (Len(out_buffer) - 1) <= Pending
      /\ Pending \in 0..length - 1
  BY PendingRange DEF PopInv, PopCount, TypeOK, Pending
<1>2. read_offset' \in Offset(length) /\ Pending' = Pending - 1
  BY <1>1, PendingAfterPop, UpdateInside DEF TypeOK, Pending
<1>3. TypeOK'
  BY <1>2 DEF TypeOK
<1>4. PushInv'
  <2>1. HasSpace(Pending, Len(in_data), length) /\ Len(in_data) \in Nat =>
          HasSpace(Pending', Len(in_data), length)
    BY <1>1, <1>2, LengthRange DEF HasSpace
  <2>2. push_pc # "idle" => Len(in_data) \in Nat
    BY BatchIsSequence, LengthRange DEF PushInv
  <2> QED
    BY <2>1, <2>2 DEF PushInv
<1>5. PopInv'
  BY <1>1, <1>2 DEF PopInv, PopCount, TypeOK
<1> QED
  BY <1>3, <1>4, <1>5

\* Every step of either side preserves the invariant.
LEMMA NextIInv == IInv /\ [Next]_vars => IInv'
<1> SUFFICES ASSUME IInv, [Next]_vars PROVE IInv'
  OBVIOUS
<1>1. CASE \E data \in Batch : PushData(data)
  BY <1>1, PushDataStep
<1>2. CASE PushStep
  BY <1>2, PushSpaceStep, PushSnapshotStep, PushCopyStep, PushPublishStep
     DEF PushStep
<1>3. CASE PopByte
  BY <1>3, PopStartStep, LengthRange DEF PopByte
<1>4. CASE \E want \in 1..MaxRead : PopData(want)
  BY <1>4, PopStartStep DEF PopData
<1>5. CASE PopStep
  BY <1>5, PopAvailableStep, PopCopyStep, PopLoadStep, PopAdvanceStep
     DEF PopStep
<1>6. CASE UNCHANGED vars
  <2> USE <1>6 DEF vars, shared, producer, consumer
  <2>1. TypeOK' = TypeOK
    BY DEF TypeOK
  <2>2. PushInv' = PushInv
    BY DEF PushInv, Pending
  <2>3. PopInv' = PopInv
    BY DEF PopInv, PopCount, Pending
  <2> QED
    BY <2>1, <2>2, <2>3 DEF IInv
<1> QED
  BY <1>1, <1>2, <1>3, <1>4, <1>5, <1>6 DEF Next

\* The inductive invariant holds in every reachable state.
THEOREM Inductive == Spec => []IInv
  BY InitIInv, NextIInv, PTL DEF Spec

-----------------------------------------------------------------------------
(* What follows from it.                                                   *)

\* Every offset stays inside the buffer and every local has its type,
\* whatever the interleaving of the two calls.
THEOREM TypeCorrect == Spec => []TypeOK
<1>1. IInv => TypeOK
  BY DEF IInv
<1> QED
  BY <1>1, Inductive, PTL

\* The slot about to be stored into lies in the room found earlier.
LEMMA UnreadNotOverwritten == IInv => NoUnreadOverwritten
<1> SUFFICES ASSUME IInv, push_pc = "copy", NEW k \in 0..Pending - 1
             PROVE  Slot(read_offset, k, length) # push_offset
  BY DEF NoUnreadOverwritten
<1>1. /\ push_offset = Slot(write_offset, push_count, length)
      /\ push_count \in Nat /\ push_count < Len(in_data)
      /\ HasSpace(Pending, Len(in_data), length)
      /\ Len(in_data) \in Nat
  BY BatchIsSequence, LengthRange DEF IInv, PushInv, TypeOK
<1>2. Pending \in 0..length - 1
  BY PendingRange DEF IInv, TypeOK, Pending
<1>3. length \in Lengths /\ length \in Nat
  BY LengthRange DEF IInv, TypeOK
<1>4. HasSpace(Pending, push_count + 1, length)
  BY <1>1, <1>2, <1>3 DEF HasSpace
<1> QED
  BY <1>1, <1>3, <1>4, FreeSlots DEF IInv, TypeOK, Pending

\* The producer never stores into a slot that holds an unread byte.
THEOREM UnreadBytesSafe == Spec => []NoUnreadOverwritten
  BY UnreadNotOverwritten, Inductive, PTL

\* The bytes a pop has decided to deliver stay pending until delivered.
THEOREM PromiseKept == Spec => []PromiseHolds
<1>1. IInv => PromiseHolds
  <2> SUFFICES ASSUME IInv PROVE Due <= Pending
    BY DEF PromiseHolds
  <2>1. Pending \in 0..length - 1
    BY PendingRange DEF IInv, TypeOK, Pending
  <2>2. CASE pop_pc = "idle"
    <3>1. copied = PopCount /\ copied \in Nat
      BY <2>2 DEF IInv, PopInv, TypeOK
    <3> QED
      BY <2>1, <2>2, <3>1, LengthRange DEF Due
  <2>3. CASE pop_pc = "available"
    <3>1. /\ NumBytesPending(pop_write, read_offset, length) \in 0..length - 1
          /\ NumBytesPending(pop_write, read_offset, length) <= Pending
      BY <2>3, PendingRange DEF IInv, PopInv, TypeOK
    <3>2. read_length \in 1..MaxRead
      BY <2>3 DEF IInv, PopInv
    <3> QED
      BY <2>1, <2>3, <3>1, <3>2, LengthRange DEF Due, ReadableAmount
  <2>4. CASE pop_pc \notin {"idle", "available"}
    BY <2>4 DEF IInv, PopInv, Due
  <2> QED
    BY <2>2, <2>3, <2>4
<1> QED
  BY <1>1, Inductive, PTL

\* A batch is complete in the buffer before write_offset makes it visible.
THEOREM BatchNeverTorn == Spec => []BatchComplete
<1>1. IInv => BatchComplete
  BY DEF IInv, PushInv, BatchComplete
<1> QED
  BY <1>1, Inductive, PTL

-----------------------------------------------------------------------------
(* Refinement: each step of the ring is a step of the FIFO, or none.       *)

\* What the refinement mapping needs of the ring in every state.
LEMMA ContentsShape ==
  ASSUME IInv
  PROVE  /\ Pending \in 0..length - 1
         /\ Contents \in Seq(Byte)
         /\ Len(Contents) = Pending
         /\ Pending > 0 => Head(Contents) = buffer[read_offset]
<1>0. /\ length \in Lengths /\ length \in Nat /\ length \in 1..UINT16_MAX
      /\ Offset(length) \subseteq 0..UINT16_MAX
  BY LengthRange, OffsetsAreUint16 DEF IInv, TypeOK
<1> USE <1>0
<1>1. Pending \in 0..length - 1
  BY PendingRange DEF IInv, TypeOK, Pending
<1>2. ASSUME NEW k \in 1..Pending
      PROVE  buffer[Slot(read_offset, k - 1, length)] \in Byte
  BY <1>1, SlotIsOffset, LengthRange DEF IInv, TypeOK
<1>3. Contents \in [1..Pending -> Byte]
  BY <1>2 DEF Contents
<1>4. Contents \in Seq(Byte) /\ Len(Contents) = Pending
  BY <1>1, <1>3, LengthRange
<1>5. Pending > 0 => Contents[1] = buffer[read_offset]
  BY <1>1, SlotZero, LengthRange DEF Contents, IInv, TypeOK
<1> QED
  BY <1>1, <1>4, <1>5

\* A prefix of the caller's buffer.
LEMMA WholePrefix ==
  ASSUME NEW s \in Seq(Byte)
  PROVE  /\ SubSeq(s, 1, Len(s)) = s
         /\ \A b \in Byte : SubSeq(Append(s, b), 1, Len(s)) = s
         /\ Len(s) > 0 =>
              Append(SubSeq(s, 1, Len(s) - 1), s[Len(s)]) = s
<1>1. SubSeq(s, 1, Len(s)) = s
  OBVIOUS
<1>2. \A b \in Byte : SubSeq(Append(s, b), 1, Len(s)) = s
  OBVIOUS
<1>3. Len(s) > 0 => Append(SubSeq(s, 1, Len(s) - 1), s[Len(s)]) = s
  OBVIOUS
<1> QED
  BY <1>1, <1>2, <1>3

\* A fresh ring is an empty queue.
LEMMA InitRefines == Init => Abstract!Init
<1> SUFFICES ASSUME Init PROVE Abstract!Init
  OBVIOUS
<1>1. Pending = 0
  BY DEF Init, Pending, NumBytesPending
<1>0. length \in Lengths /\ length - 1 \in Nat
  BY LengthRange DEF Init
<1>2. Contents = <<>>
  BY <1>1 DEF Contents
<1>3. Due = 0 /\ PopCount = 0
  <2>1. Len(out_buffer) = 0
    BY DEF Init, NoCalls
  <2>2. PopCount = 0
    BY <2>1 DEF Init, NoCalls, PopCount
  <2> QED
    BY <2>2 DEF Init, NoCalls, Due
<1>4. SubSeq(out_buffer, 1, PopCount) = <<>>
  BY <1>3 DEF Init, NoCalls
<1> QED
  BY <1>0, <1>2, <1>3, <1>4 DEF Init, NoCalls, Abstract!Init

\* The steps that touch neither the offsets nor the pending bytes.
LEMMA PushPrivateStep ==
  ASSUME IInv,
         \/ \E data \in Batch : PushData(data)
         \/ PushSpace /\ push_pc' = "snapshot"
         \/ PushSnapshot
  PROVE  UNCHANGED Abstract!vars
<1>0. /\ length \in Lengths /\ length \in Nat /\ length \in 1..UINT16_MAX
      /\ Offset(length) \subseteq 0..UINT16_MAX
  BY LengthRange, OffsetsAreUint16 DEF IInv, TypeOK
<1> USE <1>0
<1>1. /\ UNCHANGED <<shared, consumer>>
      /\ pushed' = pushed
  BY DEF PushData, PushSpace, PushSnapshot
<1>2. Contents' = Contents
  BY <1>1 DEF Contents, Pending, shared
<1>3. Due' = Due /\ PopCount' = PopCount
  BY <1>1 DEF Due, PopCount, shared, consumer
<1>4. SubSeq(out_buffer, 1, PopCount)' = SubSeq(out_buffer, 1, PopCount)
  BY <1>1, <1>3 DEF consumer
<1> QED
  BY <1>1, <1>2, <1>3, <1>4 DEF Abstract!vars, shared

\* A refused push: the batch does not fit beside the pending bytes.
LEMMA PushRefusedStep ==
  ASSUME IInv, PushSpace, push_pc' = "idle"
  PROVE  \E batch \in Batch : Abstract!Refuse(batch)
<1>0. /\ length \in Lengths /\ length \in Nat /\ length \in 1..UINT16_MAX
      /\ Offset(length) \subseteq 0..UINT16_MAX
  BY LengthRange, OffsetsAreUint16 DEF IInv, TypeOK
<1> USE <1>0
<1>1. /\ in_data \in Batch /\ Len(in_data) \in Nat
      /\ push_write = write_offset
  BY BatchIsSequence, LengthRange DEF IInv, PushInv, PushSpace
<1>2. ~HasSpace(Pending, Len(in_data), length) /\ pushed' = FALSE
  BY <1>1 DEF PushSpace, Pending
<1>3. Len(Contents) + Len(in_data) > length - 1
  BY <1>1, <1>2, ContentsShape, LengthRange DEF HasSpace
<1>4. UNCHANGED <<shared, consumer>>
  BY DEF PushSpace
<1>5. Contents' = Contents
  BY <1>4 DEF Contents, Pending, shared
<1>6. Due' = Due /\ PopCount' = PopCount
  BY <1>4 DEF Due, PopCount, shared, consumer
<1>7. SubSeq(out_buffer, 1, PopCount)' = SubSeq(out_buffer, 1, PopCount)
  BY <1>4, <1>6 DEF consumer
<1>8. Abstract!Refuse(in_data)
  BY <1>2, <1>3, <1>4, <1>5, <1>6, <1>7 DEF Abstract!Refuse, shared
<1> QED
  BY <1>1, <1>8

\* Copying a byte behind the pending ones is not visible.
LEMMA PushCopyInvisible ==
  ASSUME IInv, PushCopy
  PROVE  UNCHANGED Abstract!vars
<1>0. /\ length \in Lengths /\ length \in Nat /\ length \in 1..UINT16_MAX
      /\ Offset(length) \subseteq 0..UINT16_MAX
  BY LengthRange, OffsetsAreUint16 DEF IInv, TypeOK
<1> USE <1>0
<1>1. /\ UNCHANGED <<length, read_offset, write_offset, pushed, consumer>>
      /\ buffer' = [buffer EXCEPT ![push_offset] = in_data[push_count + 1]]
      /\ push_pc = "copy"
  BY DEF PushCopy
<1>2. Pending' = Pending /\ Pending \in 0..length - 1
  BY <1>1, ContentsShape DEF Pending
<1>3. ASSUME NEW k \in 1..Pending
      PROVE  buffer'[Slot(read_offset, k - 1, length)] = buffer[Slot(read_offset, k - 1, length)]
  <2>1. Slot(read_offset, k - 1, length) # push_offset
    BY <1>1, <1>2, UnreadNotOverwritten, LengthRange
       DEF NoUnreadOverwritten
  <2>2. Slot(read_offset, k - 1, length) \in Offset(length)
    BY <1>2, SlotIsOffset, LengthRange DEF IInv, TypeOK
  <2> QED
    BY <1>1, <2>1, <2>2 DEF IInv, TypeOK
<1>4. Contents' = Contents
  BY <1>1, <1>2, <1>3 DEF Contents
<1>5. Due' = Due /\ PopCount' = PopCount
  BY <1>1 DEF Due, PopCount, consumer
<1>6. SubSeq(out_buffer, 1, PopCount)' = SubSeq(out_buffer, 1, PopCount)
  BY <1>1, <1>5 DEF consumer
<1> QED
  BY <1>1, <1>4, <1>5, <1>6 DEF Abstract!vars

\* Publishing puts the whole batch behind the pending bytes.
LEMMA PublishPuts ==
  ASSUME IInv, PushPublish
  PROVE  \E batch \in Batch : Abstract!Put(batch)
<1>0. /\ length \in Lengths /\ length \in Nat /\ length \in 1..UINT16_MAX
      /\ Offset(length) \subseteq 0..UINT16_MAX
  BY LengthRange, OffsetsAreUint16 DEF IInv, TypeOK
<1> USE <1>0
<1> DEFINE n == Len(in_data)
<1>1. /\ in_data \in Batch /\ in_data \in Seq(Byte) /\ n \in Nat
      /\ HasSpace(Pending, n, length)
      /\ push_offset = Slot(write_offset, n, length)
  BY BatchIsSequence, LengthRange DEF IInv, PushInv, PushPublish
<1>2. /\ Pending \in 0..length - 1 /\ Contents \in Seq(Byte)
      /\ Len(Contents) = Pending
  BY ContentsShape
<1>3. Pending' = Pending + n
  BY <1>1, PendingAfterPush DEF IInv, TypeOK, Pending, PushPublish
<1>4. ASSUME NEW k \in 1..n
      PROVE  buffer[Slot(read_offset, Pending + k - 1, length)] = in_data[k]
  <2>1. Slot(read_offset, Pending + k - 1, length) = Slot(write_offset, k - 1, length)
    <3>1. /\ read_offset \in Offset(length) /\ write_offset \in Offset(length)
          /\ Pending = IF write_offset >= read_offset
                         THEN write_offset - read_offset
                         ELSE length - (read_offset - write_offset)
      BY PendingInside DEF IInv, TypeOK, Pending
    <3> QED
      BY <1>1, <1>2, <3>1 DEF HasSpace, Slot, Offset
  <2> QED
    BY <1>1, <2>1 DEF IInv, PushInv, PushPublish
<1>5. Contents' = [k \in 1..Pending + n |-> buffer[Slot(read_offset, k - 1, length)]]
  BY <1>3 DEF Contents, PushPublish
<1>6. Contents' = Contents \o in_data
  <2>1. /\ Contents \o in_data \in Seq(Byte)
        /\ Len(Contents \o in_data) = Pending + n
        /\ \A k \in 1..Pending + n : (Contents \o in_data)[k] =
             IF k <= Pending THEN Contents[k] ELSE in_data[k - Pending]
    BY <1>1, <1>2, ConcatProperties
  <2>2. ASSUME NEW k \in 1..Pending + n
        PROVE  buffer[Slot(read_offset, k - 1, length)] = (Contents \o in_data)[k]
    <3>1. CASE k <= Pending
      BY <1>2, <2>1, <3>1 DEF Contents
    <3>2. CASE k > Pending
      <4>1. k - Pending \in 1..n /\ Pending + (k - Pending) = k
        BY <1>1, <1>2, <3>2
      <4> QED
        BY <1>2, <1>4, <2>1, <3>2, <4>1, SMTT(60)
    <3> QED
      BY <1>2, <3>1, <3>2
  <2>3. \A k \in 1..Pending + n : (Contents \o in_data)[k] \in Byte
    BY <2>1, ElementOfSeq
  <2>4. Contents' \in [1..Pending + n -> Byte]
    BY <1>5, <2>2, <2>3
  <2>5. Contents' \in Seq(Byte) /\ Len(Contents') = Pending + n
    BY <1>1, <1>2, <2>4, LengthRange
  <2>6. \A k \in 1..Len(Contents') : Contents'[k] = (Contents \o in_data)[k]
    BY <1>5, <2>2, <2>5
  <2> QED
    BY <2>1, <2>5, <2>6, SeqEqual
<1>7. UNCHANGED consumer
  BY DEF PushPublish
<1>8. Due' = Due /\ PopCount' = PopCount
  BY <1>7 DEF Due, PopCount, consumer, PushPublish
<1>9. SubSeq(out_buffer, 1, PopCount)' = SubSeq(out_buffer, 1, PopCount)
  BY <1>7, <1>8 DEF consumer
<1>10. Len(Contents) + n <= length - 1
  BY <1>1, <1>2, LengthRange DEF HasSpace
<1>11. Abstract!Put(in_data)
  BY <1>2, <1>6, <1>8, <1>9, <1>10 DEF Abstract!Put, PushPublish
<1> QED
  BY <1>1, <1>11

\* Looking at write_offset fixes how many bytes the pop will deliver.
LEMMA PopBegins ==
  ASSUME IInv,
         NEW call \in {"byte", "data"}, NEW want \in 1..MaxRead,
         Pop(call, want)
  PROVE  Abstract!BeginGet(want)
<1>0. /\ length \in Lengths /\ length \in Nat /\ length \in 1..UINT16_MAX
      /\ Offset(length) \subseteq 0..UINT16_MAX
  BY LengthRange, OffsetsAreUint16 DEF IInv, TypeOK
<1> USE <1>0
<1>1. /\ UNCHANGED <<shared, pushed>>
      /\ pop_pc = "idle" /\ pop_pc' = "available"
      /\ pop_write' = write_offset /\ read_length' = want
      /\ out_buffer' = <<>>
  BY DEF Pop, producer
<1>2. Due = 0
  <2>1. copied = PopCount /\ copied \in Nat
    BY <1>1 DEF IInv, PopInv, TypeOK
  <2> QED
    BY <1>1, <2>1 DEF Due
<1>3. Contents' = Contents /\ Len(Contents) = Pending
  BY <1>1, ContentsShape DEF Contents, Pending, shared
<1>4. Due' = IF want < Pending THEN want ELSE Pending
  BY <1>1 DEF Due, ReadableAmount, Pending, shared
<1>5. SubSeq(out_buffer, 1, PopCount)' = <<>>
  BY <1>1 DEF PopCount
<1> QED
  BY <1>1, <1>2, <1>3, <1>4, <1>5 DEF Abstract!BeginGet, shared

\* The steps of a pop that release no slot are not visible.
LEMMA PopPrivateStep ==
  ASSUME IInv,
         PopNotEmpty \/ PopReadable \/ PopCopy \/ PopLoad
  PROVE  UNCHANGED Abstract!vars
<1>0. /\ length \in Lengths /\ length \in Nat /\ length \in 1..UINT16_MAX
      /\ Offset(length) \subseteq 0..UINT16_MAX
  BY LengthRange, OffsetsAreUint16 DEF IInv, TypeOK
<1> USE <1>0
<1>1. UNCHANGED <<shared, pushed>>
  BY DEF PopNotEmpty, PopReadable, PopCopy, PopLoad, producer
<1>2. Contents' = Contents
  BY <1>1 DEF Contents, Pending, shared
<1>3. Due' = Due /\ SubSeq(out_buffer, 1, PopCount)' = SubSeq(out_buffer, 1, PopCount)
  <2>1. CASE PopNotEmpty \/ PopReadable
    <3>1. /\ pop_pc = "available" /\ pop_pc' \in {"idle", "copy"}
          /\ out_buffer' = out_buffer /\ out_buffer = <<>>
          /\ pop_call = "byte" => read_length = 1
          /\ NumBytesPending(pop_write, read_offset, length) \in 0..length - 1
      BY <2>1, PendingRange
         DEF PopNotEmpty, PopReadable, IInv, PopInv, TypeOK
    <3>2. PopCount = 0 /\ PopCount' = 0
      BY <3>1 DEF PopCount
    <3>3. copied' = Due
      <4>1. CASE PopNotEmpty
        <5>1. pop_write = read_offset
                <=> NumBytesPending(pop_write, read_offset, length) = 0
          <6>1. pop_write \in Offset(length) /\ read_offset \in Offset(length)
            BY <3>1 DEF IInv, TypeOK
          <6> QED
            BY <6>1, PendingInside DEF Offset
        <5> QED
          BY <3>1, <4>1, <5>1, LengthRange
             DEF PopNotEmpty, Due, ReadableAmount
      <4>2. CASE PopReadable
        BY <3>1, <4>2 DEF PopReadable, Due
      <4> QED
        BY <2>1, <4>1, <4>2
    <3>4. copied' \in Nat
      BY <2>1, <3>1, LengthRange
         DEF PopNotEmpty, PopReadable, ReadableAmount, IInv, TypeOK
    <3> QED
      BY <3>1, <3>2, <3>3, <3>4 DEF Due
  <2>2. CASE PopCopy
    <3>1. /\ out_buffer \in Seq(Byte) /\ buffer[read_offset] \in Byte
          /\ out_buffer' = Append(out_buffer, buffer[read_offset])
          /\ pop_pc = "copy" /\ pop_pc' = "load" /\ copied' = copied
      BY <2>2 DEF PopCopy, BytesAt, IInv, TypeOK
    <3>2. PopCount = Len(out_buffer) /\ PopCount' = Len(out_buffer)
      BY <3>1 DEF PopCount
    <3> QED
      BY <3>1, <3>2, WholePrefix DEF Due
  <2>3. CASE PopLoad
    BY <2>3 DEF PopLoad, Due, PopCount
  <2> QED
    BY <2>1, <2>2, <2>3
<1> QED
  BY <1>1, <1>2, <1>3 DEF Abstract!vars, shared

\* Storing read_offset takes the oldest byte, the one that was copied out.
LEMMA AdvanceTakes ==
  ASSUME IInv, PopAdvance
  PROVE  Abstract!Take
<1>0. /\ length \in Lengths /\ length \in Nat /\ length \in 1..UINT16_MAX
      /\ Offset(length) \subseteq 0..UINT16_MAX
  BY LengthRange, OffsetsAreUint16 DEF IInv, TypeOK
<1> USE <1>0
<1>1. /\ pop_pc = "advance" /\ pop_pc' \in {"idle", "copy"}
      /\ UNCHANGED <<buffer, length, write_offset, pushed, copied, out_buffer>>
      /\ read_offset' = UpdateOffset(read_offset, length)
  BY DEF PopAdvance, producer, IInv, PopInv
<1>2. /\ out_buffer \in Seq(Byte) /\ Len(out_buffer) > 0
      /\ Len(out_buffer) <= copied /\ copied \in Nat
      /\ out_buffer[Len(out_buffer)] = buffer[read_offset]
  BY <1>1 DEF IInv, PopInv, TypeOK
<1>3. PopCount = Len(out_buffer) - 1 /\ PopCount' = Len(out_buffer)
  BY <1>1 DEF PopCount
<1>4. /\ Due = copied - (Len(out_buffer) - 1)
      /\ Due' = copied - Len(out_buffer)
      /\ Due <= Pending
  BY <1>1, <1>3 DEF Due, IInv, PopInv
<1>5. /\ Pending \in 0..length - 1 /\ Contents \in Seq(Byte)
      /\ Len(Contents) = Pending /\ Pending > 0
      /\ Head(Contents) = buffer[read_offset]
  BY <1>2, <1>4, ContentsShape
<1>6. Pending' = Pending - 1
  BY <1>1, <1>5, PendingAfterPop DEF Pending, IInv, TypeOK
<1>7. Contents' = Tail(Contents)
  <2>1. ASSUME NEW k \in 1..Pending - 1
        PROVE  Slot(UpdateOffset(read_offset, length), k - 1, length) = Slot(read_offset, k, length)
    <3>1. /\ read_offset \in Offset(length)
          /\ UpdateOffset(read_offset, length)
               = IF read_offset = length - 1 THEN 0 ELSE read_offset + 1
      BY UpdateInside DEF IInv, TypeOK
    <3> QED
      BY <1>5, <3>1 DEF Slot, Offset
  <2>2. Contents' = [k \in 1..Pending - 1 |-> buffer[Slot(read_offset, k, length)]]
    BY <1>1, <1>6, <2>1 DEF Contents
  <2>3. /\ Tail(Contents) \in Seq(Byte)
        /\ Len(Tail(Contents)) = Pending - 1
        /\ \A k \in 1..Pending - 1 : Tail(Contents)[k] = Contents[k + 1]
    BY <1>5, HeadTailProperties
  <2>4. ASSUME NEW k \in 1..Pending - 1
        PROVE  /\ Contents[k + 1] = buffer[Slot(read_offset, k, length)]
               /\ Contents[k + 1] \in Byte
    <3>1. k + 1 \in 1..Pending /\ k + 1 \in 1..Len(Contents) /\ k + 1 - 1 = k
      BY <1>5
    <3>2. Contents[k + 1] \in Byte
      BY <1>5, <3>1, ElementOfSeq
    <3>3. Contents[k + 1] = buffer[Slot(read_offset, k + 1 - 1, length)]
      BY <3>1 DEF Contents
    <3> QED
      BY <3>1, <3>2, <3>3
  <2>5. Contents' \in Seq(Byte) /\ Len(Contents') = Pending - 1
    <3>1. Contents' \in [1..Pending - 1 -> Byte]
      BY <2>2, <2>4
    <3> QED
      BY <1>5, <3>1, LengthRange
  <2> QED
    BY <2>2, <2>3, <2>4, <2>5, SeqEqual
<1>8. SubSeq(out_buffer, 1, PopCount)'
        = Append(SubSeq(out_buffer, 1, PopCount), Head(Contents))
  BY <1>1, <1>2, <1>3, <1>5, WholePrefix
<1>9. Contents # <<>> /\ Due > 0 /\ Due' = Due - 1
  BY <1>2, <1>4, <1>5
<1> QED
  BY <1>1, <1>7, <1>8, <1>9 DEF Abstract!Take

\* A single byte is refused only while queues_isFull holds: the producer's
\* write_offset has not moved since it was loaded, and what is pending now
\* leaves no second free slot.
THEOREM RefusalsMatchIsFull == Spec => RefusedOnlyWhenFull
<1>1. IInv /\ [Next]_vars =>
        [push_pc = "space" /\ push_pc' = "idle" /\ Len(in_data) = 1
           => IsFull(Pending, length)]_vars
  <2> SUFFICES ASSUME IInv, [Next]_vars, push_pc = "space", push_pc' = "idle",
                      Len(in_data) = 1
               PROVE  IsFull(Pending, length)
    OBVIOUS
  <2>1. PushSpace
    BY DEF Next, PushData, PushStep, PushSnapshot, PushCopy, PushPublish,
           PopByte, PopData, Pop, PopStep, PopNotEmpty, PopReadable, PopCopy,
           PopLoad, PopAdvance, producer, vars
  <2>2. ~HasSpace(Pending, 1, length)
    BY <2>1 DEF PushSpace, IInv, PushInv, Pending
  <2>3. Pending \in 0..length - 1 /\ length \in 1..UINT16_MAX
    BY PendingRange, LengthRange DEF IInv, TypeOK, Pending
  <2> QED
    BY <2>2, <2>3, LengthRange DEF HasSpace, IsFull
<1> QED
  BY <1>1, Inductive, PTL DEF Spec, RefusedOnlyWhenFull

\* Every step of the ring is a step of the bounded FIFO queue, or none.
LEMMA StepRefines == IInv /\ [Next]_vars => [Abstract!Next]_Abstract!vars
<1> SUFFICES ASSUME IInv, [Next]_vars
             PROVE  [Abstract!Next]_Abstract!vars
  OBVIOUS
<1>1. CASE \E data \in Batch : PushData(data)
  BY <1>1, PushPrivateStep
<1>2. CASE PushSpace
  <2>1. push_pc' \in {"snapshot", "idle"}
    BY <1>2 DEF PushSpace
  <2>2. CASE push_pc' = "idle"
    BY <1>2, <2>2, PushRefusedStep
       DEF Abstract!Next, Abstract!Batch, Batch
  <2> QED
    BY <1>2, <2>1, <2>2, PushPrivateStep
<1>3. CASE PushSnapshot
  BY <1>3, PushPrivateStep
<1>4. CASE PushCopy
  BY <1>4, PushCopyInvisible
<1>5. CASE PushPublish
  BY <1>5, PublishPuts DEF Abstract!Next, Abstract!Batch, Batch
<1>6. CASE PopByte
  <2>1. 1 \in 1..MaxRead
    BY LengthRange
  <2> QED
    BY <1>6, <2>1, PopBegins DEF PopByte, Abstract!Next
<1>7. CASE \E want \in 1..MaxRead : PopData(want)
  BY <1>7, PopBegins DEF PopData, Abstract!Next
<1>8. CASE PopNotEmpty \/ PopReadable \/ PopCopy \/ PopLoad
  BY <1>8, PopPrivateStep
<1>9. CASE PopAdvance
  BY <1>9, AdvanceTakes DEF Abstract!Next
<1>10. CASE UNCHANGED vars
  <2>1. UNCHANGED <<shared, pushed, consumer>>
    BY <1>10 DEF vars, producer
  <2>2. Contents' = Contents
    BY <2>1 DEF Contents, Pending, shared
  <2>3. Due' = Due /\ PopCount' = PopCount
    BY <2>1 DEF Due, PopCount, shared, consumer
  <2>4. SubSeq(out_buffer, 1, PopCount)' = SubSeq(out_buffer, 1, PopCount)
    BY <2>1, <2>3 DEF consumer
  <2> QED
    BY <2>1, <2>2, <2>3, <2>4 DEF Abstract!vars, shared
<1> QED
  BY <1>1, <1>2, <1>3, <1>4, <1>5, <1>6, <1>7, <1>8, <1>9, <1>10
     DEF Next, PushStep, PopStep

\* The circular buffer implements the bounded FIFO queue.
THEOREM Refinement == Spec => ImplementsFifo
  BY StepRefines, InitRefines, Inductive, PTL
     DEF Spec, ImplementsFifo, Abstract!Spec

-----------------------------------------------------------------------------
(* Initialising and resetting.                                             *)

\* What the variables range over at any time.  With a consumer thread in a
\* call, read_offset is only known to be a uint16_t.
LifecycleTypeOK ==
  /\ length \in Lengths \cup {0}
  /\ \E size \in Lengths \cup {0} : buffer \in [Offset(size) -> Byte]
  /\ read_offset \in 0..UINT16_MAX /\ write_offset \in 0..UINT16_MAX
  /\ mode \in Modes
  /\ is_initialised \in BOOLEAN
  /\ setup_pc \in {"idle", "reset_read", "init_buffer", "init_length",
                   "init_write", "init_read", "init_done"}
  /\ entered.call \in {"none", "byte", "data"} /\ entered.wanted \in 0..MaxRead
  /\ owed \in Int

\* The locals of the two calls, at any time.
CallTypes ==
  /\ push_pc \in {"idle", "space", "snapshot", "copy", "publish"}
  /\ in_data \in Batch \cup {<<>>}
  /\ push_write \in 0..UINT16_MAX /\ push_offset \in 0..UINT16_MAX
  /\ push_count \in 0..MaxBatch
  /\ push_pc = "copy" => push_count < Len(in_data)
  /\ pushed \in BOOLEAN
  /\ pop_pc \in {"idle", "available", "copy", "load", "advance"}
  /\ pop_call \in {"byte", "data"}
  /\ read_length \in 0..MaxRead
  /\ pop_write \in 0..UINT16_MAX /\ pop_offset \in 0..UINT16_MAX
  /\ copied \in Nat
  /\ out_buffer \in Seq(Byte)

EnteredType ==
  entered \in [call : {"none", "byte", "data"}, wanted : 0..MaxRead]

\* buffer and length are those of one array.
Attached == length \in Lengths /\ buffer \in [Offset(length) -> Byte]

\* The producer's call excludes setup; a queue in use has been initialised,
\* and what the producer uses as an index is inside the array attached now.
SetupInv ==
  /\ setup_pc # "idle" => push_pc = "idle"
  /\ push_pc # "idle" => is_initialised /\ in_data \in Batch
  /\ setup_pc \in {"init_buffer", "init_length", "init_write", "init_read", "init_done"} =>
       ~is_initialised
  /\ setup_pc \in {"reset_read", "init_read", "init_done"} => write_offset = 0
  /\ is_initialised => Attached /\ write_offset \in Offset(length)
  /\ setup_pc \in {"init_write", "init_read", "init_done"} => Attached
  /\ push_pc \in {"copy", "publish"} => push_offset \in Offset(length)

\* A pop stores no more bytes than it has decided to deliver, and decides to
\* deliver no more than it was asked for, whatever it finds in the offsets.
BoundInv ==
  /\ entered # NoCall =>
       /\ pop_pc = "idle"
       /\ entered.call \in {"byte", "data"} /\ entered.wanted \in 1..MaxRead
       /\ entered.call = "byte" => entered.wanted = 1
  /\ pop_pc = "available" =>
       /\ out_buffer = <<>>
       /\ pop_call = "byte" => read_length = 1
  /\ pop_pc \in {"copy", "load", "advance"} =>
       Len(out_buffer) <= copied /\ copied <= read_length
  /\ pop_pc = "copy" => Len(out_buffer) < copied
  /\ Len(out_buffer) <= read_length

\* A byte that the pop in progress has delivered but not yet released.
InHand == IF pop_pc \in {"load", "advance"} THEN 1 ELSE 0

Apart ==
  mode # "threads" =>
    /\ PushInv /\ PopInv
    /\ is_initialised => TypeOK
    /\ InPop => is_initialised
    /\ setup_pc = "init_done" => read_offset = 0
    /\ setup_pc = "idle" /\ is_initialised => Pending = owed + InHand

\* What holds in any mode.
AnyMode == LifecycleTypeOK /\ CallTypes /\ EnteredType /\ SetupInv /\ BoundInv

LInv == AnyMode /\ Apart

\* queues_reset and queues_initialise, a store at a time.
Setup ==
  \/ ResetWrite \/ ResetRead
  \/ \E usable \in BOOLEAN : InitialiseBegin(usable)
  \/ InitialiseBuffer \/ InitialiseLength
  \/ InitialiseWrite \/ InitialiseRead \/ InitialiseDone

-----------------------------------------------------------------------------
(* In any mode: types, and the bound on the caller's buffer.               *)

\* Zero is an offset, and the no-call record is one.
LEMMA Zero ==
  /\ \A size \in Lengths : 0 \in Offset(size)
  /\ 0 \in 0..UINT16_MAX
  /\ NoCall \in [call : {"none", "byte", "data"}, wanted : 0..MaxRead]
  BY LengthRange DEF Offset, NoCall

\* An instance in zeroed storage.
LEMMA LifecycleInitInv == LifecycleInit => LInv
<1> SUFFICES ASSUME LifecycleInit
             PROVE  LInv
  OBVIOUS
<1>1. LifecycleTypeOK
  <2>1. buffer \in [Offset(0) -> Byte]
    BY DEF LifecycleInit, Offset
  <2>2. entered.call \in {"none", "byte", "data"} /\ entered.wanted \in 0..MaxRead
    BY LengthRange DEF LifecycleInit, NoCall
  <2>3. /\ length = 0 /\ read_offset = 0 /\ write_offset = 0 /\ setup_pc = "idle"
        /\ owed = 0 /\ mode \in Modes
    BY DEF LifecycleInit
  <2>4. is_initialised \in BOOLEAN
    BY Zenon DEF LifecycleInit
  <2> QED
    BY <2>1, <2>2, <2>3, <2>4, Zero DEF LifecycleTypeOK
<1>2. CallTypes
  <2>1. pushed \in BOOLEAN
    BY Zenon DEF LifecycleInit, NoCalls
  <2>2. NoCalls
    BY DEF LifecycleInit
  <2> QED
    BY <2>1, <2>2, Zero, LengthRange DEF NoCalls, CallTypes
<1>3. EnteredType
  BY Zero DEF LifecycleInit, EnteredType
<1>4. SetupInv
  BY DEF LifecycleInit, NoCalls, SetupInv
<1>5. BoundInv
  BY DEF LifecycleInit, NoCalls, BoundInv
<1>6. Apart
  <2>1. PushInv
    BY DEF LifecycleInit, NoCalls, PushInv
  <2>2. PopInv
    BY DEF LifecycleInit, NoCalls, PopInv, PopCount
  <2> QED
    BY <2>1, <2>2 DEF LifecycleInit, NoCalls, Apart, InPop
<1> QED
  BY <1>1, <1>2, <1>3, <1>4, <1>5, <1>6 DEF LInv, AnyMode

\* What a store of queues_reset or queues_initialise leaves alone.
LEMMA SetupFrame ==
  ASSUME Setup
  PROVE  UNCHANGED <<producer, consumer, entered>>
  BY DEF Setup, ResetWrite, ResetRead, InitialiseBegin, InitialiseBuffer, InitialiseLength,
         InitialiseWrite, InitialiseRead, InitialiseDone, vars

\* Between the stores of the array and of its size the two need not agree.
LEMMA SetupAttaches ==
  ASSUME AnyMode, Setup
  PROVE  /\ length' \in Lengths \cup {0}
         /\ \E size \in Lengths \cup {0} : buffer' \in [Offset(size) -> Byte]
         /\ is_initialised' => Attached' /\ write_offset' \in Offset(length')
         /\ setup_pc' \in {"init_write", "init_read", "init_done"} => Attached'
<1> USE DEF AnyMode, LifecycleTypeOK, SetupInv, Attached
<1>1. CASE ResetWrite
  BY <1>1, Zero DEF ResetWrite
<1>2. CASE ResetRead
  BY <1>2 DEF ResetRead
<1>3. CASE \E usable \in BOOLEAN : InitialiseBegin(usable)
  BY <1>3 DEF InitialiseBegin, vars, shared
<1>4. CASE InitialiseBuffer
  BY <1>4 DEF InitialiseBuffer
<1>5. CASE InitialiseLength
  <2>1. PICK size \in Lengths \cup {0} : buffer \in [Offset(size) -> Byte]
    OBVIOUS
  <2>2. /\ buffer' = buffer /\ length' \in Lengths /\ DOMAIN buffer = Offset(length')
        /\ ~is_initialised'
    BY <1>5 DEF InitialiseLength
  <2>3. buffer' \in [Offset(length') -> Byte]
    BY <2>1, <2>2
  <2> QED
    BY <2>2, <2>3
<1>6. CASE InitialiseWrite \/ InitialiseRead
  BY <1>6 DEF InitialiseWrite, InitialiseRead
<1>7. CASE InitialiseDone
  BY <1>7, Zero DEF InitialiseDone, vars, shared
<1> QED
  BY <1>1, <1>2, <1>3, <1>4, <1>5, <1>6, <1>7 DEF Setup

\* Setup attaches arrays and stores zeros, and nothing in a call's variables.
LEMMA SetupKeeps ==
  ASSUME LInv, UNCHANGED mode, Setup
  PROVE  AnyMode'
<1> USE DEF LInv, AnyMode
<1>1. UNCHANGED <<producer, consumer, entered>>
  BY SetupFrame
<1>2. LifecycleTypeOK'
  <2>1. mode' \in Modes /\ owed' \in Int
    BY DEF Setup, ResetWrite, ResetRead, InitialiseBegin, InitialiseBuffer, InitialiseLength,
           InitialiseWrite, InitialiseRead, InitialiseDone, LifecycleTypeOK
  <2>2. is_initialised' \in BOOLEAN
    BY Zenon
       DEF Setup, ResetWrite, ResetRead, InitialiseBegin, InitialiseBuffer, InitialiseLength,
           InitialiseWrite, InitialiseRead, InitialiseDone, LifecycleTypeOK
  <2>3. read_offset' \in 0..UINT16_MAX /\ write_offset' \in 0..UINT16_MAX
    BY Zero
       DEF Setup, ResetWrite, ResetRead, InitialiseBegin, InitialiseBuffer, InitialiseLength,
           InitialiseWrite, InitialiseRead, InitialiseDone, LifecycleTypeOK, vars, shared
  <2>4. setup_pc' \in {"idle", "reset_read", "init_buffer", "init_length",
                       "init_write", "init_read", "init_done"}
    BY DEF Setup, ResetWrite, ResetRead, InitialiseBegin, InitialiseBuffer, InitialiseLength,
           InitialiseWrite, InitialiseRead, InitialiseDone
  <2>5. entered'.call \in {"none", "byte", "data"} /\ entered'.wanted \in 0..MaxRead
    BY <1>1 DEF LifecycleTypeOK
  <2> QED
    BY <2>1, <2>2, <2>3, <2>4, <2>5, SetupAttaches DEF LifecycleTypeOK
<1>3. CallTypes' /\ EnteredType' /\ BoundInv'
  BY <1>1 DEF CallTypes, EnteredType, BoundInv, producer, consumer
<1>4. SetupInv'
  <2>1. push_pc = "idle" /\ push_pc' = "idle"
    BY <1>1 DEF Setup, ResetWrite, ResetRead, InitialiseBegin, InitialiseBuffer,
           InitialiseLength, InitialiseWrite, InitialiseRead, InitialiseDone, SetupInv, producer
  <2>2. /\ setup_pc' \in {"init_buffer", "init_length", "init_write", "init_read", "init_done"}
             => ~is_initialised'
        /\ setup_pc' \in {"reset_read", "init_read", "init_done"} => write_offset' = 0
    BY DEF Setup, ResetWrite, ResetRead, InitialiseBegin, InitialiseBuffer, InitialiseLength,
           InitialiseWrite, InitialiseRead, InitialiseDone, SetupInv, vars, shared
  <2> QED
    BY <2>1, <2>2, SetupAttaches DEF SetupInv
<1> QED
  BY <1>2, <1>3, <1>4

\* The producer's own variables lead it to slots of the buffer only.
LEMMA ProducerKeepsTypes ==
  ASSUME AnyMode, BeginPush \/ PushStep
  PROVE  /\ CallTypes'
         /\ \E size \in Lengths \cup {0} : buffer' \in [Offset(size) -> Byte]
         /\ Attached' /\ write_offset' \in Offset(length)
         /\ push_pc' \in {"copy", "publish"} => push_offset' \in Offset(length)
<1>0. /\ CallTypes /\ Attached /\ write_offset \in Offset(length)
      /\ push_pc \in {"copy", "publish"} => push_offset \in Offset(length)
      /\ push_pc # "idle" => in_data \in Batch
      /\ Offset(length) \subseteq 0..UINT16_MAX /\ length \in Lengths
  BY OffsetsAreUint16
     DEF AnyMode, SetupInv, BeginPush, PushStep, PushSpace, PushSnapshot, PushCopy, PushPublish,
         Attached
<1> SUFFICES /\ CallTypes'
             /\ Attached' /\ write_offset' \in Offset(length)
             /\ push_pc' \in {"copy", "publish"} => push_offset' \in Offset(length)
  BY DEF Attached
<1>1. CASE BeginPush
  BY <1>0, <1>1 DEF BeginPush, PushData, CallTypes, Attached, shared, consumer
<1>2. CASE PushSpace
  BY <1>0, <1>2 DEF PushSpace, CallTypes, Attached, shared, consumer
<1>3. CASE PushSnapshot
  <2>1. in_data \in Batch /\ Len(in_data) \in 1..MaxBatch
    BY <1>0, <1>3, BatchIsSequence DEF PushSnapshot
  <2> QED
    BY <1>0, <1>3, <2>1, LengthRange DEF PushSnapshot, CallTypes, Attached, shared, consumer
<1>4. CASE PushCopy
  <2>1. in_data \in Batch /\ push_count \in 0..MaxBatch /\ push_count < Len(in_data)
    BY <1>0, <1>4 DEF PushCopy, CallTypes
  <2>2. Len(in_data) \in 1..MaxBatch /\ \A i \in 1..Len(in_data) : in_data[i] \in Byte
    BY <2>1, BatchIsSequence
  <2>3. push_count + 1 \in 1..Len(in_data) /\ push_count + 1 \in 0..MaxBatch
    BY <2>1, <2>2, LengthRange
  <2>4. Attached' /\ length' = length /\ write_offset' = write_offset
    BY <1>0, <1>4, <2>2, <2>3 DEF PushCopy, Attached
  <2>5. push_offset' \in Offset(length)
    BY <1>0, <1>4, UpdateInside DEF PushCopy
  <2>6. /\ push_count' = push_count + 1
        /\ push_pc' \in {"copy", "publish"}
        /\ push_pc' = "copy" => push_count' < Len(in_data)
    BY <1>4, <2>2, <2>3, LengthRange DEF PushCopy
  <2> QED
    BY <1>0, <1>4, <2>3, <2>4, <2>5, <2>6 DEF PushCopy, CallTypes, consumer
<1>5. CASE PushPublish
  BY <1>0, <1>5 DEF PushPublish, CallTypes, Attached, consumer
<1> QED
  BY <1>1, <1>2, <1>3, <1>4, <1>5 DEF PushStep

LEMMA ProduceKeeps ==
  ASSUME LInv, UNCHANGED mode, Produce
  PROVE  AnyMode'
<1> USE DEF LInv
<1>1. /\ UNCHANGED <<is_initialised, setup_pc, entered, consumer, length, read_offset>>
      /\ setup_pc = "idle"
      /\ BeginPush \/ PushStep
  BY DEF Produce, ProducerMayStep, BeginPush, PushData, PushStep, PushSpace, PushSnapshot,
         PushCopy, PushPublish, shared
<1>2. /\ CallTypes'
      /\ \E size \in Lengths \cup {0} : buffer' \in [Offset(size) -> Byte]
      /\ Attached' /\ write_offset' \in Offset(length)
      /\ push_pc' \in {"copy", "publish"} => push_offset' \in Offset(length)
  BY <1>1, ProducerKeepsTypes
<1>3. LifecycleTypeOK'
  <2>1. push_pc = "publish" => Len(in_data) \in Nat
    BY BatchIsSequence, LengthRange DEF AnyMode, SetupInv
  <2>2. owed' \in Int
    BY <2>1 DEF Produce, AnyMode, LifecycleTypeOK
  <2>3. write_offset' \in 0..UINT16_MAX
    BY <1>1, <1>2, OffsetsAreUint16 DEF Attached
  <2> QED
    BY <1>1, <1>2, <2>2, <2>3 DEF AnyMode, LifecycleTypeOK
<1>4. EnteredType' /\ BoundInv'
  BY <1>1 DEF AnyMode, EnteredType, BoundInv, consumer
<1>5. SetupInv'
  <2>1. push_pc' # "idle" => is_initialised' /\ in_data' \in Batch
    BY <1>1 DEF AnyMode, SetupInv, BeginPush, PushData, PushStep, PushSpace, PushSnapshot,
                PushCopy, PushPublish
  <2> QED
    BY <1>1, <1>2, <2>1 DEF SetupInv
<1> QED
  BY <1>2, <1>3, <1>4, <1>5 DEF AnyMode

\* A pop that has begun on a valid queue.
LEMMA BeginPopForm ==
  ASSUME LInv, BeginPop
  PROVE  /\ entered # NoCall /\ is_initialised /\ entered' = NoCall
         /\ entered.call \in {"byte", "data"} /\ entered.wanted \in 1..MaxRead
         /\ entered.call = "byte" => entered.wanted = 1
         /\ Pop(entered.call, entered.wanted)
  BY DEF LInv, AnyMode, BoundInv, BeginPop, PopByte, PopData

\* A step of the consumer leaves the rest of the queue alone, but read_offset.
LEMMA ConsumeFrame ==
  ASSUME Consume
  PROVE  /\ UNCHANGED <<buffer, length, write_offset, producer, is_initialised, setup_pc>>
         /\ ConsumerMayStep
  BY DEF Consume, EnterPop, FindInvalid, BeginPop, PopByte, PopData, Pop, PopStep, PopNotEmpty,
         PopReadable, PopCopy, PopLoad, PopAdvance, vars, shared

\* Whatever is in the offsets, what a pop computes from them is a uint16_t ...
LEMMA WhateverIsLoaded ==
  ASSUME LifecycleTypeOK, CallTypes
  PROVE  /\ NumBytesPending(pop_write, read_offset, length) \in Nat
         /\ UpdateOffset(pop_offset, length) \in 0..UINT16_MAX
         /\ BytesAt(read_offset) \subseteq Byte
<1>1. /\ pop_write \in Nat /\ read_offset \in Nat /\ length \in Int /\ pop_offset \in Nat
  BY LengthRange DEF LifecycleTypeOK, CallTypes
<1>2. NumBytesPending(pop_write, read_offset, length) \in Nat
  <2>1. length - (read_offset - pop_write) \in Int
    BY <1>1
  <2>2. Uint16(length - (read_offset - pop_write)) \in Nat
    BY <2>1, Uint16Keeps, LengthRange
  <2> QED
    BY <1>1, <2>2 DEF NumBytesPending
<1>3. UpdateOffset(pop_offset, length) \in 0..UINT16_MAX
  <2>1. Uint16(pop_offset + 1) \in 0..UINT16_MAX
    BY <1>1, Uint16Keeps
  <2> QED
    BY <2>1, Zero DEF UpdateOffset
<1>4. BytesAt(read_offset) \subseteq Byte
  BY DEF BytesAt, LifecycleTypeOK
<1> QED
  BY <1>2, <1>3, <1>4

\* ... and in no mode does it store more than it was asked for.
LEMMA ConsumeKeeps ==
  ASSUME LInv, UNCHANGED mode, Consume
  PROVE  AnyMode'
<1> USE DEF LInv
<1>1. /\ UNCHANGED <<buffer, length, write_offset, producer, is_initialised, setup_pc>>
      /\ owed' \in Int
  BY ConsumeFrame DEF Consume, AnyMode, LifecycleTypeOK
<1>2. SetupInv'
  BY <1>1 DEF AnyMode, SetupInv, Attached, producer
<1> DEFINE ConsumerType ==
             /\ pop_pc \in {"idle", "available", "copy", "load", "advance"}
             /\ pop_call \in {"byte", "data"}
             /\ read_length \in 0..MaxRead
             /\ pop_write \in 0..UINT16_MAX /\ pop_offset \in 0..UINT16_MAX
             /\ copied \in Nat
             /\ out_buffer \in Seq(Byte)
             /\ read_offset \in 0..UINT16_MAX
<1>3. ConsumerType /\ EnteredType /\ BoundInv
  BY DEF AnyMode, CallTypes, LifecycleTypeOK
<1>4. ASSUME ConsumerType', EnteredType'
      PROVE  LifecycleTypeOK' /\ CallTypes'
  <2>1. CallTypes'
    BY <1>1, <1>4 DEF AnyMode, CallTypes, producer
  <2>2. entered'.call \in {"none", "byte", "data"} /\ entered'.wanted \in 0..MaxRead
    BY <1>4 DEF EnteredType
  <2> QED
    BY <1>1, <1>4, <2>1, <2>2 DEF AnyMode, LifecycleTypeOK
<1> SUFFICES (ConsumerType /\ EnteredType /\ BoundInv)'
  BY <1>2, <1>4 DEF AnyMode
<1>9. /\ NumBytesPending(pop_write, read_offset, length) \in Nat
      /\ UpdateOffset(pop_offset, length) \in 0..UINT16_MAX
      /\ BytesAt(read_offset) \subseteq Byte
  BY WhateverIsLoaded DEF AnyMode
<1> HIDE DEF LInv
<1>5. CASE EnterPop
  <2>1. UNCHANGED consumer /\ UNCHANGED read_offset /\ pop_pc = "idle"
    BY <1>5 DEF EnterPop, vars, shared, InPop
  <2>2. /\ entered'.call \in {"byte", "data"} /\ entered'.wanted \in 1..MaxRead
        /\ entered'.call = "byte" => entered'.wanted = 1
        /\ EnteredType'
    BY <1>5, LengthRange DEF EnterPop, EnteredType
  <2> QED
    BY <1>3, <2>1, <2>2 DEF BoundInv, consumer
<1>6. CASE FindInvalid
  <2>1. /\ entered # NoCall /\ entered' = NoCall
        /\ pop_call' = entered.call /\ read_length' = entered.wanted
        /\ out_buffer' = <<>> /\ copied' \in {0, 1}
        /\ UNCHANGED <<read_offset, pop_write, pop_offset>>
        /\ \/ pop_pc' = "copy" /\ copied' = 1
           \/ pop_pc' = "idle"
    BY <1>3, <1>6 DEF FindInvalid, shared, BoundInv
  <2>2. pop_call' \in {"byte", "data"} /\ read_length' \in 1..MaxRead
    BY <1>3, <2>1 DEF BoundInv
  <2>3. Len(<<>>) = 0 /\ <<>> \in Seq(Byte)
    OBVIOUS
  <2>4. ConsumerType'
    BY <1>3, <2>1, <2>2, <2>3, LengthRange
  <2>5. BoundInv'
    BY <2>1, <2>2, <2>3, LengthRange DEF BoundInv
  <2> QED
    BY <2>1, <2>4, <2>5, Zero DEF EnteredType
<1>7. CASE BeginPop
  <2>1. /\ entered' = NoCall
        /\ pop_call' = entered.call /\ read_length' = entered.wanted
        /\ pop_pc' = "available" /\ out_buffer' = <<>> /\ copied' = 0
        /\ pop_write' = write_offset /\ UNCHANGED <<read_offset, pop_offset>>
        /\ pop_call' \in {"byte", "data"} /\ read_length' \in 1..MaxRead
        /\ pop_call' = "byte" => read_length' = 1
    BY <1>7, BeginPopForm DEF Pop, shared
  <2>2. write_offset \in 0..UINT16_MAX
    BY DEF LInv, AnyMode, LifecycleTypeOK
  <2>3. Len(<<>>) = 0 /\ <<>> \in Seq(Byte)
    OBVIOUS
  <2>4. ConsumerType'
    BY <1>3, <2>1, <2>2, <2>3, LengthRange
  <2>5. BoundInv'
    BY <2>1, <2>3, LengthRange DEF BoundInv
  <2> QED
    BY <2>1, <2>4, <2>5, Zero DEF EnteredType
<1>8. CASE PopStep /\ UNCHANGED entered
  <2>1. pop_pc # "idle" /\ entered' = NoCall /\ entered = NoCall
    BY <1>3, <1>8 DEF PopStep, PopNotEmpty, PopReadable, PopCopy, PopLoad, PopAdvance, BoundInv
  <2> SUFFICES (ConsumerType /\ BoundInv)'
    BY <1>8, <2>1, Zero DEF EnteredType
  <2>2. CASE PopNotEmpty \/ PopReadable
    <3>1. NumBytesPending(pop_write, read_offset, length) \in Nat
      BY <1>9
    <3>2. /\ out_buffer' = <<>> /\ read_length' = read_length /\ pop_call' = pop_call
          /\ UNCHANGED <<read_offset, pop_write, pop_offset>>
          /\ pop_pc' = IF copied' = 0 THEN "idle" ELSE "copy"
      BY <1>3, <2>2 DEF PopNotEmpty, PopReadable, shared, BoundInv
    <3>3. copied' \in Nat /\ copied' <= read_length
      <4>1. CASE PopNotEmpty
        <5>1. read_length = 1
          BY <1>3, <4>1 DEF PopNotEmpty, BoundInv
        <5> QED
          BY <4>1, <5>1 DEF PopNotEmpty
      <4>2. CASE PopReadable
        BY <1>3, <3>1, <4>2, LengthRange DEF PopReadable, ReadableAmount
      <4> QED
        BY <2>2, <4>1, <4>2
    <3>4. Len(<<>>) = 0 /\ <<>> \in Seq(Byte)
      OBVIOUS
    <3>5. ConsumerType'
      BY <1>3, <3>2, <3>3, <3>4
    <3>6. BoundInv'
      BY <1>3, <2>1, <3>2, <3>3, <3>4, LengthRange DEF BoundInv
    <3> QED
      BY <3>5, <3>6
  <2>3. CASE PopCopy
    <3>1. /\ pop_pc = "copy" /\ pop_pc' = "load"
          /\ UNCHANGED <<read_offset, pop_call, read_length, pop_write, copied, pop_offset>>
      BY <2>3 DEF PopCopy, shared
    <3>2. PICK byte \in Byte : out_buffer' = Append(out_buffer, byte)
      BY <1>9, <2>3 DEF PopCopy
    <3>3. out_buffer' \in Seq(Byte) /\ Len(out_buffer') = Len(out_buffer) + 1
      BY <1>3, <3>2
    <3>4. ConsumerType'
      BY <1>3, <3>1, <3>3
    <3>5. BoundInv'
      BY <1>3, <2>1, <3>1, <3>3 DEF BoundInv
    <3> QED
      BY <3>4, <3>5
  <2>4. CASE PopLoad
    <3>1. /\ pop_pc = "load" /\ pop_pc' = "advance" /\ pop_offset' = read_offset
          /\ UNCHANGED <<read_offset, pop_call, read_length, pop_write, copied, out_buffer>>
      BY <2>4 DEF PopLoad, shared
    <3> QED
      BY <1>3, <2>1, <3>1 DEF BoundInv
  <2>5. CASE PopAdvance
    <3>1. /\ pop_pc = "advance" /\ read_offset' = UpdateOffset(pop_offset, length)
          /\ pop_pc' = IF Len(out_buffer) = copied THEN "idle" ELSE "copy"
          /\ UNCHANGED <<pop_call, read_length, pop_write, copied, out_buffer, pop_offset>>
      BY <2>5 DEF PopAdvance
    <3>2. read_offset' \in 0..UINT16_MAX
      BY <1>9, <3>1
    <3>3. ConsumerType'
      BY <1>3, <3>1, <3>2
    <3>4. BoundInv'
      BY <1>3, <2>1, <3>1 DEF BoundInv
    <3> QED
      BY <3>3, <3>4
  <2> QED
    BY <1>8, <2>2, <2>3, <2>4, <2>5 DEF PopStep
<1> QED
  BY <1>5, <1>6, <1>7, <1>8 DEF Consume

-----------------------------------------------------------------------------
(* Unless the consumer is a thread.                                        *)

\* Setup only steps while nobody is in a call, and ends with equal offsets.
LEMMA SetupApart ==
  ASSUME LInv, UNCHANGED mode, Setup
  PROVE  Apart'
<1> SUFFICES ASSUME mode # "threads"
             PROVE  /\ PushInv' /\ PopInv'
                    /\ is_initialised' => TypeOK'
                    /\ InPop' => is_initialised'
                    /\ setup_pc' = "init_done" => read_offset' = 0
                    /\ setup_pc' = "idle" /\ is_initialised' => Pending' = owed' + InHand'
  BY DEF Apart
<1>1. /\ push_pc = "idle" /\ ~InPop
      /\ UNCHANGED <<producer, consumer, entered>>
  BY SetupFrame
     DEF Setup, ResetWrite, ResetRead, InitialiseBegin, InitialiseBuffer, InitialiseLength,
         InitialiseWrite, InitialiseRead, InitialiseDone, SetupMayStep, LInv, AnyMode, SetupInv
<1>2. PushInv' /\ PopInv'
  BY <1>1 DEF LInv, Apart, PushInv, PopInv, PopCount, InPop, producer, consumer
<1>3. ~InPop' /\ InHand' = 0
  BY <1>1 DEF InPop, InHand, consumer
<1>4. setup_pc' = "init_done" => read_offset' = 0
  BY DEF Setup, ResetWrite, ResetRead, InitialiseBegin, InitialiseBuffer, InitialiseLength,
         InitialiseWrite, InitialiseRead, InitialiseDone
<1>5. setup_pc' = "idle" /\ is_initialised' => Pending' = 0 /\ owed' = 0
  <2> SUFFICES ASSUME setup_pc' = "idle", is_initialised'
               PROVE  read_offset' = 0 /\ write_offset' = 0 /\ owed' = 0
    BY DEF Pending, NumBytesPending
  <2>1. ResetRead \/ InitialiseDone
    BY DEF Setup, ResetWrite, InitialiseBegin, InitialiseBuffer, InitialiseLength,
           InitialiseWrite, InitialiseRead
  <2>2. CASE ResetRead
    BY <2>2 DEF ResetRead, LInv, AnyMode, SetupInv
  <2>3. CASE InitialiseDone
    BY <2>3 DEF InitialiseDone, LInv, AnyMode, SetupInv, Apart, vars, shared
  <2> QED
    BY <2>1, <2>2, <2>3
<1>6. is_initialised' => TypeOK'
  <2> SUFFICES ASSUME is_initialised'
               PROVE  TypeOK'
    OBVIOUS
  <2>1. Attached' /\ write_offset' \in Offset(length')
    BY SetupAttaches DEF LInv
  <2>2. read_offset' \in Offset(length')
    <3>1. CASE ResetWrite
      BY <3>1 DEF ResetWrite, LInv, Apart, TypeOK
    <3>2. CASE ResetRead
      BY <2>1, <3>2, Zero DEF ResetRead, Attached
    <3>3. CASE InitialiseDone
      BY <2>1, <3>3, Zero DEF InitialiseDone, LInv, Apart, Attached, vars, shared
    <3>4. ResetWrite \/ ResetRead \/ InitialiseDone
      BY DEF Setup, InitialiseBegin, InitialiseBuffer, InitialiseLength, InitialiseWrite,
             InitialiseRead, LInv, AnyMode, SetupInv
    <3> QED
      BY <3>1, <3>2, <3>3, <3>4
  <2>3. CallTypes' /\ push_pc' = "idle" /\ pop_pc' = "idle"
    BY <1>1, SetupKeeps DEF AnyMode, producer, consumer, InPop
  <2> QED
    BY <2>1, <2>2, <2>3 DEF TypeOK, CallTypes, Attached
<1> QED
  BY <1>2, <1>3, <1>4, <1>5, <1>6

\* A push adds its whole batch to what is owed when it becomes visible.
LEMMA ProduceApart ==
  ASSUME LInv, UNCHANGED mode, Produce
  PROVE  Apart'
<1> SUFFICES ASSUME mode # "threads"
             PROVE  /\ PushInv' /\ PopInv'
                    /\ is_initialised' => TypeOK'
                    /\ InPop' => is_initialised'
                    /\ setup_pc' = "init_done" => read_offset' = 0
                    /\ setup_pc' = "idle" /\ is_initialised' => Pending' = owed' + InHand'
  BY DEF Apart
<1>1. /\ IInv
      /\ InPop => is_initialised
      /\ setup_pc = "idle" /\ is_initialised => Pending = owed + InHand
  BY DEF LInv, AnyMode, SetupInv, Apart, IInv, Produce, BeginPush, PushStep, PushSpace,
         PushSnapshot, PushCopy, PushPublish
<1>2. /\ UNCHANGED <<is_initialised, setup_pc, entered, consumer, length, read_offset>>
      /\ setup_pc = "idle"
      /\ BeginPush \/ PushStep
  BY DEF Produce, ProducerMayStep, BeginPush, PushData, PushStep, PushSpace, PushSnapshot,
         PushCopy, PushPublish, shared
<1>3. PushInv' /\ PopInv' /\ TypeOK'
  BY <1>1, <1>2, PushDataStep, PushSpaceStep, PushSnapshotStep, PushCopyStep, PushPublishStep
     DEF BeginPush, PushStep, IInv
<1>4. InPop' = InPop /\ InHand' = InHand
  BY <1>2 DEF InPop, InHand, consumer
<1>5. is_initialised => Pending' = owed' + InHand
  <2>1. CASE PushPublish
    <3>1. /\ in_data \in Batch /\ Len(in_data) \in Nat /\ HasSpace(Pending, Len(in_data), length)
          /\ push_offset = Slot(write_offset, Len(in_data), length)
      BY <1>1, <2>1, BatchIsSequence, LengthRange DEF IInv, PushInv, PushPublish
    <3>2. Pending' = Pending + Len(in_data)
      BY <1>1, <2>1, <3>1, PendingAfterPush DEF PushPublish, Pending, IInv, TypeOK
    <3>3. owed' = owed + Len(in_data) /\ owed \in Int
      BY <2>1 DEF Produce, PushPublish, LInv, AnyMode, LifecycleTypeOK
    <3>4. InHand \in Int /\ (is_initialised => Pending = owed + InHand)
      BY <1>1, <1>2 DEF InHand
    <3> QED
      BY <3>1, <3>2, <3>3, <3>4
  <2>2. CASE ~PushPublish
    <3>1. push_pc # "publish" /\ UNCHANGED write_offset
      BY <1>2, <2>2 DEF BeginPush, PushData, PushStep, PushSpace, PushSnapshot, PushCopy, shared
    <3>2. Pending' = Pending /\ owed' = owed
      BY <1>2, <3>1 DEF Pending, Produce
    <3> QED
      BY <1>1, <1>2, <3>2
  <2> QED
    BY <2>1, <2>2
<1> QED
  BY <1>1, <1>2, <1>3, <1>4, <1>5

\* A pop owes one byte less when it has copied it, and releases it later.
LEMMA ConsumeApart ==
  ASSUME LInv, UNCHANGED mode, Consume
  PROVE  Apart'
<1> SUFFICES ASSUME mode # "threads"
             PROVE  /\ PushInv' /\ PopInv'
                    /\ is_initialised' => TypeOK'
                    /\ InPop' => is_initialised'
                    /\ setup_pc' = "init_done" => read_offset' = 0
                    /\ setup_pc' = "idle" /\ is_initialised' => Pending' = owed' + InHand'
  BY DEF Apart
<1>1. /\ IInv /\ is_initialised
      /\ setup_pc = "init_done" => ~is_initialised
      /\ setup_pc = "idle" /\ is_initialised => Pending = owed + InHand
      /\ owed \in Int
  <2>1. InPop => is_initialised
    BY DEF LInv, Apart
  <2>2. is_initialised
    BY <2>1 DEF Consume, EnterPop, FindInvalid, BeginPop, InPop, PopStep, PopNotEmpty,
                PopReadable, PopCopy, PopLoad, PopAdvance
  <2> QED
    BY <2>2 DEF LInv, AnyMode, Apart, IInv, SetupInv, LifecycleTypeOK
<1>2. UNCHANGED <<buffer, length, write_offset, producer, is_initialised, setup_pc>>
  BY ConsumeFrame
<1>3. is_initialised /\ length \in Lengths
  BY <1>1 DEF IInv, TypeOK
<1>4. setup_pc # "init_done"
  BY <1>1, <1>3
<1> SUFFICES IInv' /\ (Pending = owed + InHand => Pending' = owed' + InHand')
  BY <1>1, <1>2, <1>3, <1>4 DEF IInv
<1>5. CASE EnterPop
  <2>1. UNCHANGED <<shared, producer, consumer>> /\ pop_pc = "idle"
    BY <1>5 DEF EnterPop, vars, InPop
  <2>2. IInv'
    <3>1. UNCHANGED vars
      BY <2>1 DEF vars
    <3> QED
      BY <1>1, <3>1, NextIInv
  <2>3. Pending' = Pending /\ InHand' = InHand /\ owed' = owed
    BY <2>1 DEF Pending, InHand, Consume, shared, consumer
  <2>4. Pending \in 0..length - 1 /\ InHand \in {0, 1}
    BY <1>1, PendingRange DEF Pending, IInv, TypeOK, InHand
  <2> QED
    BY <1>1, <2>2, <2>3, <2>4, LengthRange
<1>6. CASE FindInvalid
  BY <1>3, <1>6 DEF FindInvalid
<1>7. CASE BeginPop
  <2>1. Pop(entered.call, entered.wanted) /\ entered.wanted \in 1..MaxRead
    BY <1>7, BeginPopForm
  <2>2. IInv'
    BY <1>1, <1>7, <2>1, BeginPopForm, PopStartStep
  <2>3. Pending' = Pending /\ InHand' = 0 /\ InHand = 0 /\ owed' = owed
    BY <2>1 DEF Pending, InHand, Pop, Consume, shared
  <2>4. Pending \in 0..length - 1
    BY <1>1, PendingRange DEF Pending, IInv, TypeOK
  <2> QED
    BY <1>1, <2>2, <2>3, <2>4, LengthRange DEF IInv
<1>8. CASE PopStep
  <2>1. IInv'
    BY <1>1, <1>8, PopAvailableStep, PopCopyStep, PopLoadStep, PopAdvanceStep DEF PopStep
  <2>2. Pending \in 0..length - 1
    BY <1>1, PendingRange DEF Pending, IInv, TypeOK
  <2>3. CASE ~PopAdvance
    <3>1. UNCHANGED shared
      BY <1>8, <2>3 DEF PopStep, PopNotEmpty, PopReadable, PopCopy, PopLoad
    <3>2. Pending' = Pending
      BY <3>1 DEF Pending, shared
    <3>3. owed' + InHand' = owed + InHand
      BY <1>1, <1>8, <2>3 DEF PopStep, PopNotEmpty, PopReadable, PopCopy, PopLoad, InHand, Consume
    <3> QED
      BY <2>1, <3>2, <3>3 DEF IInv
  <2>4. CASE PopAdvance
    <3>1. /\ pop_offset = read_offset /\ Pending > 0
      BY <1>1, <2>2, <2>4, LengthRange DEF PopAdvance, IInv, PopInv, PopCount, TypeOK
    <3>2. Pending' = Pending - 1
      BY <1>1, <2>4, <3>1, PendingAfterPop DEF PopAdvance, Pending, IInv, TypeOK
    <3>3. InHand = 1 /\ InHand' = 0 /\ owed' = owed
      BY <2>4 DEF PopAdvance, InHand, Consume
    <3> QED
      BY <1>1, <2>1, <2>2, <3>2, <3>3, LengthRange DEF IInv
  <2> QED
    BY <2>3, <2>4
<1> QED
  BY <1>5, <1>6, <1>7, <1>8 DEF Consume

-----------------------------------------------------------------------------
\* Every step keeps the invariant.
LEMMA LifecycleNextInv == LInv /\ [LifecycleNext]_allVars => LInv'
<1> SUFFICES ASSUME LInv, [LifecycleNext]_allVars
             PROVE  LInv'
  OBVIOUS
<1>1. CASE UNCHANGED mode /\ Setup
  BY <1>1, SetupKeeps, SetupApart DEF LInv
<1>2. CASE UNCHANGED mode /\ Produce
  BY <1>2, ProduceKeeps, ProduceApart DEF LInv
<1>3. CASE UNCHANGED mode /\ Consume
  BY <1>3, ConsumeKeeps, ConsumeApart DEF LInv
<1>4. CASE UNCHANGED allVars
  <2>1. UNCHANGED <<buffer, length, read_offset, write_offset, producer, consumer,
                    mode, is_initialised, setup_pc, entered, owed>>
    BY <1>4 DEF allVars, vars, setup, shared
  <2>2. LifecycleTypeOK' /\ CallTypes' /\ EnteredType'
    BY <2>1 DEF LInv, AnyMode, LifecycleTypeOK, CallTypes, EnteredType, producer, consumer
  <2>3. SetupInv' /\ BoundInv'
    BY <2>1 DEF LInv, AnyMode, SetupInv, Attached, BoundInv, producer, consumer
  <2>4. Apart'
    <3>1. Pending' = Pending /\ PopCount' = PopCount /\ InHand' = InHand /\ InPop' = InPop
      BY <2>1 DEF Pending, PopCount, InHand, InPop, consumer
    <3>2. PushInv' = PushInv
      BY <2>1, <3>1 DEF PushInv, producer
    <3>3. PopInv' = PopInv
      BY <2>1, <3>1 DEF PopInv, consumer
    <3>4. TypeOK' = TypeOK
      BY <2>1 DEF TypeOK, producer, consumer
    <3> QED
      BY <2>1, <3>1, <3>2, <3>3, <3>4 DEF LInv, Apart
  <2> QED
    BY <2>2, <2>3, <2>4 DEF LInv, AnyMode
<1> QED
  BY <1>1, <1>2, <1>3, <1>4 DEF LifecycleNext, Setup

LEMMA LifecycleInvariant == LifecycleSpec => []LInv
  BY LifecycleInitInv, LifecycleNextInv, PTL DEF LifecycleSpec

\* queues.c:241, 175, 203: whatever arrays of whatever lengths the queue is
\* initialised with in turn, the producer's index is inside the one attached
\* at that moment in every mode, the consumer's unless it is a thread.
THEOREM IndicesStayInside == LifecycleSpec => []IndicesInBuffer
<1>1. LInv => IndicesInBuffer
  <2> SUFFICES ASSUME LInv
               PROVE  IndicesInBuffer
    OBVIOUS
  <2>1. ASSUME push_pc = "copy"
        PROVE  push_offset \in DOMAIN buffer
    <3>1. push_offset \in Offset(length) /\ buffer \in [Offset(length) -> Byte]
      BY <2>1 DEF LInv, AnyMode, SetupInv, Attached
    <3> QED
      BY <3>1
  <2>2. ASSUME pop_pc = "copy", mode # "threads"
        PROVE  read_offset \in DOMAIN buffer
    <3>1. read_offset \in Offset(length) /\ buffer \in [Offset(length) -> Byte]
      BY <2>2 DEF LInv, Apart, InPop, TypeOK
    <3> QED
      BY <3>1
  <2> QED
    BY <2>1, <2>2 DEF IndicesInBuffer
<1> QED
  BY <1>1, LifecycleInvariant, PTL

\* queues.c:203: in every mode a pop stores at most read_length bytes.
THEOREM CallersBufferHolds == LifecycleSpec => []OutBufferBound
<1>1. LInv => OutBufferBound
  BY DEF LInv, AnyMode, BoundInv, OutBufferBound
<1> QED
  BY <1>1, LifecycleInvariant, PTL

\* queues.c:80-121: unless the consumer is a thread, reset and initialise end
\* with an empty queue, and nothing but what is pushed after is in it.
THEOREM ResetEmptiesTheQueue == LifecycleSpec => []CountsAgree
<1>1. LInv => CountsAgree
  <2> SUFFICES ASSUME LInv, mode # "threads", Quiet, is_initialised
               PROVE  Pending = owed
    BY DEF CountsAgree
  <2>1. Pending = owed + InHand /\ InHand = 0 /\ owed \in Int
    BY DEF LInv, AnyMode, LifecycleTypeOK, Apart, Quiet, InPop, InHand
  <2> QED
    BY <2>1
<1> QED
  BY <1>1, LifecycleInvariant, PTL

-----------------------------------------------------------------------------
(* Masked, reset and initialise empty the abstract queue in one step.      *)

\* In a step between usable states the lifecycle's mapping is that of Queues.
LEMMA SameAbstraction ==
  ASSUME Usable, Usable'
  PROVE  /\ Abstract!Next => AbstractLifecycle!Next
         /\ UNCHANGED Abstract!vars => UNCHANGED AbstractLifecycle!vars
<1>1. Masked /\ Masked' /\ setup_pc = "idle" /\ setup_pc' = "idle"
      /\ is_initialised /\ is_initialised'
  BY DEF Usable
<1>2. ASSUME NEW batch \in Batch
      PROVE  /\ Abstract!Put(batch) => AbstractLifecycle!Put(batch)
             /\ Abstract!Refuse(batch) => AbstractLifecycle!Refuse(batch)
  BY <1>1 DEF Abstract!Put, Abstract!Refuse, AbstractLifecycle!Put, AbstractLifecycle!Refuse
<1>3. ASSUME NEW wanted \in 1..MaxRead
      PROVE  Abstract!BeginGet(wanted) => AbstractLifecycle!BeginGet(wanted)
  BY <1>1 DEF Abstract!BeginGet, AbstractLifecycle!BeginGet
<1>4. ASSUME pushed' = pushed
      PROVE  (Masked /\ pushed)' = (Masked /\ pushed)
  BY <1>1, <1>4
<1>5. Abstract!Take => AbstractLifecycle!Take
  <2> SUFFICES ASSUME Abstract!Take
               PROVE  AbstractLifecycle!Take
    OBVIOUS
  <2>1. /\ pushed' = pushed /\ Due > 0 /\ Contents # <<>> /\ Due' = Due - 1
        /\ (length - 1)' = length - 1
    BY DEF Abstract!Take
  <2>2. /\ SubSeq(out_buffer, 1, PopCount)'
             = Append(SubSeq(out_buffer, 1, PopCount), Head(Contents))
        /\ Contents' = Tail(Contents)
    BY DEF Abstract!Take
  <2> QED
    BY <1>1, <1>4, <2>1, <2>2 DEF AbstractLifecycle!Take
<1>6. UNCHANGED Abstract!vars => UNCHANGED AbstractLifecycle!vars
  <2> SUFFICES ASSUME UNCHANGED Abstract!vars
               PROVE  UNCHANGED AbstractLifecycle!vars
    OBVIOUS
  <2>1. /\ Contents' = Contents /\ pushed' = pushed /\ Due' = Due
        /\ SubSeq(out_buffer, 1, PopCount)' = SubSeq(out_buffer, 1, PopCount)
        /\ (length - 1)' = length - 1
    BY DEF Abstract!vars
  <2> QED
    BY <1>1, <1>4, <2>1 DEF AbstractLifecycle!vars
<1> QED
  BY <1>2, <1>3, <1>5, <1>6
     DEF Abstract!Next, AbstractLifecycle!Next, Abstract!Batch, AbstractLifecycle!Batch, Batch

\* A step of a queue that is only pushed to and popped from, in a usable one.
LEMMA UsersRefine ==
  ASSUME IInv, Usable, Usable', [Next]_vars
  PROVE  [AbstractLifecycle!Next]_AbstractLifecycle!vars
  BY StepRefines, SameAbstraction

\* With nobody in a call a masked queue has nothing due.
LEMMA NothingDue ==
  ASSUME LInv, Masked, ~InPop
  PROVE  Due = 0
<1>1. copied = PopCount /\ copied \in Nat /\ pop_pc = "idle"
  BY DEF LInv, AnyMode, CallTypes, Apart, Masked, PopInv, InPop
<1> QED
  BY <1>1 DEF Due

\* A masked store empties the abstract queue, or finds it empty.
LEMMA SetupRefines ==
  ASSUME LInv, Masked, UNCHANGED mode, Setup
  PROVE  AbstractLifecycle!Clear
<1>1. ~InPop /\ UNCHANGED <<producer, consumer>> /\ Masked'
  BY SetupFrame
     DEF Setup, ResetWrite, ResetRead, InitialiseBegin, InitialiseBuffer, InitialiseLength,
         InitialiseWrite, InitialiseRead, InitialiseDone, SetupMayStep, Masked
<1>2. /\ Due = 0 /\ Due' = 0 /\ pushed' = pushed
      /\ SubSeq(out_buffer, 1, PopCount)' = SubSeq(out_buffer, 1, PopCount)
  <2>1. pop_pc = "idle" /\ pop_pc' = "idle" /\ PopCount' = PopCount /\ copied' = copied
        /\ out_buffer' = out_buffer
    BY <1>1 DEF InPop, PopCount, consumer
  <2>2. Due = 0
    BY <1>1, NothingDue
  <2> QED
    BY <1>1, <2>1, <2>2 DEF Due, producer
<1>3. CASE ~Usable'
  BY <1>1, <1>2, <1>3 DEF AbstractLifecycle!Clear
<1>4. CASE Usable'
  <2>1. setup_pc' = "idle" /\ is_initialised'
    BY <1>4 DEF Usable
  <2>2. Pending' = 0
    <3>1. ResetRead \/ InitialiseDone
      BY <2>1 DEF Setup, ResetWrite, InitialiseBegin, InitialiseBuffer, InitialiseLength,
                  InitialiseWrite, InitialiseRead
    <3>2. CASE ResetRead
      BY <3>2 DEF ResetRead, LInv, AnyMode, SetupInv, Pending, NumBytesPending
    <3>3. CASE InitialiseDone
      BY <3>3 DEF InitialiseDone, LInv, AnyMode, SetupInv, Apart, Masked, vars, shared, Pending,
                  NumBytesPending
    <3> QED
      BY <3>1, <3>2, <3>3
  <2>3. Contents' = <<>>
    BY <2>2 DEF Contents
  <2>4. length' - 1 \in Nat
    BY <2>1, SetupAttaches, LengthRange DEF LInv, Attached
  <2> QED
    BY <1>1, <1>2, <1>4, <2>3, <2>4 DEF AbstractLifecycle!Clear
<1> QED
  BY <1>3, <1>4

\* queues.h, queues.c:269-315: where the consumer is kept out of reset and
\* initialise, the ring is the bounded FIFO of Fifo, which can be emptied.
THEOREM LifecycleRefinement == LifecycleSpec => ImplementsClearableFifo
<1>1. LifecycleInit => AbstractLifecycle!Init
  <2> SUFFICES ASSUME LifecycleInit
               PROVE  AbstractLifecycle!Init
    OBVIOUS
  <2>1. Due = 0 /\ PopCount = 0 /\ out_buffer = <<>>
    <3>1. pop_pc = "idle" /\ copied = 0 /\ out_buffer = <<>>
      BY DEF LifecycleInit, NoCalls
    <3>2. PopCount = 0
      BY <3>1 DEF PopCount
    <3> QED
      BY <3>1, <3>2 DEF Due
  <2>2. ~Usable /\ ~pushed
    BY Zenon DEF LifecycleInit, NoCalls, Usable
  <2>3. SubSeq(out_buffer, 1, PopCount) = <<>>
    BY <2>1
  <2> QED
    BY <2>1, <2>2, <2>3 DEF AbstractLifecycle!Init
<1>2. LInv /\ [LifecycleNext]_allVars =>
        [AbstractLifecycle!Next \/ AbstractLifecycle!Clear]_AbstractLifecycle!vars
  <2> SUFFICES ASSUME LInv, [LifecycleNext]_allVars
               PROVE  [AbstractLifecycle!Next \/ AbstractLifecycle!Clear]_AbstractLifecycle!vars
    OBVIOUS
  <2>1. UNCHANGED mode
    BY DEF LifecycleNext, allVars, setup
  <2>2. CASE ~Masked
    <3>1. ~Masked' /\ ~Usable /\ ~Usable'
      BY <2>1, <2>2 DEF Masked, Usable
    <3>2. (Masked /\ pushed)' = (Masked /\ pushed)
      BY <2>2, <3>1, Zenon
    <3> QED
      BY <2>2, <3>1, <3>2 DEF AbstractLifecycle!vars
  <2>3. CASE Masked /\ Setup
    BY <2>1, <2>3, SetupRefines
  <2>4. CASE Masked /\ (Produce \/ Consume)
    <3>1. Usable
      BY <2>4 DEF Usable, Produce, Consume, ProducerMayStep, ConsumerMayStep, LInv, AnyMode,
                  SetupInv, Apart, Masked, BeginPush, PushStep, PushSpace, PushSnapshot,
                  PushCopy, PushPublish, EnterPop, FindInvalid, BeginPop, InPop, PopStep,
                  PopNotEmpty, PopReadable, PopCopy, PopLoad, PopAdvance
    <3>2. IInv
      BY <2>4, <3>1 DEF LInv, Apart, Masked, Usable, IInv
    <3>3. Usable'
      BY <2>1, <2>4, <3>1 DEF Usable, Masked, Produce, Consume
    <3>4. [Next]_vars
      <4>1. CASE Produce
        BY <4>1 DEF Produce, BeginPush, Next
      <4>2. CASE Consume
        <5>1. CASE EnterPop
          BY <5>1 DEF EnterPop
        <5>2. CASE FindInvalid
          BY <3>1, <5>2 DEF Usable, FindInvalid
        <5>3. CASE BeginPop
          BY <5>3, BeginPopForm DEF BeginPop, Next
        <5>4. CASE PopStep
          BY <5>4 DEF Next
        <5> QED
          BY <4>2, <5>1, <5>2, <5>3, <5>4 DEF Consume
      <4> QED
        BY <2>4, <4>1, <4>2
    <3> QED
      BY <3>1, <3>2, <3>3, <3>4, UsersRefine
  <2>5. CASE UNCHANGED allVars
    <3>1. UNCHANGED <<buffer, length, read_offset, write_offset, producer, consumer,
                      mode, is_initialised, setup_pc, entered, owed>>
      BY <2>5 DEF allVars, vars, setup, shared
    <3>2. Contents' = Contents /\ Due' = Due /\ PopCount' = PopCount
      BY <3>1 DEF Contents, Pending, Due, PopCount, consumer
    <3>3. SubSeq(out_buffer, 1, PopCount)' = SubSeq(out_buffer, 1, PopCount)
      BY <3>1, <3>2 DEF consumer
    <3>4. Usable' = Usable /\ Masked' = Masked
      BY <3>1 DEF Usable, Masked
    <3> QED
      BY <3>1, <3>2, <3>3, <3>4 DEF AbstractLifecycle!vars, producer
  <2> QED
    BY <2>2, <2>3, <2>4, <2>5 DEF LifecycleNext, Setup
<1> QED
  BY <1>1, <1>2, LifecycleInvariant, PTL
     DEF LifecycleSpec, ImplementsClearableFifo, AbstractLifecycle!ClearSpec
=============================================================================
