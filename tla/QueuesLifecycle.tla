--------------------------- MODULE QueuesLifecycle --------------------------
(***************************************************************************)
(* queues_initialise and queues_reset on a queue that is in use.  Both are *)
(* called from the producer's context and both store one field after the   *)
(* other, so what the consumer may do between two stores decides what they *)
(* are worth.  mode says how the two contexts exclude each other, which    *)
(* the application decides once:                                           *)
(*   "masked"     the caller keeps the consumer out for the whole call     *)
(*   "interrupt"  the consumer is an interrupt handler: it may come        *)
(*                between any two steps, and runs to completion            *)
(*   "threads"    the consumer is a thread: any interleaving               *)
(* A re-initialisation attaches any array of any of the Lengths.           *)
(***************************************************************************)
EXTENDS Queues

CONSTANT Modes   \* the ways of exclusion considered

ASSUME ModeAssumption == Modes \subseteq {"masked", "interrupt", "threads"}

VARIABLES
  mode,      \* one of Modes, for good
  is_initialised,
  setup_pc,  \* "idle", or the next store of queues_reset / _initialise
  entered,   \* the pop call that has passed its first queues_isValid, or NoCall
  owed       \* history: bytes pushed and neither delivered nor discarded

setup   == <<mode, is_initialised, setup_pc, entered, owed>>
allVars == <<vars, setup>>

NoCall == [call |-> "none", wanted |-> 0]
InPop  == pop_pc # "idle" \/ entered # NoCall

SetupMayStep    == mode = "threads" \/ ~InPop
ProducerMayStep == /\ setup_pc = "idle"
                   /\ mode = "interrupt" => ~InPop
ConsumerMayStep == mode = "masked" => setup_pc = "idle"

-----------------------------------------------------------------------------
\* Before the first queues_initialise, of an instance in zeroed storage.
LifecycleInit ==
  /\ length = 0
  /\ buffer = <<>>
  /\ read_offset = 0
  /\ write_offset = 0
  /\ NoCalls
  /\ mode \in Modes
  /\ is_initialised = FALSE
  /\ setup_pc = "idle"
  /\ entered = NoCall
  /\ owed = 0

ResetWrite_Kept ==
  /\ setup_pc = "idle" /\ push_pc = "idle" /\ SetupMayStep
  /\ is_initialised
  /\ setup_pc' = "reset_read"
  /\ UNCHANGED <<shared, producer, consumer, is_initialised,
                 entered, owed>>

\* queues_reset: write_offset first ...
ResetWrite ==
  /\ setup_pc = "idle" /\ push_pc = "idle" /\ SetupMayStep
  /\ is_initialised
  /\ write_offset' = 0
  /\ setup_pc' = "reset_read"
  /\ UNCHANGED <<buffer, length, read_offset, producer, consumer, is_initialised,
                 entered, owed>>

\* ... then read_offset.
ResetRead ==
  /\ setup_pc = "reset_read" /\ SetupMayStep
  /\ read_offset' = 0
  /\ owed' = 0
  /\ setup_pc' = "idle"
  /\ UNCHANGED <<buffer, length, write_offset, producer, consumer, is_initialised,
                 entered>>

InitialiseBegin_KeepFlag(usable) ==
  /\ setup_pc = "idle" /\ push_pc = "idle" /\ SetupMayStep
  /\ setup_pc' = IF usable THEN "init_buffer" ELSE "idle"
  /\ UNCHANGED <<vars, is_initialised, entered, owed>>

\* queues_initialise: not initialised from here on, and for good when the
\* buffer or the length is not usable.
InitialiseBegin(usable) ==
  /\ setup_pc = "idle" /\ push_pc = "idle" /\ SetupMayStep
  /\ is_initialised' = FALSE
  /\ setup_pc' = IF usable THEN "init_buffer" ELSE "idle"
  /\ UNCHANGED <<vars, entered, owed>>

\* The array, with whatever it holds ...
InitialiseBuffer ==
  /\ setup_pc = "init_buffer" /\ SetupMayStep
  /\ \E size \in Lengths : buffer' \in [Offset(size) -> Byte]
  /\ setup_pc' = "init_length"
  /\ UNCHANGED <<length, read_offset, write_offset, producer, consumer,
                 is_initialised, entered, owed>>

\* ... and its size.
InitialiseLength ==
  /\ setup_pc = "init_length" /\ SetupMayStep
  /\ length' \in Lengths /\ DOMAIN buffer = Offset(length')
  /\ setup_pc' = "init_write"
  /\ UNCHANGED <<buffer, read_offset, write_offset, producer, consumer,
                 is_initialised, entered, owed>>

InitialiseWrite ==
  /\ setup_pc = "init_write" /\ SetupMayStep
  /\ write_offset' = 0
  /\ setup_pc' = "init_read"
  /\ UNCHANGED <<buffer, length, read_offset, producer, consumer, is_initialised,
                 entered, owed>>

InitialiseRead ==
  /\ setup_pc = "init_read" /\ SetupMayStep
  /\ read_offset' = 0
  /\ setup_pc' = "init_done"
  /\ UNCHANGED <<buffer, length, write_offset, producer, consumer, is_initialised,
                 entered, owed>>

InitialiseDone ==
  /\ setup_pc = "init_done" /\ SetupMayStep
  /\ is_initialised' = TRUE
  /\ owed' = 0
  /\ setup_pc' = "idle"
  /\ UNCHANGED <<vars, entered>>

-----------------------------------------------------------------------------
(* The two users.  A call on a queue that is not initialised (queues_isValid)
   returns at once with nothing done.  Every call asks twice: the second time
   in queues_getNumBytesPending or queues_isEmpty.  Only in the consumer's
   calls can the answer have changed.                                       *)

BeginPush == \E data \in Batch : is_initialised /\ PushData(data)

EnterPop ==
  /\ ~InPop /\ is_initialised
  /\ \/ entered' = [call |-> "byte", wanted |-> 1]
     \/ \E want \in 1..MaxRead : entered' = [call |-> "data", wanted |-> want]
  /\ UNCHANGED vars

\* No bytes are pending in a queue that is not valid, but queues_isEmpty does
\* not call it empty (line 147): queues_popByte goes on to read one.
FindInvalid ==
  /\ entered # NoCall /\ ~is_initialised
  /\ entered' = NoCall
  /\ pop_call' = entered.call /\ read_length' = entered.wanted
  /\ out_buffer' = <<>>
  /\ IF entered.call = "byte"
       THEN copied' = 1 /\ pop_pc' = "copy"
       ELSE copied' = 0 /\ UNCHANGED pop_pc
  /\ UNCHANGED <<shared, producer, pop_write, pop_offset>>

BeginPop ==
  /\ entered # NoCall /\ is_initialised
  /\ \/ entered.call = "byte" /\ PopByte
     \/ entered.call = "data" /\ PopData(entered.wanted)
  /\ entered' = NoCall

Produce ==
  /\ ProducerMayStep
  /\ BeginPush \/ PushStep
  /\ owed' = IF push_pc = "publish" THEN owed + Len(in_data) ELSE owed
  /\ UNCHANGED <<is_initialised, setup_pc, entered>>

Consume ==
  /\ ConsumerMayStep
  /\ \/ EnterPop \/ FindInvalid \/ BeginPop
     \/ PopStep /\ UNCHANGED entered
  /\ owed' = IF pop_pc = "copy" THEN owed - 1 ELSE owed
  /\ UNCHANGED <<is_initialised, setup_pc>>

LifecycleNext ==
  /\ UNCHANGED mode
  /\ \/ ResetWrite \/ ResetRead
     \/ \E usable \in BOOLEAN : InitialiseBegin(usable)
     \/ InitialiseBuffer \/ InitialiseLength
     \/ InitialiseWrite \/ InitialiseRead \/ InitialiseDone
     \/ Produce
     \/ Consume

LifecycleSpec == LifecycleInit /\ [][LifecycleNext]_allVars

-----------------------------------------------------------------------------
(* Properties.                                                             *)

Quiet == push_pc = "idle" /\ ~InPop /\ setup_pc = "idle"

\* A pop never stores more than read_length bytes in the caller's buffer,
\* even when offsets are reset under it (line 203).
OutBufferBound == Len(out_buffer) <= read_length

\* Every index is inside the array attached at that moment, though a
\* re-initialisation may replace it by a shorter one (lines 294-295) before
\* it clears the offsets: the producer's (line 241) in every mode, also when
\* a consumer thread stores a read_offset of the former buffer (line 177),
\* the consumer's (lines 175, 203) unless it is a thread.
IndicesInBuffer ==
  /\ push_pc = "copy" => push_offset \in DOMAIN buffer
  /\ pop_pc = "copy" /\ mode # "threads" => read_offset \in DOMAIN buffer

\* Unless the consumer is a thread, the queue holds exactly the bytes pushed
\* and not delivered since it was last emptied, when no call is in progress:
\* a reset that an interrupt breaks into still ends with an empty queue.
CountsAgree ==
  (mode # "threads" /\ Quiet /\ is_initialised) => Pending = owed

\* "read one byte from the queue if available" (line 160): whatever the mode,
\* a pop delivers only bytes that were pushed, each once.
OnlyPushedBytes == owed >= 0

\* Masked, reset and initialise empty the abstract queue in one step, and
\* initialise gives it another capacity; until it is initialised it has room
\* for nothing.  (In the other modes the mapping stands still.)
Masked == mode = "masked"
Usable == Masked /\ setup_pc = "idle" /\ is_initialised

AbstractLifecycle == INSTANCE Fifo WITH
  capacity <- IF Usable THEN length - 1 ELSE 0,
  queue    <- IF Usable THEN Contents ELSE <<>>,
  accepted <- Masked /\ pushed,
  due      <- IF Masked THEN Due ELSE 0,
  out      <- IF Masked THEN SubSeq(out_buffer, 1, PopCount) ELSE <<>>

ImplementsClearableFifo == AbstractLifecycle!ClearSpec
=============================================================================
