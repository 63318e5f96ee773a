# Verification of googletest-for-c-examples

TLA+ models, model-checking configurations and machine-checked proofs for the C
code of this repository: a small embedded library (`lib/`) and an example
program (`example/`). Each definition is translated from the C source; the
table `map` in `PROJECT.json` names the lines.

## The system

| Component | State | Operations | What is hard | What makes it correct |
|---|---|---|---|---|
| `lib/common/src/queues.c` circular buffer | buffer, `read_offset`, `write_offset`, `is_initialised` | push, pop (byte, data), `isFull`, `isEmpty`, `getNumBytesPending`, reset, initialise | one producer and one consumer run concurrently without a lock, on snapshots of volatile offsets; reset and initialise write several fields | bounded FIFO, whole batches, nothing lost, repeated or overwritten; reset empties |
| `lib/clock/src/clockTick.c` timestamp | `f_is_initialised`, `f_prev_tick_count`, `f_current_timestamp` | initialise, updateTime, getTimeStamp, (getTimeString) | the 32-bit microsecond counter wraps; additions are 32 bits wide | the timestamp equals real time at the last reading |
| `lib/clock/src/clockEvents.c` | none; uses the clock | has a period elapsed (us, ms), stop watch | carries between fields, 64-bit values in 32-bit pieces | the answers agree with real time |
| `lib/common/src/utilDevDebug.c` assert handler | `have_entered_already`, four message fields, three callbacks | initialise, handleAssert | entered by any thread, interrupt or callback, with an unprotected flag; never returns on the target | one whole report, after the safe state, repeated, never replaced |
| the same file, built with `TINY_ASSERTS_ONLY` | one message buffer and its length, `have_entered_already` | handleAssert | the line is put together piece by piece in a buffer that just holds the longest | the line reported is exactly that of the assertion, and lies in the buffer |
| `example/application/main.c` | run flag, shutdown and initialised flags | parse, set-up, threads, loop, tear-down, signal handler | SIGINT at any instruction; statics outlive a call under test | no SIGINT is lost; the program ends only when told |
| `example/application/counter.c` | flag and count | initialise, increment, get, deInitialise | - | modelled where `main_setup` uses it |
| `example/application/helloWorld.c` | none | bounded copy | buffer of any length | only its outcome, where `main` uses it |
| calendar: `dateTime.c`, `utcNorm.c`, `utcTime.c`, `strToUtc.c` | none of its own; the caller's structures and buffers | validity, normalise to UTC, compare, print, parse | carries between minute, day, month and year in both directions; leap years; year limits; text cut at the end of a buffer | the instant survives normalising, printing and reading; the comparison is chronological; exactly the real dates are read |
| text: `mString.c`, `mStrToNum.c` | none | length and append with bounds, numbers to text and back | the largest and smallest number of each type, truncation, refused digits after good ones | a number written is the number read; exactly the numbers of a type are read |
| `getBytes.c` | none | packing and unpacking of 2, 4 and 8 bytes in either order | signs, high bytes, a payload one byte too short | what is packed reads back, and nothing else is written |
| `mPrintf.c` | output function | printf and snprintf with a buffer of their own | an argument that does not fit resets the length; the last character and its Nul | pieces are whole, in place and with their own argument |
| `calcCrc32.c` | table, `f_crc32_initialised` | CRC of a buffer | the first calls fill the table without a lock | every caller gets the checksum of its data |
| `gpio.c` | pin instance | initialise, read, write, toggle | the instance is filled field by field while others may use it | nobody moves a pin before its owner has, nor another pin |
| `cliSerial.c`, `rtosSleep.c` | none | UART write and read; sleep | - | single guarded calls; not modelled apart |
| `evaluate.c` | none | floating point | out of TLC's reach | not modelled |
| `scripts/`, `ci/` | - | build and lint | no program logic | not modelled |

Interactions: `clockEvents` calls `clockTick_getTimeStamp` before every answer,
and `clockTick` reads the hardware counter through `timeDriver_getAppTick_uS`.
`main` and `clockTick` call `DD_ASSERT`, which ends in
`utilDevDebug_handleAssert`; that calls back into the application (consumer,
publisher, safe state) and sleeps through ThreadX. The queue is shared memory
between two contexts; its comment "could be changed by an interrupt"
(queues.c:101) is the reason to interleave at every shared access. ThreadX, the
STM32 HAL and the counter are external.

## Modules

**`Fifo`** is the promise of `queues.h` without the mechanism: a bounded queue;
a batch appears whole or is refused, and only when it does not fit; a read fixes
how many bytes it will deliver and delivers the oldest, each once. `Clear`
(only in `ClearSpec`) empties it, and may give it another `capacity`.

**`Queues`** is the code of push and pop. Each action makes at most one access
to shared memory: `PushData` (load `write_offset`), `PushSpace` (load
`read_offset`, decide), `PushSnapshot`, `PushCopy` (one pass of the loop, one
byte stored), `PushPublish`; `Pop` (load `write_offset`), `PopNotEmpty` or
`PopReadable` (load `read_offset`, decide), `PopCopy`, `PopLoad`, `PopAdvance`.
`queues_pushByte` is a batch of one. Locals of the two calls are variables.
What is stored in a `uint16_t` is cut to its width (`Uint16`); `HasSpace` and `IsFull`
are computed in `int`, as in C. `length` is a variable, chosen among the `Lengths` and
only loaded by push and pop.
`Abstract == INSTANCE Fifo WITH ...` is the refinement mapping.

**`QueuesLifecycle`** extends it with `queues_reset` and `queues_initialise`,
called from the producer's context, one store per action, and with the second
`queues_isValid` test that each pop makes (`EnterPop`, then `BeginPop` or
`FindInvalid`). It starts with an instance in zeroed storage. Every initialisation takes
an array with any contents and any of the `Lengths`: after `InitialiseBegin` has
cleared the flag, `InitialiseBuffer` stores the array, `InitialiseLength` its size,
`InitialiseWrite` and `InitialiseRead` the offsets, and `InitialiseDone` sets the flag.
A load from behind the end of the array (`BytesAt`) finds any byte. The variable `mode`, chosen initially, says how the contexts exclude
each other: `masked`, `interrupt` (the consumer may come between any two steps
and then finishes) or `threads`. `owed` counts bytes pushed and not delivered.

**`ClockTick`**: `Elapse` is real time passing (the external counter),
`Load` is `clockTick_getDelta` with the 32-bit addition, `Carry` one pass of the
carry loop, `Return` the copy to the caller. `elapsed` and `serviced` record real
time. The widths are constants: `Ticks` stands for 2^32, `Second` for 10^6.
**`ClockEvents`** extends it with a caller that keeps a start timestamp (`Mark`)
and asks (`HasUsTimeElapsed`, `HasMsTimeElapsed`, `AskStopWatch`); every question
reads the clock first. `AddPeriod` or `AddDifference` starts `addTime`,
`AddSecond` is one pass of its loop, `AddRest` adds the second piece of a long
difference, and `NoPeriod`, `AnswerPeriod` or `AnswerStopWatch` answers. Real
time may pass between any two of these steps.

**`AssertHandler`**: contexts fail assertions (`Fail`); `TurnAway` or `Admit` is
the test of `have_entered_already`, `Enter` its store, `SaveText` the two steps
(cut, append) for each text, `SaveLine`, `SafeState`, then the loop `Sleep`,
`Publish`, `Again`. The variable `mode`, chosen initially, is `interrupts` (a
context yields only to more urgent ones), `threads`, or `unit test`, the
`DD_UNIT_TESTING` build in which the handler returns (`Leave`). A callback that
itself asserts does so to its end between two steps of the handler that called
it: it is one of the more urgent contexts. `Initialise` stores the three callbacks one by one. A text is the
sequence of assertions whose name it holds.

**`MainApp`**: one action per stage of `main`, `Sigint` between any two of them
(it ends a process that has no handler yet), `Restart` for the next call of
`test_main`, with the statics as they were left. The variable `UnitTesting`,
chosen initially, is the build.

**`Calendar`** holds the validity rules of `dateTime.c` and the table of zones,
and the yardstick: `DayNumber` counts days by a closed formula, `Instant` is what
a structure stands for. **`UtcTime`** is `utcTime_isGreater` with the two
normalisations it makes; each pass of the four loops of `utcNorm.c` is a step
(`ShiftNegativeMinutes`, ..., `ShiftNegativeByDays`), so that the loop invariant
can be stated. `Decide` is the comparison field by field. **`UtcText`** puts a
caller around it: two texts are read (`Convert`), compared, one of the times is
printed (`ToBuffer`) in any format into a buffer of any of the `Rooms`, and the
text is read back. A text is its numbers, the number of its characters and
whether its separators are in place; a year of five digits moves everything
behind it, so that the separators are not.

**`Crc32`** is `calcCrc32` called by several contexts: the test of the flag
(`CheckTable`), each row of the table (`FillRow`), the store of the flag
(`PublishTable`), each byte (`SumByte`). A word is the set of the positions of
its ones. The yardstick, `Register`, shifts the data through bit by bit without
a table. **`Gpio`** is one instance: its owner's stores (`StorePort` to
`SetInitialised`), and users whose calls are split between the test of
`bInitialised` (`Use`) and the HAL (`ReadPin`, `WritePin`, `TogglePin`). The HAL is
external: `level` is the output level of each pin.

**`Strings`** holds the operators of `mString.c` and `mStrToNum.c` over memory of
limited size; 10, 16 and the limits of the types are constants. Their loops are
recursive functions, so that they can be reasoned about. **`Numbers`** is a
caller that writes a number (`WriteNumber`) or is given a text, and reads it
(`ReadNumber`); `Meaning` is the value of a numeral in closed form. **`Printf`** has
one action per pass over the format (`FormatPass`) and one per way out
(`StreamOut`, `CopyToDest`); `Pieces` says, without a buffer, what a format
stands for. **`Bytes`** is a caller that packs fields behind each other
(`PackLe`, `PackPair`) and reads all of them after every step, with memory of
its neighbours behind the payload.

**`TinyAssert`** is the one-line message: a stack of contexts, each coming in
between any two steps of the one below; `SaveMessage` appends one piece,
`SaveLength`, `PublishMessage`, `Return` as in the code.

**`Library`** puts the calendar and these services side by side. They share no
state, so a program that uses one of them (the variable `service`, chosen
initially) has all the behaviours each of them has, and the state space is their sum.

`MC*` modules instantiate these for TLC. The theorems are in `QueuesProofs` (both
queue modules), `ClockProofs`, `AssertHandlerProofs`, `MainAppProofs`, `UtcProofs`,
`LibraryProofs` (`Gpio`, `Crc32`, `Bytes`) and `TextProofs` (`Numbers`, `TinyAssert`,
`Printf`); `Induction` holds what several of them need about natural numbers and
recursive functions. Operators with a suffix that the C code does not have
(`HasSpace_Full`, `NextDay_NoYear`) are plausible slips; no specification uses
them, and for each property one of them, put in the place of the original, makes
its run fail.

## Runs

| Run | Configuration | Shows |
|---|---|---|
| `queues` | `MCQueues.cfg` | type correctness, `NoUnreadOverwritten`, `PromiseHolds`, `BatchComplete`, `RefusedOnlyWhenFull`, refinement of `Fifo`; a call that keeps running returns whatever the other side does |
| `lifecycle` | `MCQueuesLifecycle.cfg` | `mode` masked: reset and initialise are one abstract `Clear`; masked or interrupt: `CountsAgree`, an interrupted reset still ends with an empty queue; all: the caller's buffer is not overrun, and the producer's index is inside the array attached at that moment, though a re-initialisation may attach a shorter one; so is the consumer's unless it is a thread (`IndicesInBuffer`) |
| `clock` | `MCClockEvents.cfg` | exact time over several counter wraps when serviced every `Ticks - Second`; elapsed periods exact; stop watch exact within its range |
| `assert` | `MCAssert.cfg` | report intact, after the safe state, never replaced, repeated for ever; under unit test the handler re-arms when it returns |
| `main` | `MCMain.cfg` | SIGINT ends the program, nothing else but coverage does, and only a stoppable program enters its loop; repeated calls of `test_main` always return |
| `library` | `MCLibrary.cfg` | calendar: every pass of normalising keeps the instant, the result is a valid time in Greenwich, the comparison is chronological, exactly the existing dates in a known form and zone are read, and a successful print reads back as the same instant. `CrcIsExact`: also callers that fill the table together get the right sum. `FirstLevelIsOwners`: a pin moves only when it is the owner's, and first to the owner's level. `NumbersSurvive`: what is written reads back, and exactly the numbers of a type are accepted. `FrameSurvives`: packed fields stay and read back, the memory behind does not change. `PrintsWholePieces`: no piece is cut, moved or printed twice. `TinyMessageExact`: the publisher gets the line of its own assertion |

Six runs end in a violation, each a disagreement of the code with its own
documentation or tests:

| Run | Disagreement |
|---|---|
| `reset_race` (`MCReset.cfg`) | reset clears `write_offset` first (queues.c:272): an interrupt before the second store finds the old `read_offset` (1, after one byte pushed and popped) and pops a byte that was never pushed |
| `clock_gap` (`MCClockTickGap.cfg`) | a gap that `getDelta` still handles overflows the microseconds field (clockTick.c:146) and 2^32 us are lost |
| `stop_watch` (`MCStopWatch.cfg`) | past 2 * (2^32-1) us, some 2 h 23 min, the stop watch shows too little (clockEvents.c:193) |
| `assert_race` (`MCAssertRace.cfg`) | two threads pass `have_entered_already` (utilDevDebug.c:184) and mix their texts |
| `main_status` (`MCMainStatus.cfg`) | `result` is overwritten (main.c:301): a failed set-up exits with 0 |
| `utc_limits` (`MCUtcLimits.cfg`) | 23:30 on 9999-12-31 in zone -12:00 normalises to the year 10000; printed into a buffer of the least length it is cut by one character, and `utcTime_toBuffer` reports success (utcTime.c:77). A time in the first hours of year 0, east of Greenwich, becomes the year 65535 (utcNorm.c:37) |

`DD_ASSERT` "will ... block" (utilDevDebug.h:18) holds for the first failed
assertion only: `TurnAway` lets every later one go on. That is a single guard of
the code and needs no run.

### Bounds

* Queue: arrays of two and three slots, so one or two usable; batches and reads
  up to three. Every wrap position, full and empty rings, refused batches, reads
  cut short and batches longer than the buffer occur. Two byte values tell bytes
  apart where order matters. `lifecycle` has arrays of one and three slots, so that a
  queue shrinks to one that holds nothing and grows again, pushes single bytes, and has
  `UINT16_MAX` 3, the least that holds its offsets, so that a stray `read_offset` takes
  every value of its type. `reset_race` has one array of three slots and one byte
  value. The properties proved hold for any size.
* Clock: `Ticks` 6, `Second` 2, two seconds to the minute and two minutes to the
  hour, 14 ticks of time: more than two wraps, carries through to the hours,
  several carries in one call, and time past the stop watch's range. `clock_gap`
  has 12, 4 and 40. `Ticks` is not a multiple of an hour, as 2^32 is not. Hours do
  not wrap in the model (2^32 hours).
* Assert: three contexts (two for threads), two assertions, `TriggerCount` 1 for
  200 and 0 under unit test, one failed assertion per context (`MaxFailures`).
* Main: argument lists with and without `-c` and `-d`, one of the length at which
  the `uint8_t` count becomes 0 (`Width` 4 for 256); up to three SIGINTs and three
  calls in a process. The six increments are not abbreviated.

* Calendar: eight dates at the ends of months and years and around 29 February of
  leap, common and century years, two times of day near midnight with the
  fraction at its limits, four zones (Greenwich, both ends, one with 45 minutes):
  all pairs, so every carry occurs in both directions, and times that agree in
  every field but the zone. Texts with a date, time or zone that does not exist,
  a wrong separator, or a character too many. Structures with offsets of three and four days, which no
  text can name, so that each loop makes several passes. Every format, with
  the least buffer for each of the six and one with room to spare. Fractions are
  read with 0, 3 and 6 digits (four texts with less than six), also when read back.

* Checksum: two contexts, words of 5 bits and bytes of 2, so tables of four rows
  that both fill; messages of up to three bytes.
* Pin: two users, two ports, two pins: every user call between every two stores.
* Numbers: digits to base 3 and types of 2, 3 and 5 bits, all their values; every text of up
  to four of the characters 0, 1, 2, `-`, `a` and Nul, so texts on both sides
  of every limit; widths up to 4, shorter and longer than the numbers.
* Bytes: two fields of every size, order and sign at the edge values (`FieldValues`), in a
  payload of 11 bytes of two bits (`CharBits`) each: room for all pairs but two of 8 bytes, and the last
  field often one or a few bytes too long.
* Printf: a buffer of 8 characters, formats of up to three items, a text that
  alone overflows it, none to three arguments, one of them negative, three sizes of
  destination, pointers of 8 bits (`UintptrMax`).
* Tiny assert: names cut at 2 and 3 characters, shorter and longer ones, two
  contexts in the handler. With a third one only the depth would grow: the
  second already comes in between every two steps of another.

Deadlock is checked except where the system really stops: the program and the
test program end, and so do the callers of the library's services.

### Fairness

* `Queues!FairSpec`: weak fairness of each side's steps *inside* a call: a call
  that has begun is scheduled. Nobody has to begin one.
* `AssertHandler!FairSpec`: weak fairness of each context's handler steps.
  A context preempted for ever by a more urgent one in its handler is not
  enabled; `ReportRepeats` excepts it.
* `MainApp!FairSpec`: weak fairness of `main` itself: the process is scheduled
  and `nanosleep` returns. No fairness of signals.

## Proofs

`QueuesProofs`, for every `Byte` and `UINT16_MAX`, all `Lengths`, and `MaxBatch` and
`MaxRead` in 1..`UINT16_MAX` (`QueuesAssumption`):

* `TypeCorrect`, `UnreadBytesSafe`, `PromiseKept`, `BatchNeverTorn`,
  `RefusalsMatchIsFull`: five safety properties of `queues`;
* `Refinement`: `Spec => ImplementsFifo`.

None of the properties is inductive: they do not say what a check made on
offsets that have since moved is still worth. `IInv` adds that. `PushInv`: the
producer's own `write_offset` has not moved since it was loaded, the room it
found is still there (the consumer only makes more), and the bytes copied so far
lie in order behind the published ones. `PopInv`: the consumer's own
`read_offset` has not moved, what it found is still pending (the producer only
adds), and the byte just copied is the oldest. Each action has a lemma; the
arithmetic of the ring (`UpdateIsNextSlot`, `PendingAfterPush`, `SlotsDiffer`, ...)
is stated once. Refinement shows that publishing is `Put`, a refusal is `Refuse`,
the load that starts a pop is `BeginGet`, `PopAdvance` is `Take`, and every other
step is invisible.

The same module about `QueuesLifecycle`, under `QueuesAssumption`:

* `CallersBufferHolds` (`OutBufferBound`) holds in every `mode`, two threads included. A
  consumer that is overtaken by a reset keeps nothing of `PopInv`; what is left is
  what a pop knows without looking at the offsets (`BoundInv`): it has stored no more
  bytes than it decided to deliver, and decided on no more than it was asked for.
* `IndicesStayInside` (`IndicesInBuffer`), over initialisations with arrays of any of the
  `Lengths` one after the other: in every mode for the producer, because its index
  comes from `write_offset`, which no consumer stores, and because a queue with the flag
  set has an array and a length that belong together (`SetupInv`); for the consumer in the
  modes where it cannot be inside a call meanwhile (`Apart`). A consumer thread that is not
  kept out of `queues_initialise` can store an offset of the former, longer array
  (queues.c:177) and then read behind the end of the new one. The model has that
  behaviour, and nothing here says otherwise.
* `ResetEmptiesTheQueue` (`CountsAgree`) and `LifecycleRefinement`
  (`ImplementsClearableFifo`) hold in the modes that these properties name: all
  but threads for the first, `masked` for the second. `Apart` is `IInv` there, and its lemmas
  on push and pop steps, `StepRefines` among them, are used again; only reset
  and initialise are new: while the consumer is kept out, each of their stores is `Clear`.

`ClockProofs`, for every counter width and time base:

* `TypeCorrect`: the fields keep their ranges for every `MaxGap`, gaps of a full turn of
  the counter and more included;
* with `MaxGap + Second <= Ticks`: `ClockAccurate` (`TimestampAccurate`) and
  `ClockMonotonic` (`NeverBackwards`). `IInv` relates the counter to the last
  reading: it stands `elapsed - serviced` ticks further, modulo one wrap. The
  hypothesis is sharp up to the microseconds already counted: `clock_gap` fails
  with a longer gap;
* under the same hypothesis `PeriodsAreExact` (`ElapsedIsExact`) and
  `StopWatchIsExactInRange` (`StopWatchWithinRange`), for every period.
  `EventsInv` says that what the caller holds are instants of real time, and that
  the sum on its way, with the piece still to be added, is the sum asked for at
  every pass of the loop (`AddingInv`). `InOrder` shows that comparing field by
  field compares instants;
* `QuestionsKeepTheClock`: `EventsSpec => Spec`, so that what is proved of the
  clock holds whatever is asked of it.

`AssertHandlerProofs`, for every number of contexts, set of assertions, repeat
count and number of failures: `TypeCorrect`, `SafeBeforeReport` (`SafeStateFirst`)
and `ArmedAgain` (`ReArmed`) hold in every mode; `ReportsIntact` (`MessageIntact`)
and `FirstReportStands` (`FirstReportKept`) under `Nested`, that is, for contexts that
preempt each other like interrupts. Threads are excepted because the code fails
there: `assert_race` shows it. The flag is tested in one step and set in another, so
that it alone excludes nobody; `Exclusion` says what does: while a context is in the
handler, one that is more urgent is turned away and one that is less urgent
does not run. With that the fields saved so far are its own (`MessageInv`), and a
report, on the target, that of the context still reporting (`ReportInv`). `CountInv`
bounds the texts also where they mix.

`MainAppProofs`, for both builds and any arguments: `TypeCorrect`,
`EndsOnlyWhenAsked` (`RunsUntilAsked`), `LoopCanBeStopped` (`LoopIsStoppable`), and
`SignalNeverLost`: a SIGINT that `main_signalHandler` took makes every later poll
end the loop, whenever it came. That is the safe part of `InterruptEndsProgram`, which
is liveness. The invariant lists what each stage of `main` has established
for the later ones (`CounterInv`, `TargetInv`, `SignalInv`).

`UtcProofs`, about the calendar for every time and zone a structure can hold, and
for every text:

* `InstantKept` (`SameInstant`), `NormalisedTimesAreValid` (`NormalisedIsValid`) and
  `GreaterMeansLater` (`GreaterIsLater`) of `TimeSpec`;
* `RealDatesAreRead` (`AcceptsRealDates`) and `PrintedTimesReadBack` (`RoundTrip`) of
  `TextSpec`; `ReadTimesAreNormalised`: the three above, also for the times that
  come from texts.

The base is the Gregorian day number. `DayNumber` is a closed formula and the code
a table of months with a leap year rule; `NextDayIsNext` and `PreviousDayIsPrevious`
show that stepping over the ends of months and years is adding and subtracting one,
`TableIsFormula` that the table has the days the formula has, `DatesInOrder` that
dates are ordered as their fields. `CarryInv` then says that at every pass of the
four loops the copy, `day_delta` and `total_minutes` add up to the time given. For
texts, `TextInv` carries `CarryInv` through printing, and `Faithful` says that what
the buffer holds converts to the first time given, cut to the digits printed.

Two hypotheses are needed. `InsideTheYears` excepts the years 0 and 65535, from which
a zone may lead out of the `uint16_t` (`NextDay` and `PreviousMonth` wrap, as
utcNorm.c:37 does). `FourDigits` excepts the years 0 and 9999, from which it may lead out of
four digits; `utc_limits` shows that the code fails there. `RealDatesAreRead` needs neither.

`LibraryProofs`:

* `OwnerDrivesFirst` (`FirstLevelIsOwners`), for all sets of users, ports and pins. The
  property is an action property, and its invariant says what it needs of the
  state before: how much of the instance the owner has stored at each step
  (`StoredInv`), which level is known (`LevelInv`), and that a user is past the test
  only once the flag is set (`AccessInv`).
* `TableIsComplete`, for every width, polynomial, set of callers and messages: who sums
  finds every row in place. It holds although the fill is not exclusive: each
  context counts only the rows it has stored itself (`Filled`), and another context
  can only store the same row again (`StoringKeepsRows`).
* `ChecksumIsExact` (`CrcIsExact`): the sum is the division bit by bit, for data of any
  length. Shifting and exclusive or are linear (`ShiftXor`, `DivideXor`), so that what is
  in the low byte of the register and what is above it pass eight bits on their own
  (`EntrySplits`), and the row of the table does for the low byte what the eight passes
  would (`FedByte`). `SumInv` is then that the sum so far is the division of
  the data so far. `EveryByteHasARow` shows that no byte is left out of the table.
* `FramesSurvive` (`FrameSurvives`), for bytes of any number of bits, any fields and any
  payload. The bytes of a number sum up to it (`SumOfBytes`) and casting there and
  back is the identity on the numbers of the type (`CastBack`), so what is stored
  reads back (`EncodedReadsBack`); `FieldsInv` says that fields lie behind each other, so
  that storing one leaves those in front alone, and `MemInv` that nothing past the
  payload changes.

`TextProofs`, for every radix the code could use and every size of its types:

* `NumbersAreExact` (`NumbersSurvive`), for every text. `Digits` recurs to a smaller number
  (`DigitsMeaning`, by strong induction), its meaning as a numeral is the number
  (`DigitsNumeral`), the scan either has the meaning of what it has read or has refused
  it because it is not a numeral or too large (`ScanReads`), and what is written fits the
  text it is written to (`ReadingIsNaming`, `WritingIsNaming`).
* `TinyMessagesAreExact` (`TinyMessageExact`), for every set of places in the code and every
  `MaxFilename`, `MaxFunction` and `MaxLinenum` with room for the digits of a line. `StackInv` says that of the
  contexts in the handler one at most is past the flag and putting its line
  together, and which those are that wait under it; `MessageInv` that the buffer begins with what that one
  has appended so far. `LineLengths` shows that the longest line just fits.
* `PrintsAreWhole` (`PrintsWholePieces`), for every list of arguments and size of
  buffer, and every format whose zero padding fits the arrays it is made in (`PadFits`, a
  part of `PrintfAssumption`). What a pass of the loop stores is what the property has for its item
  (`ItemAppended`), although the one counts arguments as it goes and the other
  looks back over the format (`TakenIs`). `Holds` is the invariant of the buffer: one text with
  its Nul behind it, joined from some of the pieces so far, and from all of them as long as they fit. It is stronger than the
  property in that it also says that dropping everything, which
  `mPrintf_appendCstring` does where `m_strcat_s` fails, is a choice of no pieces.

What a loop computes over data of any length is proved by taking the least
length for which it would be wrong (`LeastElement`, `StrongInduction`, `IntervalInduction` of `Induction`, stated
about sets of numbers), and a recursive function exists and obeys its equations by
`RecursiveFunction`.

With these, every invariant and every action property that a passing run checks is a
theorem, as are the two refinements.

Only model-checked: the six liveness properties (`PushReturns`, `PopReturns`, `ReportRepeats`,
`InterruptEndsProgram`, `CoverageRunEnds`, `TestMainReturns`), which rest on fairness, outside the
prover's reach; and the violations.

## Assumptions

* One producer and one consumer; reset and initialise come from the producer's
  context. A queue is in zeroed storage before it is first initialised, and what it
  is initialised with is as long as the call says.
* The stores to the buffer, which is not volatile, and the offsets take effect in
  program order. `uint16_t` accesses are atomic.
* The clock is used from one context; a caller that sets it to zero with
  `clockTick_initialise` forgets the timestamps it kept.
* The times passed to `utcTime_isGreater` have a date that exists, a time of day in
  range and, with the sign `Z`, no offset (`TimesAssumption`); nothing in it checks
  them. Texts may say anything two digits can (`TextsAssumption`).
* Numbers in a text are written in digits (`matoi_*` refuses anything else); the
  character before a fraction is a full stop, which the code does not look at.
* The names an assertion saves fit their buffers (full build).
* The stores of the CRC table, of a pin instance and of their flags become
  visible in program order. A pin instance is initialised once. Given `eGpioUnknown`,
  `drv_Gpio_Initialise` sets the pin (gpio.c:31) and `drv_Gpio_WritePin` resets it (gpio.c:67).
* A text that a `%s` is given ends in a Nul (`PrintfAssumption`), a number that is packed is one of
  its type (`FieldsAssumption`), and a pad of a number that is read back leaves room for the Nul in the
  buffer it is written to (`NumbersAssumption`); the C types and the callers see to these.
* A format asks for the arguments it is given, and does not end within a
  conversion that has a width (mPrintf.c:416 would step over its Nul). Zero padding
  is no wider than 10 for `%u` and 12 for `%d`, of which 12 is refused: both functions
  fill their local arrays before they check the fit (mString.c:220 and 251), and a
  wider pad would write past them. `Padded` is not meant for such widths; `PadFits` in
  `PrintfAssumption` excludes them.
* Negating the least `int32_t` (mString.c:136) wraps, as it does in the builds.
* The tiny build guards its buffer with the same unprotected flag as the full one, and two
  threads can pass it together as in `assert_race`; in `TinyAssert` contexts nest, as interrupts do.
* On the target the assert handler does not return from `main_setup`; under unit
  test it does.

## Slips in the documentation

* utcTime.h:72 lists the accepted lengths as 20, 24, 25, 27 and 32. The code
  (strToUtc.c), the comment in `utcTime.c` and the tests also accept 29, which is
  `YYYY-MM-DDThh:mm:ss.sss+hh:mm`, and so do `FormatLength` and `AcceptsRealDates`.

## Not modelled

* `evaluate.c` and `m_ftoa_s`: floating point. `%g` prints a text that is given.
* `m_strstr_s`, `m_strcmp_s`, `m_utoa8Hex_s`: pure functions that no modelled code calls.
* The bytes that `helloWorld_main` copies, `clockTick_getTimeString`,
  `utcTime_copy` and `utcTime_setDudDate`: one assignment or loop without a
  decision that another part depends on.
* `cliSerial.c`, `rtosSleep.c`: one guarded external call each; a property could
  only repeat the guard. The sleep is a step of `AssertHandler`.
* `counter_deInitialise`: the program never calls it.
* `scripts/`, `ci/`: no program logic.

## Plan

1. done: `Fifo`, `Queues`, `QueuesLifecycle`; `QueuesProofs`.
2. done: `ClockTick`, `ClockEvents`; `ClockProofs`.
3. done: `AssertHandler`, `MainApp`; `AssertHandlerProofs`, `MainAppProofs`.
4. done: `Calendar`, `UtcTime`, `UtcText`; `UtcProofs`.
5. done: `TinyAssert`, `Strings`, `Numbers`, `Bytes`, `Printf`, `Crc32`, `Gpio`,
   `Library`; `LibraryProofs`, `TextProofs`, `Induction`.
6. Left: the safe parts of the liveness properties as theorems, in the way
   `SignalNeverLost` is of `InterruptEndsProgram`; `m_strstr_s` and `m_strcmp_s`, once something calls them.
