----------------------------- MODULE ClockEvents ----------------------------
(***************************************************************************)
(* lib/clock/src/clockEvents.c on top of the clock: a caller keeps a       *)
(* timestamp it once got (the start) and asks later whether a period has   *)
(* elapsed since, or how much time has.  Each question first gets the      *)
(* current time and then adds time to a timestamp, second by second; real  *)
(* time goes on during all of that.                                        *)
(***************************************************************************)
EXTENDS ClockTick

CONSTANTS
  Milli,    \* CLK_EV_MILLIS_US
  Periods   \* the values of in_period_us and in_period_ms the caller uses

ASSUME EventsAssumption ==
  Milli \in Nat /\ Periods \subseteq Nat

VARIABLES
  event,    \* the question being asked, "none" between questions
  period,   \* its period, as given by the caller
  start,    \* the start timestamp
  started,  \* history: real time of start
  adding,   \* clock_event_addTime is running
  result,   \* ... its result_timestamp, with us in the microseconds
  u64Delta, \* of a stop watch, what is still to be added after that
  answer    \* the answer just given, [kind |-> "none"] at other times

asking  == <<event, period, adding, result, u64Delta, answer>>
events  == <<asking, start, started>>
allVars == <<vars, events>>

Fields(ts) == <<ts.hours, ts.minutes, ts.seconds>>

CompareTime_Strict(current, expire) == Micros(current) > Micros(expire)

\* clock_event_compareTime: the first of hours, minutes and seconds that
\* differs decides, then the microseconds.
CompareTime(current, expire) ==
  LET differ == {ix \in 1..3 : Fields(current)[ix] # Fields(expire)[ix]}
  IN  IF differ = {}
        THEN current.microseconds >= expire.microseconds
        ELSE \E ix \in differ :
               /\ \A jx \in differ : ix <= jx
               /\ Fields(current)[ix] > Fields(expire)[ix]

Uint32Max == Ticks - 1

-----------------------------------------------------------------------------
NoAnswer == [kind |-> "none"]

EventsInit ==
  /\ Init
  /\ event = "none" /\ period = 0
  /\ start = Zero /\ started = 0
  /\ adding = FALSE /\ result = Zero /\ u64Delta = 0
  /\ answer = NoAnswer

\* The caller keeps the timestamp it has just got.
Mark ==
  /\ pc = "idle" /\ event = "none" /\ call = "get" /\ f_is_initialised
  /\ start' = out_timestamp /\ started' = serviced
  /\ answer' = NoAnswer
  /\ UNCHANGED <<vars, event, period, adding, result, u64Delta>>

\* Every question gets the current time first.
Ask(kind, p) ==
  /\ event = "none"
  /\ GetTimeStamp
  /\ event' = kind /\ period' = p
  /\ answer' = NoAnswer
  /\ UNCHANGED <<start, started, adding, result, u64Delta>>

HasUsTimeElapsed(p) == Ask("us", p)
HasMsTimeElapsed(p) == Ask("ms", p)
AskStopWatch        == Ask("watch", 0)

PeriodMicros == IF event = "ms" THEN period * Milli ELSE period

\* The question has the current time.
Asked(kinds) == event \in kinds /\ pc = "idle" /\ ~adding

\* clock_event_addTime begins: the microseconds are a uint64_t here.
AddTime(ts, us) ==
  /\ adding' = TRUE
  /\ result' = [ts EXCEPT !.microseconds = @ + us]

\* The question is answered.
Reply(value) ==
  /\ answer' = [kind |-> event, value |-> value, since |-> serviced - started,
                period |-> PeriodMicros]
  /\ event' = "none" /\ period' = 0
  /\ adding' = FALSE /\ result' = Zero /\ u64Delta' = 0
  /\ UNCHANGED <<vars, start, started>>

\* A period of zero has always elapsed.
NoPeriod ==
  /\ Asked({"us", "ms"}) /\ PeriodMicros = 0
  /\ Reply(TRUE)

\* stExpireTime is to be worked out.
AddPeriod ==
  /\ Asked({"us", "ms"}) /\ PeriodMicros # 0
  /\ AddTime(start, PeriodMicros)
  /\ UNCHANGED <<vars, event, period, start, started, u64Delta, answer>>

\* clock_event_stopWatch: the difference of two instants is 64 bits wide and is
\* added in one or two pieces of 32.
AddDifference ==
  /\ Asked({"watch"})
  /\ LET delta == Micros(out_timestamp) - Micros(start)
         first == IF delta > Uint32Max THEN Uint32Max ELSE delta
     IN  AddTime(Zero, first) /\ u64Delta' = delta - first
  /\ UNCHANGED <<vars, event, period, start, started, answer>>

\* while ( us > CLK_TICK_SECOND_US - 1 )
AddSecond ==
  /\ adding /\ result.microseconds > Second - 1
  /\ result' = [NextSecond(result) EXCEPT !.microseconds = @ - Second]
  /\ UNCHANGED <<vars, event, period, start, started, adding, u64Delta, answer>>

Added == adding /\ result.microseconds <= Second - 1

AddRest_Dropped ==
  /\ Added /\ u64Delta # 0
  /\ AddTime(result, 0) /\ u64Delta' = 0
  /\ UNCHANGED <<vars, event, period, start, started, answer>>

\* The second piece is a uint32_t again.
AddRest ==
  /\ Added /\ u64Delta # 0
  /\ AddTime(result, u64Delta % Ticks) /\ u64Delta' = 0
  /\ UNCHANGED <<vars, event, period, start, started, answer>>

AnswerPeriod ==
  /\ Added /\ event \in {"us", "ms"}
  /\ Reply(CompareTime(out_timestamp, result))

AnswerStopWatch ==
  /\ Added /\ event = "watch" /\ u64Delta = 0
  /\ Reply(result)

\* A caller that sets the clock to zero forgets its start: it means nothing
\* any more.
Restart ==
  /\ event = "none"
  /\ Initialise
  /\ start' = Zero /\ started' = 0
  /\ answer' = NoAnswer
  /\ UNCHANGED <<event, period, adding, result, u64Delta>>

\* The clock goes on, in a question or not; also it is serviced for its own
\* sake.
ClockNext ==
  /\ answer' = NoAnswer
  /\ UNCHANGED <<event, period, start, started, adding, result, u64Delta>>
  /\ \/ \E d \in 1..MaxGap : Elapse(d)
     \/ Load \/ Carry \/ Return
     \/ event = "none" /\ (UpdateTime \/ GetTimeStamp)

EventsNext ==
  \/ ClockNext
  \/ Restart
  \/ Mark
  \/ \E p \in Periods : HasUsTimeElapsed(p) \/ HasMsTimeElapsed(p)
  \/ AskStopWatch
  \/ NoPeriod \/ AddPeriod \/ AddDifference
  \/ AddSecond \/ AddRest
  \/ AnswerPeriod \/ AnswerStopWatch

EventsSpec == EventsInit /\ [][EventsNext]_allVars

-----------------------------------------------------------------------------
(* Properties.                                                             *)

\* A period is reported as elapsed exactly when that much real time lies
\* between the start and the reading, across carries and counter wraps
\* (clockEvents.c:55-91 compares field by field).
ElapsedIsExact ==
  answer.kind \in {"us", "ms"} =>
    (answer.value <=> answer.since >= answer.period)

\* The stop watch shows the time "elapsed between the provided time and the
\* current time" (clockEvents.c:162).
StopWatchIsExact ==
  answer.kind = "watch" => Micros(answer.value) = answer.since

\* ... which it does for as long as two 32-bit additions can express.
StopWatchWithinRange ==
  (answer.kind = "watch" /\ answer.since <= 2 * Uint32Max) =>
    Micros(answer.value) = answer.since
=============================================================================
