------------------------------ MODULE ClockTick -----------------------------
(***************************************************************************)
(* lib/clock/src/clockTick.c: hours, minutes, seconds and microseconds     *)
(* kept from a free-running 32-bit microsecond counter.  The counter wraps *)
(* about every 72 minutes; the code adds up the differences between the    *)
(* readings it takes whenever somebody services the clock.  Real time      *)
(* passes between any two steps.  All calls are from one context (the file *)
(* has no lock, and clockTick.h asks for service from the main loop).      *)
(*                                                                         *)
(* Delta_OffByOne and the like, with a suffix that the source does not     *)
(* have, are plausible slips that show that a property can fail.           *)
(***************************************************************************)
EXTENDS Integers

CONSTANTS
  Ticks,       \* values of uint32_t: the counter's, and the microseconds field's
  Second,      \* CLK_TICK_SECOND_US
  Minute,      \* CLK_TICK_MINUTE_S
  Hour,        \* CLK_TICK_HOUR_MIN
  MaxGap,      \* longest time the clock goes without being serviced
  MaxElapsed   \* bound: how long the model lets time run

ASSUME ClockAssumption ==
  /\ Second \in Nat \ {0} /\ Minute \in Nat \ {0} /\ Hour \in Nat \ {0}
  /\ Ticks \in Nat /\ Second <= Ticks
  /\ MaxGap \in Nat
  /\ MaxElapsed \in Nat

VARIABLES
  counter,              \* timeDriver_getAppTick_uS()
  f_is_initialised,
  f_prev_tick_count,
  f_current_timestamp,
  pc,                   \* "idle", or the next step of the call in progress
  out_timestamp,        \* what clockTick_getTimeStamp last stored
  call,                 \* the call in progress: "update", "get", "initialise"
  elapsed,              \* history: real time since the clock was set to zero
  serviced              \* history: elapsed when the counter was last read

clock == <<f_is_initialised, f_prev_tick_count, f_current_timestamp>>
vars  == <<counter, clock, pc, call, out_timestamp, elapsed, serviced>>

Zero == [hours |-> 0, minutes |-> 0, seconds |-> 0, microseconds |-> 0]

\* A timestamp in microseconds.
Micros(ts) ==
  ts.microseconds
    + Second * (ts.seconds + Minute * (ts.minutes + Hour * ts.hours))

-----------------------------------------------------------------------------
Delta_OffByOne(new) ==
  IF ~f_is_initialised THEN 0
  ELSE IF new >= f_prev_tick_count THEN new - f_prev_tick_count
  ELSE (Ticks - 1 - f_prev_tick_count) + new

\* clockTick_getDelta: ticks since the last reading, over one wrap at most;
\* none on the first reading.
Delta(new) ==
  IF ~f_is_initialised THEN 0
  ELSE IF new >= f_prev_tick_count THEN new - f_prev_tick_count
  ELSE (Ticks - 1 - f_prev_tick_count) + new + 1

NextSecond_NoReset(ts) ==
  IF ts.seconds < Minute - 1 THEN [ts EXCEPT !.seconds = @ + 1]
  ELSE [ts EXCEPT !.seconds = 0, !.minutes = @ + 1]

NextSecond_NoCarry(ts) ==
  IF ts.seconds < Minute - 1 THEN [ts EXCEPT !.seconds = @ + 1]
  ELSE [ts EXCEPT !.seconds = 0]

\* One pass of the carry loop: the second after ts.
NextSecond(ts) ==
  IF ts.seconds < Minute - 1 THEN [ts EXCEPT !.seconds = @ + 1]
  ELSE IF ts.minutes < Hour - 1
    THEN [ts EXCEPT !.seconds = 0, !.minutes = @ + 1]
  ELSE [ts EXCEPT !.seconds = 0, !.minutes = 0, !.hours = @ + 1]

-----------------------------------------------------------------------------
\* Statics in zeroed storage; the counter already runs, at any value.
Init ==
  /\ counter \in 0..Ticks - 1
  /\ f_is_initialised = FALSE
  /\ f_prev_tick_count = 0
  /\ f_current_timestamp = Zero
  /\ pc = "idle" /\ call = "update"
  /\ out_timestamp = Zero
  /\ elapsed = 0 /\ serviced = 0

\* Real time passes.  Before the first reading nothing is measured yet.
Elapse(d) ==
  /\ IF f_is_initialised
       THEN /\ elapsed + d <= MaxElapsed
            /\ elapsed + d - serviced <= MaxGap
            /\ elapsed' = elapsed + d
       ELSE UNCHANGED elapsed
  /\ counter' = (counter + d) % Ticks
  /\ UNCHANGED <<clock, pc, call, out_timestamp, serviced>>

\* clockTick_updateTime and clockTick_getTimeStamp begin alike.
Begin(what) ==
  /\ pc = "idle"
  /\ call' = what
  /\ pc' = "load"
  /\ UNCHANGED <<counter, clock, out_timestamp, elapsed, serviced>>

UpdateTime   == Begin("update")
GetTimeStamp == Begin("get")

\* clockTick_initialise clears the statics and takes the first reading.
Initialise ==
  /\ pc = "idle"
  /\ f_is_initialised' = FALSE
  /\ f_prev_tick_count' = 0
  /\ f_current_timestamp' = Zero
  /\ elapsed' = 0 /\ serviced' = 0
  /\ call' = "initialise" /\ pc' = "load"
  /\ UNCHANGED <<counter, out_timestamp>>

\* clockTick_getDelta, and the addition to a uint32_t.
Load ==
  /\ pc = "load"
  /\ f_current_timestamp' =
       [f_current_timestamp EXCEPT !.microseconds = (@ + Delta(counter)) % Ticks]
  /\ f_prev_tick_count' = counter
  /\ f_is_initialised' = TRUE
  /\ serviced' = elapsed
  /\ pc' = "carry"
  /\ UNCHANGED <<counter, call, out_timestamp, elapsed>>

\* while ( microseconds > CLK_TICK_SECOND_US - 1 )
Carry ==
  /\ pc = "carry"
  /\ f_current_timestamp.microseconds > Second - 1
  /\ f_current_timestamp' =
       [NextSecond(f_current_timestamp) EXCEPT !.microseconds = @ - Second]
  /\ UNCHANGED <<counter, f_is_initialised, f_prev_tick_count, pc, call,
                 out_timestamp, elapsed, serviced>>

Return ==
  /\ pc = "carry"
  /\ f_current_timestamp.microseconds <= Second - 1
  /\ out_timestamp' = IF call = "get" THEN f_current_timestamp ELSE out_timestamp
  /\ pc' = "idle"
  /\ UNCHANGED <<counter, clock, call, elapsed, serviced>>

Next ==
  \/ \E d \in 1..MaxGap : Elapse(d)
  \/ UpdateTime \/ GetTimeStamp \/ Initialise
  \/ Load \/ Carry \/ Return

Spec == Init /\ [][Next]_vars

-----------------------------------------------------------------------------
(* Properties.                                                             *)

Timestamp ==
  [hours : Nat, minutes : 0..Hour - 1, seconds : 0..Minute - 1,
   microseconds : 0..Ticks - 1]

\* Minutes and seconds never leave their ranges, and microseconds only while
\* they are being carried.
TypeOK ==
  /\ counter \in 0..Ticks - 1
  /\ f_is_initialised \in BOOLEAN
  /\ f_prev_tick_count \in 0..Ticks - 1
  /\ f_current_timestamp \in Timestamp
  /\ pc # "carry" => f_current_timestamp.microseconds < Second
  /\ out_timestamp \in Timestamp
  /\ pc \in {"idle", "load", "carry"}
  /\ call \in {"update", "get", "initialise"}
  /\ elapsed \in Nat /\ serviced \in Nat

\* The timestamp is the real time at which the counter was last read, however
\* often the counter has wrapped and in whatever pieces time was added: no
\* tick is lost or counted twice (lines 38-42, 146-160).
TimestampAccurate ==
  f_is_initialised => Micros(f_current_timestamp) = serviced

\* The clock never runs backwards, except when it is set to zero.
NeverBackwards ==
  [][f_current_timestamp' # f_current_timestamp =>
       \/ f_current_timestamp' = Zero
       \/ Micros(f_current_timestamp') >= Micros(f_current_timestamp)]_vars

=============================================================================
