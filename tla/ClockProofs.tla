---------------------------- MODULE ClockProofs -----------------------------
(***************************************************************************)
(* Proofs about ClockTick and ClockEvents, for every size of counter,      *)
(* second, minute and hour.  A clock serviced at least once every          *)
(* Ticks - Second microseconds is accurate; the run on MCClockTickGap.cfg  *)
(* shows that a longer gap is not enough.  On such a clock periods have    *)
(* elapsed exactly when they are reported to have.                         *)
(***************************************************************************)
EXTENDS ClockEvents, TLAPS

\* Where a counter that stood at c stands d ticks later, d < Ticks.
After(c, d) == IF c + d < Ticks THEN c + d ELSE c + d - Ticks

\* Before the first reading the clock stands at zero and no time is counted.
\* After it, the counter is past the last reading by the time not yet added.
IInv ==
  /\ TypeOK
  /\ ~f_is_initialised =>
       /\ f_current_timestamp = Zero
       /\ elapsed = 0 /\ serviced = 0
       /\ pc # "carry"
  /\ f_is_initialised =>
       /\ Micros(f_current_timestamp) = serviced
       /\ elapsed - serviced \in 0..MaxGap
       /\ counter = After(f_prev_tick_count, elapsed - serviced)

\* Remainders by repeated subtraction, as far as they are needed here.
LEMMA Remainder ==
  ASSUME NEW x \in Nat, x < 2 * Ticks
  PROVE  x % Ticks = IF x < Ticks THEN x ELSE x - Ticks
<1>1. Ticks \in Nat /\ Ticks > 0 /\ x \in Nat
  BY ClockAssumption DEF ClockAssumption
<1>2. CASE x < Ticks
  BY <1>1, <1>2
<1>3. CASE x >= Ticks
  <2> DEFINE q == x \div Ticks
             r == x % Ticks
  <2>1. q \in Int /\ r \in 0..Ticks - 1 /\ x = (Ticks * q) + r
    BY <1>1
  <2>2. q >= 1 /\ q < 2
    <3> HIDE DEF q, r
    <3>1. q <= 0 => Ticks * q <= 0
      BY <1>1, <2>1
    <3>2. q >= 2 => Ticks * q >= 2 * Ticks
      BY <1>1, <2>1
    <3> QED
      BY <1>1, <1>3, <2>1, <3>1, <3>2
  <2>3. q = 1
    BY <2>1, <2>2
  <2> QED
    BY <1>1, <1>3, <2>1, <2>3
<1> QED
  BY <1>1, <1>2, <1>3

\* A timestamp with any number of microseconds.
Wide ==
  [hours : Nat, minutes : 0..Hour - 1, seconds : 0..Minute - 1, microseconds : Nat]

\* One second on, in microseconds.
LEMMA NextSecondMicros ==
  ASSUME NEW ts \in Wide, ts.microseconds >= Second
  PROVE  LET next == [NextSecond(ts) EXCEPT !.microseconds = @ - Second]
         IN  /\ next \in Wide /\ Micros(next) = Micros(ts)
             /\ next.microseconds = ts.microseconds - Second
<1> DEFINE us == ts.microseconds
           s == ts.seconds
           m == ts.minutes
           h == ts.hours
           next == [NextSecond(ts) EXCEPT !.microseconds = @ - Second]
           Value(a, b, c, d) ==
             [hours |-> a, minutes |-> b, seconds |-> c, microseconds |-> d]
<1>1. /\ Ticks \in Nat /\ Second \in Nat /\ Minute \in Nat /\ Hour \in Nat
      /\ Second > 0 /\ Minute > 0 /\ Hour > 0
  BY ClockAssumption DEF ClockAssumption
<1>2. /\ h \in Nat /\ m \in 0..Hour - 1 /\ s \in 0..Minute - 1
      /\ us \in Nat /\ us >= Second /\ ts = Value(h, m, s, us)
  BY DEF Wide
<1>3. us - Second \in Nat
  BY <1>1, <1>2
<1>4. ASSUME NEW a, NEW b, NEW c, NEW d
      PROVE  Micros(Value(a, b, c, d)) = d + Second * (c + Minute * (b + Hour * a))
  BY DEF Micros
<1>5. Micros(ts) = us + Second * (s + Minute * (m + Hour * h))
  BY DEF Micros
<1>6. CASE s < Minute - 1
  <2>1. next = Value(h, m, s + 1, us - Second)
    <3>1. NextSecond(ts) = [ts EXCEPT !.seconds = @ + 1]
      BY <1>1, <1>2, <1>6 DEF NextSecond
    <3>2. NextSecond(ts) = Value(h, m, s + 1, us)
      BY <1>2, <3>1
    <3> QED
      BY <3>2
  <2>2. Micros(next) =
          (us - Second) + Second * ((s + 1) + Minute * (m + Hour * h))
    BY <2>1, <1>4
  <2> HIDE DEF next, us, s, m, h
  <2>3. Micros(next) = Micros(ts)
    BY <1>1, <1>2, <1>5, <2>2
  <2> QED
    BY <1>1, <1>2, <1>3, <1>6, <2>1, <2>3 DEF Wide, next
<1>7. CASE s >= Minute - 1 /\ m < Hour - 1
  <2>1. next = Value(h, m + 1, 0, us - Second)
    <3>1. NextSecond(ts) = [ts EXCEPT !.seconds = 0, !.minutes = @ + 1]
      BY <1>1, <1>2, <1>7 DEF NextSecond
    <3>2. NextSecond(ts) = Value(h, m + 1, 0, us)
      BY <1>2, <3>1
    <3> QED
      BY <3>2
  <2>2. Micros(next) =
          (us - Second) + Second * (0 + Minute * ((m + 1) + Hour * h))
    BY <2>1, <1>4
  <2>3. s = Minute - 1
    BY <1>1, <1>2, <1>7
  <2> HIDE DEF next, us, s, m, h
  <2>4. Micros(next) = Micros(ts)
    BY <1>1, <1>2, <1>5, <2>2, <2>3
  <2> QED
    BY <1>1, <1>2, <1>3, <1>7, <2>1, <2>4 DEF Wide, next
<1>8. CASE s >= Minute - 1 /\ m >= Hour - 1
  <2>1. next = Value(h + 1, 0, 0, us - Second)
    <3>1. NextSecond(ts) = [ts EXCEPT !.seconds = 0, !.minutes = 0, !.hours = @ + 1]
      BY <1>1, <1>2, <1>8 DEF NextSecond
    <3>2. NextSecond(ts) = Value(h + 1, 0, 0, us)
      BY <1>2, <3>1
    <3> QED
      BY <3>2
  <2>2. Micros(next) =
          (us - Second) + Second * (0 + Minute * (0 + Hour * (h + 1)))
    BY <2>1, <1>4
  <2>3. s = Minute - 1 /\ m = Hour - 1
    BY <1>1, <1>2, <1>8
  <2> HIDE DEF next, us, s, m, h
  <2>4. Micros(next) = Micros(ts)
    BY <1>1, <1>2, <1>5, <2>2, <2>3
  <2> QED
    BY <1>1, <1>2, <1>3, <1>8, <2>1, <2>4 DEF Wide, next
<1> QED
  BY <1>1, <1>2, <1>6, <1>7, <1>8

LEMMA CarriedTimestamp ==
  ASSUME NEW ts \in Timestamp, ts.microseconds >= Second
  PROVE  LET next == [NextSecond(ts) EXCEPT !.microseconds = @ - Second]
         IN  next \in Timestamp /\ Micros(next) = Micros(ts)
<1> DEFINE next == [NextSecond(ts) EXCEPT !.microseconds = @ - Second]
<1>1. Ticks \in Nat /\ Second \in Nat /\ Second > 0
  BY ClockAssumption DEF ClockAssumption
<1>2. ts \in Wide /\ ts.microseconds \in 0..Ticks - 1
  BY <1>1 DEF Timestamp, Wide
<1>3. /\ next \in Wide /\ Micros(next) = Micros(ts)
      /\ next.microseconds = ts.microseconds - Second
  BY <1>2, NextSecondMicros
<1> HIDE DEF next
<1>4. next.microseconds \in 0..Ticks - 1
  BY <1>1, <1>2, <1>3
<1>5. next \in Timestamp
  BY <1>3, <1>4 DEF Timestamp, Wide
<1> QED
  BY <1>3, <1>5 DEF next

\* The zero timestamp is one, and has less than a second of microseconds.
LEMMA ZeroTimestamp ==
  /\ Zero \in Timestamp
  /\ Zero.microseconds < Second
<1>1. /\ Ticks - 1 \in Nat /\ Minute - 1 \in Nat /\ Hour - 1 \in Nat
      /\ Second > 0 /\ Second \in Nat
  BY ClockAssumption DEF ClockAssumption
<1>2. 0 \in 0..Hour - 1 /\ 0 \in 0..Minute - 1 /\ 0 \in 0..Ticks - 1
  BY <1>1
<1> QED
  BY <1>1, <1>2 DEF Zero, Timestamp

-----------------------------------------------------------------------------
\* The invariant holds in the zeroed statics.
LEMMA InitIInv == Init => IInv
<1> SUFFICES ASSUME Init PROVE IInv
  OBVIOUS
<1>1. Ticks \in Nat /\ Ticks > 0
  BY ClockAssumption DEF ClockAssumption
<1>2. 0 \in 0..Ticks - 1
  BY <1>1
<1>3. TypeOK
  BY <1>2, ZeroTimestamp DEF Init, TypeOK
<1> QED
  BY <1>3 DEF Init, IInv

\* Time passes: the counter moves on by as much as the time does.
LEMMA ElapseStep ==
  ASSUME IInv, MaxGap + Second <= Ticks, NEW d \in 1..MaxGap, Elapse(d)
  PROVE  IInv'
<1> USE DEF IInv, Elapse, clock
<1>1. /\ counter \in 0..Ticks - 1 /\ f_prev_tick_count \in 0..Ticks - 1
      /\ d \in Nat /\ d < Ticks /\ Ticks \in Nat /\ MaxGap \in Nat
      /\ MaxGap < Ticks
  <2>1. Second \in Nat /\ Second > 0
    BY ClockAssumption DEF ClockAssumption
  <2> QED
    BY <2>1, ClockAssumption DEF ClockAssumption, TypeOK
<1>2. counter' = After(counter, d)
  BY <1>1, Remainder DEF After
<1>3. TypeOK'
  BY <1>1, <1>2 DEF TypeOK, After
<1>4. ASSUME f_is_initialised
      PROVE  /\ elapsed' - serviced \in 0..MaxGap
             /\ counter' = After(f_prev_tick_count, elapsed' - serviced)
  BY <1>1, <1>2, <1>4 DEF TypeOK, After
<1> QED
  BY <1>3, <1>4

\* A call begins, or the clock is set to zero.
LEMMA BeginStep ==
  ASSUME IInv, UpdateTime \/ GetTimeStamp \/ Initialise
  PROVE  IInv'
<1>1. Ticks \in Nat /\ Ticks > 0
  BY ClockAssumption DEF ClockAssumption
<1>2. CASE UpdateTime \/ GetTimeStamp
  BY <1>2 DEF IInv, TypeOK, UpdateTime, GetTimeStamp, Begin, clock, Micros, After
<1>3. CASE Initialise
  <2>1. 0 \in 0..Ticks - 1 /\ 0 \in Nat
    BY <1>1
  <2>2. TypeOK'
    BY <1>3, <2>1, ZeroTimestamp DEF IInv, TypeOK, Initialise
  <2> QED
    BY <1>3, <2>2 DEF IInv, Initialise
<1> QED
  BY <1>2, <1>3

\* The difference of two readings is the time between them, and fits in the
\* microseconds field beside less than a second.
LEMMA LoadStep ==
  ASSUME IInv, MaxGap + Second <= Ticks, Load
  PROVE  IInv'
<1> USE DEF IInv, Load
<1> DEFINE ts == f_current_timestamp
           us == ts.microseconds + Delta(counter)
<1>1. /\ counter \in 0..Ticks - 1 /\ f_prev_tick_count \in 0..Ticks - 1
      /\ Ticks \in Nat /\ MaxGap \in Nat /\ Second \in Nat /\ Second > 0
      /\ Minute \in Nat /\ Hour \in Nat
      /\ ts \in Timestamp /\ ts.microseconds \in 0..Second - 1
      /\ elapsed \in Nat /\ serviced \in Nat
  BY ClockAssumption DEF ClockAssumption, TypeOK, Timestamp
<1>2. /\ Delta(counter) \in 0..MaxGap
      /\ f_is_initialised => Delta(counter) = elapsed - serviced
      /\ ~f_is_initialised => Delta(counter) = 0
  BY <1>1 DEF Delta, After, TypeOK
<1>3. us \in 0..Ticks - 1 /\ us % Ticks = us
  BY <1>1, <1>2, Remainder
<1>4. /\ ts' = [ts EXCEPT !.microseconds = us]
      /\ ts' \in Timestamp
  BY <1>1, <1>3 DEF Timestamp
<1>5. Micros(ts') = Micros(ts) + Delta(counter)
  <2> DEFINE rest == Second * (ts.seconds + Minute * (ts.minutes + Hour * ts.hours))
  <2>1. rest \in Int
    BY <1>1 DEF Timestamp
  <2>2. Micros(ts) = ts.microseconds + rest /\ Micros(ts') = us + rest
    BY <1>1, <1>4 DEF Micros, Timestamp
  <2> HIDE DEF rest
  <2> QED
    BY <1>1, <1>2, <2>1, <2>2
<1>6. Micros(ts') = elapsed
  <2>1. CASE f_is_initialised
    BY <1>1, <1>2, <1>5, <2>1
  <2>2. CASE ~f_is_initialised
    <3>1. Micros(ts) = 0
      BY <1>1, <2>2 DEF Micros, Zero
    <3> QED
      BY <1>2, <1>5, <2>2, <3>1
  <2> QED
    BY <2>1, <2>2 DEF TypeOK
<1>7. TypeOK'
  BY <1>1, <1>4 DEF TypeOK
<1>8. /\ elapsed' - serviced' = 0
      /\ counter' = After(f_prev_tick_count', 0)
  BY <1>1 DEF After
<1> QED
  BY <1>1, <1>6, <1>7, <1>8

\* One pass of the carry loop changes the fields, not the time.
LEMMA CarryStep ==
  ASSUME IInv, Carry
  PROVE  IInv'
<1> USE DEF IInv, Carry
<1>1. /\ f_current_timestamp \in Timestamp
      /\ f_current_timestamp.microseconds >= Second
  BY ClockAssumption DEF ClockAssumption, TypeOK, Timestamp
<1>2. /\ f_current_timestamp' \in Timestamp
      /\ Micros(f_current_timestamp') = Micros(f_current_timestamp)
  BY <1>1, CarriedTimestamp
<1>3. TypeOK'
  BY <1>2 DEF TypeOK
<1> QED
  BY <1>2, <1>3

\* A call returns the timestamp as it stands.
LEMMA ReturnStep ==
  ASSUME IInv, Return
  PROVE  IInv'
  BY ClockAssumption
     DEF ClockAssumption, IInv, Return, TypeOK, Timestamp, clock

\* Every step preserves the invariant, if the clock is serviced in time.
LEMMA NextIInv ==
  ASSUME MaxGap + Second <= Ticks
  PROVE  IInv /\ [Next]_vars => IInv'
<1> SUFFICES ASSUME IInv, [Next]_vars PROVE IInv'
  OBVIOUS
<1>1. CASE \E d \in 1..MaxGap : Elapse(d)
  BY <1>1, ElapseStep
<1>2. CASE UpdateTime \/ GetTimeStamp \/ Initialise
  BY <1>2, BeginStep
<1>3. CASE Load
  BY <1>3, LoadStep
<1>4. CASE Carry
  BY <1>4, CarryStep
<1>5. CASE Return
  BY <1>5, ReturnStep
<1>6. CASE UNCHANGED vars
  BY <1>6 DEF vars, clock, IInv, TypeOK
<1> QED
  BY <1>1, <1>2, <1>3, <1>4, <1>5, <1>6 DEF Next

-----------------------------------------------------------------------------
\* The fields keep their types and ranges for every MaxGap, gaps of a full
\* turn of the counter and more included: what a wrap may cost is time, not
\* the shape of the timestamp (clockTick.c:30-46, 146-160).
THEOREM TypeCorrect == Spec => []TypeOK
<1>1. Init => TypeOK
  BY InitIInv DEF IInv
<1>2. TypeOK /\ [Next]_vars => TypeOK'
  <2> SUFFICES ASSUME TypeOK, [Next]_vars PROVE TypeOK'
    OBVIOUS
  <2>1. /\ Ticks \in Nat /\ Ticks > 0 /\ Second \in Nat /\ Second > 0
        /\ Minute \in Nat /\ Hour \in Nat /\ MaxGap \in Nat
    BY ClockAssumption DEF ClockAssumption
  <2>2. \A x \in Int : x % Ticks \in 0..Ticks - 1
    BY <2>1
  <2>3. ASSUME NEW d \in 1..MaxGap, Elapse(d)
        PROVE  TypeOK'
    <3>1. counter + d \in Int /\ elapsed + d \in Nat
      BY <2>1 DEF TypeOK
    <3>2. counter' \in 0..Ticks - 1 /\ elapsed' \in Nat
      BY <2>2, <2>3, <3>1 DEF Elapse, TypeOK
    <3> QED
      BY <2>3, <3>2 DEF TypeOK, Elapse, clock
  <2>4. CASE UpdateTime \/ GetTimeStamp
    BY <2>4 DEF TypeOK, UpdateTime, GetTimeStamp, Begin, clock
  <2>5. CASE Initialise
    <3>1. 0 \in 0..Ticks - 1
      BY <2>1
    <3> QED
      BY <2>5, <3>1, ZeroTimestamp DEF TypeOK, Initialise
  <2>6. CASE Load
    <3>1. Delta(counter) \in Int
      BY <2>1 DEF TypeOK, Delta
    <3>2. f_current_timestamp \in Timestamp /\ f_current_timestamp.microseconds \in Int
      BY DEF TypeOK, Timestamp
    <3>3. (f_current_timestamp.microseconds + Delta(counter)) % Ticks \in 0..Ticks - 1
      BY <2>2, <3>1, <3>2
    <3>4. f_current_timestamp' \in Timestamp
      BY <2>6, <3>2, <3>3 DEF Load, Timestamp
    <3> QED
      BY <2>6, <3>4 DEF TypeOK, Load
  <2>7. CASE Carry
    <3>1. /\ f_current_timestamp \in Timestamp
          /\ f_current_timestamp.microseconds >= Second
      BY <2>1, <2>7 DEF Carry, TypeOK, Timestamp
    <3>2. f_current_timestamp' \in Timestamp
      BY <2>7, <3>1, CarriedTimestamp DEF Carry
    <3> QED
      BY <2>7, <3>2 DEF TypeOK, Carry
  <2>8. CASE Return
    BY <2>1, <2>8 DEF TypeOK, Return, Timestamp, clock
  <2>9. CASE UNCHANGED vars
    BY <2>9 DEF TypeOK, vars, clock
  <2> QED
    BY <2>3, <2>4, <2>5, <2>6, <2>7, <2>8, <2>9 DEF Next
<1> QED
  BY <1>1, <1>2, PTL DEF Spec

\* A clock that is serviced in time shows the real time of its last reading:
\* no tick is lost or counted twice over any number of counter wraps.
THEOREM ClockAccurate ==
  ASSUME MaxGap + Second <= Ticks
  PROVE  Spec => []TimestampAccurate
<1>1. IInv => TimestampAccurate
  BY DEF IInv, TimestampAccurate
<1> QED
  BY <1>1, InitIInv, NextIInv, PTL DEF Spec

\* Such a clock never runs backwards, except when it is set to zero.
THEOREM ClockMonotonic ==
  ASSUME MaxGap + Second <= Ticks
  PROVE  Spec => NeverBackwards
<1>1. IInv /\ [Next]_vars =>
        [f_current_timestamp' # f_current_timestamp =>
           \/ f_current_timestamp' = Zero
           \/ Micros(f_current_timestamp') >= Micros(f_current_timestamp)]_vars
  <2> SUFFICES ASSUME IInv, [Next]_vars,
                      f_current_timestamp' # f_current_timestamp
               PROVE  \/ f_current_timestamp' = Zero
                      \/ Micros(f_current_timestamp') >= Micros(f_current_timestamp)
    OBVIOUS
  <2>1. Initialise \/ Load \/ Carry
    BY DEF Next, Elapse, UpdateTime, GetTimeStamp, Begin, Return, clock, vars
  <2>2. CASE Initialise
    BY <2>2 DEF Initialise
  <2>3. CASE Load
    <3>1. /\ Micros(f_current_timestamp') = elapsed
          /\ elapsed \in Nat
      BY <2>3, LoadStep DEF IInv, TypeOK, Load
    <3>2. CASE f_is_initialised
      <4>1. /\ Micros(f_current_timestamp) = serviced
            /\ serviced \in Nat /\ elapsed - serviced >= 0
        BY <3>2, ClockAssumption DEF IInv, TypeOK, ClockAssumption
      <4> QED
        BY <3>1, <4>1
    <3>3. CASE ~f_is_initialised
      <4>1. Micros(f_current_timestamp) = 0
        BY <3>3, ClockAssumption DEF IInv, Micros, Zero, ClockAssumption
      <4> QED
        BY <3>1, <4>1
    <3> QED
      BY <3>2, <3>3
  <2>4. CASE Carry
    <3>1. /\ f_is_initialised' = f_is_initialised /\ serviced' = serviced
          /\ f_is_initialised
      BY <2>4 DEF Carry, IInv
    <3>2. Micros(f_current_timestamp') = Micros(f_current_timestamp)
      BY <2>4, <3>1, CarryStep DEF IInv
    <3>3. Micros(f_current_timestamp) \in Nat
      BY <3>1 DEF IInv, TypeOK
    <3> QED
      BY <3>2, <3>3
  <2> QED
    BY <2>1, <2>2, <2>3, <2>4
<1> QED
  BY <1>1, InitIInv, NextIInv, PTL DEF Spec, NeverBackwards

-----------------------------------------------------------------------------
(* Questions about elapsed time.                                           *)

\* A timestamp as a call returns it: less than a second of microseconds.
Proper == {ts \in Wide : ts.microseconds < Second}

\* The higher digit decides, whatever the lower ones are.
LEMMA HigherDigit ==
  ASSUME NEW base \in Nat, NEW low1 \in 0..base - 1, NEW low2 \in 0..base - 1,
         NEW high1 \in Int, NEW high2 \in Int, high1 > high2
  PROVE  low1 + base * high1 > low2 + base * high2
<1> DEFINE d == high1 - high2
<1>1. d \in Int /\ d >= 1 /\ high1 = high2 + d
  OBVIOUS
<1>2. base * d >= base
  BY <1>1
<1>3. base * high1 = base * high2 + base * d
  BY <1>1
<1>4. base * high2 \in Int /\ base * d \in Int
  BY <1>1
<1> HIDE DEF d
<1> QED
  BY <1>2, <1>3, <1>4

\* What the loop over the three fields finds.
LEMMA FieldByField ==
  ASSUME NEW a \in Wide, NEW b \in Wide
  PROVE  CompareTime(a, b) <=>
           IF a.hours # b.hours THEN a.hours > b.hours
           ELSE IF a.minutes # b.minutes THEN a.minutes > b.minutes
           ELSE IF a.seconds # b.seconds THEN a.seconds > b.seconds
           ELSE a.microseconds >= b.microseconds
<1> DEFINE differ == {ix \in 1..3 : Fields(a)[ix] # Fields(b)[ix]}
           decides(ix) == /\ \A jx \in differ : ix <= jx
                          /\ Fields(a)[ix] > Fields(b)[ix]
<1>1. /\ Fields(a)[1] = a.hours /\ Fields(a)[2] = a.minutes /\ Fields(a)[3] = a.seconds
      /\ Fields(b)[1] = b.hours /\ Fields(b)[2] = b.minutes /\ Fields(b)[3] = b.seconds
  BY DEF Fields
<1>2. \A ix : ix \in 1..3 <=> ix = 1 \/ ix = 2 \/ ix = 3
  OBVIOUS
<1>3. /\ 1 \in differ <=> a.hours # b.hours
      /\ 2 \in differ <=> a.minutes # b.minutes
      /\ 3 \in differ <=> a.seconds # b.seconds
      /\ differ \subseteq 1..3
  <2> HIDE DEF differ
  <2>1. \A ix : ix \in differ <=> ix \in 1..3 /\ Fields(a)[ix] # Fields(b)[ix]
    BY DEF differ
  <2> QED
    BY <1>1, <1>2, <2>1
<1>4. CompareTime(a, b) <=> IF differ = {} THEN a.microseconds >= b.microseconds
                            ELSE \E ix \in differ : decides(ix)
  BY DEF CompareTime
<1> HIDE DEF differ
<1>5. CASE 1 \in differ
  <2>1. \A ix \in differ : decides(ix) <=> ix = 1 /\ a.hours > b.hours
    BY <1>1, <1>2, <1>3, <1>5
  <2> QED
    BY <1>3, <1>4, <1>5, <2>1
<1>6. CASE 1 \notin differ /\ 2 \in differ
  <2>1. \A ix \in differ : decides(ix) <=> ix = 2 /\ a.minutes > b.minutes
    BY <1>1, <1>2, <1>3, <1>6
  <2> QED
    BY <1>3, <1>4, <1>6, <2>1
<1>7. CASE 1 \notin differ /\ 2 \notin differ /\ 3 \in differ
  <2>1. \A ix \in differ : decides(ix) <=> ix = 3 /\ a.seconds > b.seconds
    BY <1>1, <1>2, <1>3, <1>7
  <2> QED
    BY <1>3, <1>4, <1>7, <2>1
<1>8. CASE 1 \notin differ /\ 2 \notin differ /\ 3 \notin differ
  <2>1. differ = {}
    BY <1>2, <1>3, <1>8
  <2> QED
    BY <1>3, <1>4, <1>8, <2>1
<1> QED
  BY <1>5, <1>6, <1>7, <1>8

\* Field by field is the order of the instants.
LEMMA InOrder ==
  ASSUME NEW a \in Proper, NEW b \in Proper
  PROVE  CompareTime(a, b) <=> Micros(a) >= Micros(b)
<1> DEFINE mins(ts) == ts.minutes + Hour * ts.hours
           secs(ts) == ts.seconds + Minute * mins(ts)
<1>1. /\ Second \in Nat /\ Minute \in Nat /\ Hour \in Nat
  BY ClockAssumption DEF ClockAssumption
<1>2. \A ts \in Proper :
        /\ ts \in Wide /\ ts.hours \in Int /\ ts.minutes \in 0..Hour - 1
        /\ ts.seconds \in 0..Minute - 1 /\ ts.microseconds \in 0..Second - 1
  BY <1>1 DEF Proper, Wide
<1>3. \A ts \in Proper : mins(ts) \in Int /\ secs(ts) \in Int /\ Micros(ts) \in Int
  BY <1>1, <1>2 DEF Micros
<1>4. \A ts \in Proper : Micros(ts) = ts.microseconds + Second * secs(ts)
  BY DEF Micros
<1>5. ASSUME NEW x \in Proper, NEW y \in Proper
      PROVE  /\ x.hours > y.hours => mins(x) > mins(y)
             /\ mins(x) > mins(y) => secs(x) > secs(y)
             /\ secs(x) > secs(y) => Micros(x) > Micros(y)
  <2>1. x.hours > y.hours => mins(x) > mins(y)
    BY <1>1, <1>2, HigherDigit
  <2>2. mins(x) > mins(y) => secs(x) > secs(y)
    <3> SUFFICES ASSUME mins(x) > mins(y) PROVE secs(x) > secs(y)
      OBVIOUS
    <3> HIDE DEF mins
    <3> QED
      BY <1>1, <1>2, <1>3, HigherDigit
  <2>3. secs(x) > secs(y) => Micros(x) > Micros(y)
    <3> SUFFICES ASSUME secs(x) > secs(y) PROVE Micros(x) > Micros(y)
      OBVIOUS
    <3> HIDE DEF secs
    <3> QED
      BY <1>1, <1>2, <1>3, <1>4, HigherDigit
  <2> QED
    BY <2>1, <2>2, <2>3
<1>6. a.hours = b.hours /\ a.minutes > b.minutes => mins(a) > mins(b)
  BY <1>1, <1>2
<1>7. a.hours = b.hours /\ a.minutes < b.minutes => mins(b) > mins(a)
  BY <1>1, <1>2
<1>8. a.hours = b.hours /\ a.minutes = b.minutes => mins(a) = mins(b)
  OBVIOUS
<1> HIDE DEF mins
<1>9. mins(a) = mins(b) /\ a.seconds > b.seconds => secs(a) > secs(b)
  BY <1>1, <1>2, <1>3
<1>10. mins(a) = mins(b) /\ a.seconds < b.seconds => secs(b) > secs(a)
  BY <1>1, <1>2, <1>3
<1>11. mins(a) = mins(b) /\ a.seconds = b.seconds => secs(a) = secs(b)
  OBVIOUS
<1> HIDE DEF secs
<1>12. secs(a) = secs(b) =>
         (Micros(a) >= Micros(b) <=> a.microseconds >= b.microseconds)
  <2>1. Second * secs(a) \in Int
    BY <1>1, <1>3
  <2> QED
    BY <1>2, <1>4, <2>1
<1>13. /\ a.hours > b.hours => Micros(a) > Micros(b)
       /\ a.hours < b.hours => Micros(b) > Micros(a)
  BY <1>2, <1>5
<1>14. /\ secs(a) > secs(b) => Micros(a) > Micros(b)
       /\ secs(b) > secs(a) => Micros(b) > Micros(a)
       /\ mins(a) > mins(b) => Micros(a) > Micros(b)
       /\ mins(b) > mins(a) => Micros(b) > Micros(a)
  BY <1>5
<1> QED
  BY <1>2, <1>3, <1>6, <1>7, <1>8, <1>9, <1>10, <1>11, <1>12, <1>13, <1>14,
     FieldByField

-----------------------------------------------------------------------------
\* The last call was clockTick_getTimeStamp, and has returned.
Read == pc = "idle" /\ call = "get"

\* What the caller holds are instants of the real time.
HeldInv ==
  /\ Read => /\ f_is_initialised /\ out_timestamp \in Proper
             /\ Micros(out_timestamp) = serviced
  /\ start \in Proper /\ Micros(start) = started /\ started \in 0..serviced

\* The result on its way: adding a second to the fields takes it from the
\* microseconds, and a long difference is in two places.
AddingInv ==
  /\ event \in {"none", "us", "ms", "watch"} /\ period \in Nat
  /\ event # "none" => call = "get"
  /\ adding \in BOOLEAN
  /\ ~adding \/ event # "watch" => u64Delta = 0
  /\ adding =>
       /\ event # "none" /\ pc = "idle"
       /\ result \in Wide /\ u64Delta \in Nat
       /\ event # "watch" => Micros(result) = started + PeriodMicros
       /\ event = "watch" /\ serviced - started <= 2 * Uint32Max =>
            /\ Micros(result) + u64Delta = serviced - started
            /\ u64Delta <= Uint32Max

AnswerInv == ElapsedIsExact /\ StopWatchWithinRange

EventsInv == IInv /\ HeldInv /\ AddingInv /\ AnswerInv

-----------------------------------------------------------------------------
\* Adding microseconds to a timestamp adds them to the instant.
LEMMA AddedMicros ==
  ASSUME NEW ts \in Wide, NEW us \in Nat
  PROVE  LET sum == [ts EXCEPT !.microseconds = @ + us]
         IN  sum \in Wide /\ Micros(sum) = Micros(ts) + us
<1> DEFINE sum == [ts EXCEPT !.microseconds = @ + us]
           rest == Second * (ts.seconds + Minute * (ts.minutes + Hour * ts.hours))
<1>1. Second \in Nat /\ Minute \in Nat /\ Hour \in Nat
  BY ClockAssumption DEF ClockAssumption
<1>2. rest \in Int /\ ts.microseconds \in Nat
  BY <1>1 DEF Wide
<1>3. sum.microseconds = ts.microseconds + us /\ sum \in Wide
  BY <1>2 DEF Wide
<1>4. Micros(ts) = ts.microseconds + rest /\ Micros(sum) = sum.microseconds + rest
  BY DEF Micros, Wide
<1> HIDE DEF sum, rest
<1>5. Micros(sum) = Micros(ts) + us
  BY <1>2, <1>3, <1>4
<1> QED
  BY <1>3, <1>5 DEF sum

LEMMA ProperZero == Zero \in Proper /\ Micros(Zero) = 0
<1>1. Second \in Nat /\ Minute \in Nat /\ Hour \in Nat /\ Ticks \in Nat
  BY ClockAssumption DEF ClockAssumption
<1>2. Zero \in Wide
  BY <1>1, ZeroTimestamp DEF Timestamp, Wide
<1>3. Micros(Zero) = 0
  BY <1>1 DEF Micros, Zero
<1> QED
  BY <1>2, <1>3, ZeroTimestamp DEF Proper

\* A question is nothing to the clock but the readings it takes.
LEMMA EventsNextIsNext ==
  ASSUME [EventsNext]_allVars
  PROVE  [Next]_vars
<1>1. ASSUME NEW kind, NEW p, Ask(kind, p)
      PROVE  GetTimeStamp
  BY <1>1 DEF Ask
<1>2. ASSUME NEW value, Reply(value)
      PROVE  UNCHANGED vars
  BY <1>2 DEF Reply
<1>3. CASE ClockNext
  BY <1>3 DEF ClockNext, Next
<1>4. CASE Restart
  BY <1>4 DEF Restart, Next
<1>5. CASE Mark \/ AddPeriod \/ AddDifference \/ AddSecond \/ AddRest
  BY <1>5 DEF Mark, AddPeriod, AddDifference, AddSecond, AddRest
<1>6. CASE (\E p \in Periods : HasUsTimeElapsed(p) \/ HasMsTimeElapsed(p)) \/ AskStopWatch
  BY <1>1, <1>6 DEF HasUsTimeElapsed, HasMsTimeElapsed, AskStopWatch, Next
<1>7. CASE NoPeriod \/ AnswerPeriod \/ AnswerStopWatch
  BY <1>2, <1>7 DEF NoPeriod, AnswerPeriod, AnswerStopWatch
<1>8. CASE UNCHANGED allVars
  BY <1>8 DEF allVars
<1> QED
  BY <1>3, <1>4, <1>5, <1>6, <1>7, <1>8 DEF EventsNext

LEMMA InitEventsInv == EventsInit => EventsInv
<1> SUFFICES ASSUME EventsInit PROVE EventsInv
  OBVIOUS
<1>1. IInv
  BY InitIInv DEF EventsInit
<1>2. HeldInv
  BY ProperZero DEF EventsInit, Init, HeldInv, Read
<1>3. AddingInv
  BY DEF EventsInit, AddingInv
<1>4. AnswerInv
  BY DEF EventsInit, AnswerInv, ElapsedIsExact, StopWatchWithinRange, NoAnswer
<1> QED
  BY <1>1, <1>2, <1>3, <1>4 DEF EventsInv

\* What the caller holds stays true while the clock goes on.
LEMMA HeldKept ==
  ASSUME EventsInv, [Next]_vars, ~Initialise, IInv', UNCHANGED <<start, started>>
  PROVE  HeldInv'
<1> USE DEF EventsInv, HeldInv, Read
<1>1. CASE \E d \in 1..MaxGap : Elapse(d)
  BY <1>1 DEF Elapse, clock
<1>2. CASE UpdateTime \/ GetTimeStamp
  BY <1>2 DEF UpdateTime, GetTimeStamp, Begin
<1>3. CASE Load
  <2>1. /\ elapsed \in Nat /\ serviced \in Nat /\ elapsed >= serviced
        /\ serviced' = elapsed /\ pc' = "carry"
    BY <1>3, ClockAssumption DEF IInv, TypeOK, Load, ClockAssumption
  <2> QED
    BY <2>1
<1>4. CASE Carry
  BY <1>4 DEF Carry
<1>5. CASE Return
  <2>1. CASE call = "get"
    <3>1. /\ out_timestamp' = f_current_timestamp /\ serviced' = serviced
          /\ f_is_initialised' = f_is_initialised
          /\ f_current_timestamp.microseconds <= Second - 1 /\ pc = "carry"
      BY <1>5, <2>1 DEF Return, clock
    <3>2. f_is_initialised /\ Micros(f_current_timestamp) = serviced
      BY <3>1 DEF IInv
    <3>3. f_current_timestamp \in Proper
      BY <3>1, ClockAssumption
         DEF IInv, TypeOK, Timestamp, Proper, Wide, ClockAssumption
    <3> QED
      BY <3>1, <3>2, <3>3
  <2>2. CASE call # "get"
    BY <1>5, <2>2 DEF Return
  <2> QED
    BY <2>1, <2>2
<1>6. CASE UNCHANGED vars
  BY <1>6 DEF vars, clock
<1> QED
  BY <1>1, <1>2, <1>3, <1>4, <1>5, <1>6 DEF Next

\* A step that gives no answer makes no false one.
LEMMA NothingAnswered ==
  ASSUME answer' = NoAnswer
  PROVE  AnswerInv'
  BY DEF AnswerInv, ElapsedIsExact, StopWatchWithinRange, NoAnswer

LEMMA ClockNextStep ==
  ASSUME EventsInv, ClockNext, IInv'
  PROVE  EventsInv'
<1>1. [Next]_vars /\ ~Initialise
  BY DEF ClockNext, Next, Initialise, Elapse, Load, Carry, Return, UpdateTime,
         GetTimeStamp, Begin, EventsInv, IInv, TypeOK
<1>2. HeldInv'
  BY <1>1, HeldKept DEF ClockNext
<1>3. /\ UNCHANGED <<event, period, started, adding, result, u64Delta>>
      /\ event # "none" => call' = call
      /\ adding => pc' = pc /\ serviced' = serviced
  BY DEF ClockNext, EventsInv, AddingInv, Elapse, Load, Carry, Return, clock
<1>4. PeriodMicros' = PeriodMicros
  BY <1>3 DEF PeriodMicros
<1>5. AddingInv'
  BY <1>3, <1>4 DEF EventsInv, AddingInv
<1>6. AnswerInv'
  BY NothingAnswered DEF ClockNext
<1> QED
  BY <1>2, <1>5, <1>6 DEF EventsInv

LEMMA RestartStep ==
  ASSUME EventsInv, Restart, IInv'
  PROVE  EventsInv'
<1>1. HeldInv'
  BY ProperZero DEF Restart, Initialise, HeldInv, Read
<1>2. AddingInv'
  BY DEF Restart, EventsInv, AddingInv
<1>3. AnswerInv'
  BY NothingAnswered DEF Restart
<1> QED
  BY <1>1, <1>2, <1>3 DEF EventsInv

LEMMA MarkStep ==
  ASSUME EventsInv, Mark, IInv'
  PROVE  EventsInv'
<1>1. HeldInv'
  BY DEF Mark, EventsInv, HeldInv, Read, vars, clock, IInv, TypeOK
<1>2. AddingInv'
  BY DEF Mark, EventsInv, AddingInv, vars
<1>3. AnswerInv'
  BY NothingAnswered DEF Mark
<1> QED
  BY <1>1, <1>2, <1>3 DEF EventsInv

LEMMA AskStep ==
  ASSUME EventsInv, NEW kind \in {"us", "ms", "watch"}, NEW p \in Nat, Ask(kind, p),
         IInv'
  PROVE  EventsInv'
<1>1. HeldInv'
  BY DEF Ask, GetTimeStamp, Begin, EventsInv, HeldInv, Read
<1>2. AddingInv'
  BY DEF Ask, GetTimeStamp, Begin, EventsInv, AddingInv
<1>3. AnswerInv'
  BY NothingAnswered DEF Ask
<1> QED
  BY <1>1, <1>2, <1>3 DEF EventsInv

\* What holds when a question has its reading.
LEMMA TheReading ==
  ASSUME EventsInv, event # "none", pc = "idle"
  PROVE  /\ out_timestamp \in Proper /\ Micros(out_timestamp) = serviced
         /\ start \in Proper /\ Micros(start) = started
         /\ serviced \in Nat /\ started \in Nat /\ started <= serviced
         /\ PeriodMicros \in Nat /\ Ticks \in Nat /\ Ticks > 0
<1>1. period \in Nat /\ Milli \in Nat /\ Ticks \in Nat /\ Ticks > 0
  BY EventsAssumption, ClockAssumption
     DEF EventsInv, AddingInv, EventsAssumption, ClockAssumption
<1>2. PeriodMicros \in Nat
  BY <1>1 DEF PeriodMicros
<1> QED
  BY <1>1, <1>2 DEF EventsInv, HeldInv, Read, AddingInv, IInv, TypeOK

\* A step of the addition changes only the sum, so that the rest of the
\* invariant comes down to the sum.
LEMMA SumStep ==
  ASSUME EventsInv, IInv', event # "none", pc = "idle",
         UNCHANGED <<vars, event, period, start, started, answer>>, adding' = TRUE,
         result' \in Wide, u64Delta' \in Nat,
         event # "watch" =>
           u64Delta' = 0 /\ Micros(result') = started + PeriodMicros,
         event = "watch" /\ serviced - started <= 2 * Uint32Max =>
           /\ Micros(result') + u64Delta' = serviced - started
           /\ u64Delta' <= Uint32Max
  PROVE  EventsInv'
<1>1. UNCHANGED <<pc, call, serviced, f_is_initialised, out_timestamp>>
  BY DEF vars, clock
<1>2. HeldInv'
  BY <1>1 DEF EventsInv, HeldInv, Read
<1>3. PeriodMicros' = PeriodMicros
  BY DEF PeriodMicros
<1>4. AddingInv'
  BY <1>1, <1>3 DEF EventsInv, AddingInv, Uint32Max
<1>5. AnswerInv'
  BY DEF EventsInv, AnswerInv, ElapsedIsExact, StopWatchWithinRange, Uint32Max
<1> QED
  BY <1>2, <1>4, <1>5 DEF EventsInv

LEMMA AddPeriodStep ==
  ASSUME EventsInv, AddPeriod, IInv'
  PROVE  EventsInv'
<1>1. /\ event \in {"us", "ms"} /\ pc = "idle" /\ adding' = TRUE
      /\ UNCHANGED <<vars, event, period, start, started, u64Delta, answer>>
      /\ result' = [start EXCEPT !.microseconds = @ + PeriodMicros]
  BY DEF AddPeriod, Asked, AddTime
<1>2. start \in Wide /\ Micros(start) = started /\ PeriodMicros \in Nat
  BY <1>1, TheReading DEF Proper
<1>3. result' \in Wide /\ Micros(result') = started + PeriodMicros
  BY <1>1, <1>2, AddedMicros
<1>4. u64Delta' = 0
  BY <1>1 DEF EventsInv, AddingInv
<1> QED
  BY <1>1, <1>3, <1>4, SumStep

\* A difference too long for 32 bits leaves a second piece, one that is not
\* too long leaves none.
LEMMA AddDifferenceStep ==
  ASSUME EventsInv, AddDifference, IInv'
  PROVE  EventsInv'
<1> DEFINE delta == Micros(out_timestamp) - Micros(start)
           first == IF delta > Uint32Max THEN Uint32Max ELSE delta
<1>1. /\ event = "watch" /\ pc = "idle" /\ adding' = TRUE
      /\ UNCHANGED <<vars, event, period, start, started, answer>>
      /\ result' = [Zero EXCEPT !.microseconds = @ + first]
      /\ u64Delta' = delta - first
  BY DEF AddDifference, Asked, AddTime
<1>2. /\ delta = serviced - started /\ delta \in Nat
      /\ Uint32Max \in Nat /\ serviced - started \in Int
  BY <1>1, TheReading DEF Uint32Max
<1> HIDE DEF delta
<1>3. first \in Nat /\ delta - first \in Nat
  BY <1>2
<1> HIDE DEF first
<1>4. result' \in Wide /\ Micros(result') = first
  BY <1>1, <1>3, AddedMicros, ProperZero DEF Proper
<1>5. Micros(result') + u64Delta' = serviced - started
  BY <1>1, <1>2, <1>3, <1>4
<1>6. serviced - started <= 2 * Uint32Max => u64Delta' <= Uint32Max
  BY <1>1, <1>2 DEF first
<1> QED
  BY <1>1, <1>3, <1>4, <1>5, <1>6, SumStep

LEMMA AddSecondStep ==
  ASSUME EventsInv, AddSecond, IInv'
  PROVE  EventsInv'
<1>1. /\ adding /\ adding' = adding /\ result.microseconds > Second - 1
      /\ result' = [NextSecond(result) EXCEPT !.microseconds = @ - Second]
      /\ UNCHANGED <<vars, event, period, start, started, u64Delta, answer>>
  BY DEF AddSecond
<1>2. /\ result \in Wide /\ event # "none" /\ pc = "idle"
      /\ result.microseconds >= Second
  BY <1>1, ClockAssumption DEF EventsInv, AddingInv, Wide, ClockAssumption
<1>3. result' \in Wide /\ Micros(result') = Micros(result)
  BY <1>1, <1>2, NextSecondMicros
<1> QED
  BY <1>1, <1>2, <1>3, SumStep DEF EventsInv, AddingInv

LEMMA AddRestStep ==
  ASSUME EventsInv, AddRest, IInv'
  PROVE  EventsInv'
<1> DEFINE rest == u64Delta % Ticks
<1>1. /\ adding /\ adding' = TRUE /\ u64Delta # 0 /\ u64Delta' = 0
      /\ result' = [result EXCEPT !.microseconds = @ + rest]
      /\ UNCHANGED <<vars, event, period, start, started, answer>>
  BY DEF AddRest, Added, AddTime
<1>2. /\ result \in Wide /\ u64Delta \in Nat /\ event = "watch" /\ pc = "idle"
  BY <1>1 DEF EventsInv, AddingInv
<1>3. Ticks \in Nat /\ Ticks > 0 /\ serviced - started \in Int
  BY <1>2, TheReading
<1>4. rest \in Nat /\ (u64Delta <= Uint32Max => rest = u64Delta)
  BY <1>2, <1>3 DEF Uint32Max
<1> HIDE DEF rest
<1>5. result' \in Wide /\ Micros(result') = Micros(result) + rest
  BY <1>1, <1>2, <1>4, AddedMicros
<1>6. serviced - started <= 2 * Uint32Max =>
        Micros(result') + u64Delta' = serviced - started
  <2> SUFFICES ASSUME serviced - started <= 2 * Uint32Max
               PROVE  Micros(result') = serviced - started
    BY <1>1, <1>3
  <2>1. Micros(result) + u64Delta = serviced - started /\ u64Delta <= Uint32Max
    BY <1>1, <1>2 DEF EventsInv, AddingInv
  <2> QED
    BY <1>4, <1>5, <2>1
<1>7. u64Delta' <= Uint32Max
  BY <1>1, <1>3 DEF Uint32Max
<1> QED
  BY <1>1, <1>2, <1>5, <1>6, <1>7, SumStep

\* A question answered leaves nothing behind but the answer.
LEMMA ReplyStep ==
  ASSUME EventsInv, NEW value, event # "none", Reply(value), AnswerInv', IInv'
  PROVE  EventsInv'
<1>1. UNCHANGED <<pc, call, serviced, f_is_initialised, out_timestamp, start, started>>
  BY DEF Reply, vars, clock
<1>2. HeldInv'
  BY <1>1 DEF EventsInv, HeldInv, Read
<1>3. AddingInv'
  BY DEF Reply, AddingInv
<1> QED
  BY <1>2, <1>3 DEF EventsInv

\* The sum is a timestamp again, and the later of the two is the one that
\* compares greater.
LEMMA AnswerPeriodStep ==
  ASSUME EventsInv, AnswerPeriod, IInv'
  PROVE  EventsInv'
<1> DEFINE value == CompareTime(out_timestamp, result)
<1>1. /\ adding /\ event \in {"us", "ms"} /\ Reply(value) /\ event # "none"
      /\ result.microseconds <= Second - 1
  BY DEF AnswerPeriod, Added
<1>2. /\ result \in Wide /\ pc = "idle" /\ Micros(result) = started + PeriodMicros
  BY <1>1 DEF EventsInv, AddingInv
<1>3. result \in Proper
  BY <1>1, <1>2, ClockAssumption DEF Proper, Wide, ClockAssumption
<1>4. value <=> serviced - started >= PeriodMicros
  <2>1. value <=> serviced >= started + PeriodMicros
    BY <1>1, <1>2, <1>3, InOrder, TheReading
  <2> QED
    BY <1>1, <1>2, <2>1, TheReading
<1> HIDE DEF value
<1>5. answer' = [kind |-> event, value |-> value, since |-> serviced - started,
                 period |-> PeriodMicros]
  BY <1>1 DEF Reply
<1>6. AnswerInv'
  BY <1>1, <1>4, <1>5 DEF AnswerInv, ElapsedIsExact, StopWatchWithinRange
<1> QED
  BY <1>1, <1>6, ReplyStep

LEMMA NoPeriodStep ==
  ASSUME EventsInv, NoPeriod, IInv'
  PROVE  EventsInv'
<1>1. /\ event \in {"us", "ms"} /\ Reply(TRUE) /\ event # "none" /\ pc = "idle"
      /\ PeriodMicros = 0
  BY DEF NoPeriod, Asked
<1>2. serviced - started >= PeriodMicros
  BY <1>1, TheReading
<1>3. answer' = [kind |-> event, value |-> TRUE, since |-> serviced - started,
                 period |-> PeriodMicros]
  BY <1>1 DEF Reply
<1>4. AnswerInv'
  BY <1>1, <1>2, <1>3 DEF AnswerInv, ElapsedIsExact, StopWatchWithinRange
<1> QED
  BY <1>1, <1>4, ReplyStep

LEMMA AnswerStopWatchStep ==
  ASSUME EventsInv, AnswerStopWatch, IInv'
  PROVE  EventsInv'
<1>1. /\ adding /\ event = "watch" /\ Reply(result) /\ event # "none" /\ u64Delta = 0
  BY DEF AnswerStopWatch, Added
<1>2. pc = "idle" /\ result \in Wide
  BY <1>1 DEF EventsInv, AddingInv
<1>3. Micros(result) \in Int
  BY <1>2, ClockAssumption DEF Micros, Wide, ClockAssumption
<1>4. serviced - started <= 2 * Uint32Max => Micros(result) = serviced - started
  BY <1>1, <1>3 DEF EventsInv, AddingInv
<1>5. answer' = [kind |-> event, value |-> result, since |-> serviced - started,
                 period |-> PeriodMicros]
  BY <1>1 DEF Reply
<1>6. AnswerInv'
  BY <1>1, <1>4, <1>5 DEF AnswerInv, ElapsedIsExact, StopWatchWithinRange, Uint32Max
<1> QED
  BY <1>1, <1>6, ReplyStep

LEMMA EventsNextInv ==
  ASSUME MaxGap + Second <= Ticks
  PROVE  EventsInv /\ [EventsNext]_allVars => EventsInv'
<1> SUFFICES ASSUME EventsInv, [EventsNext]_allVars PROVE EventsInv'
  OBVIOUS
<1>1. IInv'
  BY EventsNextIsNext, NextIInv DEF EventsInv
<1>2. CASE ClockNext
  BY <1>1, <1>2, ClockNextStep
<1>3. CASE Restart \/ Mark
  BY <1>1, <1>3, RestartStep, MarkStep
<1>4. CASE \E p \in Periods : HasUsTimeElapsed(p) \/ HasMsTimeElapsed(p)
  BY <1>1, <1>4, AskStep, EventsAssumption
     DEF HasUsTimeElapsed, HasMsTimeElapsed, EventsAssumption
<1>5. CASE AskStopWatch
  BY <1>1, <1>5, AskStep DEF AskStopWatch
<1>6. CASE NoPeriod \/ AddPeriod \/ AddDifference \/ AddSecond \/ AddRest
  BY <1>1, <1>6, NoPeriodStep, AddPeriodStep, AddDifferenceStep, AddSecondStep, AddRestStep
<1>7. CASE AnswerPeriod \/ AnswerStopWatch
  BY <1>1, <1>7, AnswerPeriodStep, AnswerStopWatchStep
<1>8. CASE UNCHANGED allVars
  <2>1. HeldInv'
    BY <1>8 DEF EventsInv, HeldInv, Read, allVars, events, asking, vars, clock
  <2>2. AddingInv'
    BY <1>8 DEF EventsInv, AddingInv, PeriodMicros, Uint32Max, allVars, events,
                asking, vars, clock
  <2>3. AnswerInv'
    BY <1>8 DEF EventsInv, AnswerInv, ElapsedIsExact, StopWatchWithinRange, Uint32Max,
                allVars, events, asking
  <2> QED
    BY <1>1, <2>1, <2>2, <2>3 DEF EventsInv
<1> QED
  BY <1>2, <1>3, <1>4, <1>5, <1>6, <1>7, <1>8 DEF EventsNext

-----------------------------------------------------------------------------
\* On a clock serviced in time a period is reported as elapsed exactly when
\* that much real time lies between the start and the reading.
THEOREM PeriodsAreExact ==
  ASSUME MaxGap + Second <= Ticks
  PROVE  EventsSpec => []ElapsedIsExact
<1>1. EventsInv => ElapsedIsExact
  BY DEF EventsInv, AnswerInv
<1> QED
  BY <1>1, InitEventsInv, EventsNextInv, PTL DEF EventsSpec

\* On such a clock the stop watch shows the real time since its start, for as
\* long as two 32-bit additions reach.
THEOREM StopWatchIsExactInRange ==
  ASSUME MaxGap + Second <= Ticks
  PROVE  EventsSpec => []StopWatchWithinRange
<1>1. EventsInv => StopWatchWithinRange
  BY DEF EventsInv, AnswerInv
<1> QED
  BY <1>1, InitEventsInv, EventsNextInv, PTL DEF EventsSpec

\* Questions do not disturb the clock: it keeps its specification, and so
\* everything proved of it, whatever is asked and when.
THEOREM QuestionsKeepTheClock == EventsSpec => Spec
<1>1. EventsInit => Init
  BY DEF EventsInit
<1>2. [EventsNext]_allVars => [Next]_vars
  BY EventsNextIsNext
<1> QED
  BY <1>1, <1>2, PTL DEF EventsSpec, Spec
=============================================================================
