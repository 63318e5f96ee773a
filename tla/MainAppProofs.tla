---------------------------- MODULE MainAppProofs ---------------------------
(***************************************************************************)
(* Proofs about MainApp, for any argument lists, any number of signals and *)
(* of calls of main, and both builds.                                      *)
(*                                                                         *)
(* The properties say what holds in the loop and after it; IInv says what  *)
(* each stage before it has established, for the loop to start from.       *)
(***************************************************************************)
EXTENDS MainApp, TLAPS

\* The stages of main_setup behind SetupReset, and what comes after them.
AfterReset == {"count", "sigaction", "blocked", "initialised", "threads", "hello",
               "sleep", "poll", "teardown", "exited"}

Running == {"threads", "hello", "sleep", "poll"}

\* TypeOK, variable by variable: the numbers, and the rest.
Counted == signals \in 0..MaxSignals /\ runs \in 1..MaxRuns /\ f_counter \in 0..6

Types ==
  /\ UnitTesting \in BOOLEAN /\ UnitTesting \in Builds
  /\ f_debug_enabled \in BOOLEAN /\ f_main_initialised \in BOOLEAN
  /\ f_shutdown_requested \in BOOLEAN
  /\ f_keep_running \in {0, 1}
  /\ f_counter_initialised \in BOOLEAN
  /\ handling \in BOOLEAN /\ argv \in Argv
  /\ pc \in {"parse", "reset", "count", "sigaction", "blocked", "initialised",
             "threads", "hello", "sleep", "poll", "teardown", "exited", "killed"}
  /\ code_coverage_enable \in BOOLEAN /\ result \in BOOLEAN
  /\ status \in {0, -1}
  /\ interrupted \in BOOLEAN /\ failed \in BOOLEAN

\* main_setup counts to six and no further.
CounterInv ==
  /\ pc = "count" => f_counter \in 0..5 /\ f_counter_initialised
  /\ pc = "sigaction" => f_counter = 6

\* On the target main is called once, so the statics are those of this call:
\* what was requested so far was requested by a signal.
TargetInv ==
  ~UnitTesting =>
    /\ f_keep_running = 0 => interrupted
    /\ ~f_shutdown_requested
    /\ handling => pc \in AfterReset \union {"killed"}
    /\ interrupted => handling
    /\ pc = "initialised" => result /\ handling /\ ~failed
    /\ pc \in Running => f_main_initialised /\ handling /\ ~failed

\* A signal is not forgotten: from the reset on, f_keep_running keeps it.
SignalInv ==
  /\ UnitTesting /\ pc \in AfterReset => f_keep_running = 0
  /\ ~UnitTesting /\ interrupted => f_keep_running = 0

IInv ==
  /\ Counted /\ Types /\ CounterInv /\ TargetInv /\ SignalInv
  /\ RunsUntilAsked

-----------------------------------------------------------------------------
\* What the bounds and the builds are.
LEMMA Bounds ==
  /\ Builds \subseteq BOOLEAN
  /\ MaxSignals \in Nat /\ MaxRuns \in Nat /\ MaxRuns >= 1
  BY MainAssumption DEF MainAssumption

\* The first call starts with statics that request nothing.
LEMMA InitInv == Init => IInv
<1> SUFFICES ASSUME Init PROVE IInv
  OBVIOUS
<1>1. Types
  BY Bounds DEF Init, Types
<1>6. Counted
  BY Bounds DEF Init, Counted
<1>2. CounterInv
  BY DEF Init, CounterInv
<1>3. TargetInv
  BY DEF Init, TargetInv, AfterReset, Running
<1>4. SignalInv
  BY DEF Init, SignalInv, AfterReset
<1>5. RunsUntilAsked
  BY DEF Init, RunsUntilAsked
<1> QED
  BY <1>1, <1>2, <1>3, <1>4, <1>5, <1>6 DEF IInv

\* The stages of main_setup.
LEMMA SetupKeepsInv ==
  ASSUME IInv, UNCHANGED UnitTesting,
         \/ ParseParameters \/ SetupReset \/ SetupCount
         \/ \E ok \in BOOLEAN : SetupSigaction(ok)
         \/ SetupDone
  PROVE  IInv'
<1> USE DEF IInv, Counted, Types, CounterInv, TargetInv, SignalInv, RunsUntilAsked, AfterReset,
            Running, Goto, locals, history, statics
<1>1. CASE ParseParameters
  <2>1. Types'
    <3>1. f_debug_enabled' \in BOOLEAN /\ code_coverage_enable' \in BOOLEAN
      BY <1>1 DEF ParseParameters
    <3> QED
      BY <1>1, <3>1 DEF ParseParameters
  <2>2. Counted' /\ CounterInv'
    BY <1>1 DEF ParseParameters
  <2>3. TargetInv' /\ SignalInv' /\ RunsUntilAsked'
    BY <1>1 DEF ParseParameters
  <2> QED
    BY <2>1, <2>2, <2>3
<1>2. CASE SetupReset
  <2>1. Types'
    BY <1>2 DEF SetupReset
  <2>2. Counted' /\ CounterInv'
    BY <1>2 DEF SetupReset
  <2>3. TargetInv' /\ SignalInv' /\ RunsUntilAsked'
    BY <1>2 DEF SetupReset
  <2> QED
    BY <2>1, <2>2, <2>3
<1>3. CASE SetupCount
  BY <1>3 DEF SetupCount
<1>4. CASE \E ok \in BOOLEAN : SetupSigaction(ok)
  BY <1>4 DEF SetupSigaction
<1>5. CASE SetupDone
  BY <1>5 DEF SetupDone
<1> QED
  BY <1>1, <1>2, <1>3, <1>4, <1>5

\* The stages from the threads to the exit.
LEMMA RunKeepsInv ==
  ASSUME IInv, UNCHANGED UnitTesting,
         CreateThreads \/ HelloWorld \/ Sleep \/ Poll \/ Teardown
  PROVE  IInv'
<1> USE DEF IInv, Counted, Types, CounterInv, TargetInv, SignalInv, RunsUntilAsked, AfterReset,
            Running, Goto, locals, history, statics
<1>1. CASE CreateThreads
  BY <1>1 DEF CreateThreads
<1>2. CASE HelloWorld
  BY <1>2 DEF HelloWorld
<1>3. CASE Sleep
  BY <1>3 DEF Sleep
<1>4. CASE Poll
  BY <1>4 DEF Poll
<1>5. CASE Teardown
  BY <1>5 DEF Teardown
<1> QED
  BY <1>1, <1>2, <1>3, <1>4, <1>5

\* What comes from outside: a signal, the next call, a test that requests a
\* shutdown.
LEMMA OutsideKeepsInv ==
  ASSUME IInv, UNCHANGED UnitTesting, Restart \/ Sigint \/ TestShutdownRequest
  PROVE  IInv'
<1> USE DEF IInv, Types, CounterInv, TargetInv, SignalInv, RunsUntilAsked,
            AfterReset, Running, Goto, locals, history, statics
<1>1. CASE Restart
  <2>1. Counted'
    BY <1>1, Bounds DEF Restart, Counted
  <2>2. Types'
    BY <1>1 DEF Restart
  <2>3. CounterInv' /\ TargetInv' /\ SignalInv' /\ RunsUntilAsked'
    BY <1>1 DEF Restart
  <2> QED
    BY <2>1, <2>2, <2>3
<1>2. CASE Sigint
  <2>1. Counted'
    BY <1>2, Bounds DEF Sigint, Counted
  <2>2. Types'
    <3>1. CASE handling
      BY <1>2, <3>1 DEF Sigint
    <3>2. CASE ~handling
      BY <1>2, <3>2 DEF Sigint
    <3> QED
      BY <3>1, <3>2
  <2>3. CounterInv' /\ TargetInv' /\ SignalInv' /\ RunsUntilAsked'
    BY <1>2 DEF Sigint
  <2> QED
    BY <2>1, <2>2, <2>3
<1>3. CASE TestShutdownRequest
  BY <1>3 DEF TestShutdownRequest, Counted
<1> QED
  BY <1>1, <1>2, <1>3

\* Every step keeps the invariant.
LEMMA NextInv == IInv /\ [Next]_vars => IInv'
<1> SUFFICES ASSUME IInv, [Next]_vars
             PROVE  IInv'
  OBVIOUS
<1>1. CASE Next
  BY <1>1, SetupKeepsInv, RunKeepsInv, OutsideKeepsInv DEF Next, Main
<1>2. CASE UNCHANGED vars
  BY <1>2 DEF vars, statics, locals, history, IInv, Counted, Types, CounterInv, TargetInv,
              SignalInv, RunsUntilAsked, AfterReset, Running
<1> QED
  BY <1>1, <1>2

LEMMA Invariant == Spec => []IInv
  BY InitInv, NextInv, PTL DEF Spec

-----------------------------------------------------------------------------
\* Every variable keeps to its values; main_setup's counter stops at six
\* (main.c:118-140), whatever the arguments are.
THEOREM TypeCorrect == Spec => []TypeOK
<1>1. IInv => TypeOK
  BY DEF IInv, Counted, Types, TypeOK
<1> QED
  BY <1>1, Invariant, PTL

\* On the target nothing ends the program but a SIGINT or a run for code
\* coverage (main.c:306-315).
THEOREM EndsOnlyWhenAsked == Spec => []RunsUntilAsked
  BY Invariant, PTL DEF IInv

\* On the target the loop is only entered with the handler in place
\* (main.c:151-158): a failed sigaction blocks in DD_ASSERT.
THEOREM LoopCanBeStopped == Spec => []LoopIsStoppable
<1>1. IInv => LoopIsStoppable
  BY DEF IInv, TargetInv, LoopIsStoppable, Running
<1> QED
  BY <1>1, Invariant, PTL

\* The safe part of InterruptEndsProgram: a SIGINT that main_signalHandler took
\* finds the loop's condition false at every later poll (main.c:104, 314),
\* whenever it came.
SignalRemembered == interrupted /\ pc \in {"sleep", "poll"} => f_keep_running = 0

THEOREM SignalNeverLost == Spec => []SignalRemembered
<1>1. IInv => SignalRemembered
  BY DEF IInv, SignalInv, SignalRemembered, AfterReset, Types
<1> QED
  BY <1>1, Invariant, PTL
=============================================================================
