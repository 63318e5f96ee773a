------------------------------- MODULE MainApp ------------------------------
(***************************************************************************)
(* example/application/main.c: the life of the example program, from its   *)
(* arguments to its exit status, with SIGINT arriving between any two      *)
(* steps.  The file's statics outlive a call of main: under unit test it   *)
(* is called (as test_main) several times in one process.                  *)
(*                                                                         *)
(* The counter exercised by main_setup counts its calls and is kept as     *)
(* f_counter.  Trace output is left out.                                   *)
(*                                                                         *)
(* As in AssertHandler, SetupDone_KeepRunning and its like are plausible    *)
(* slips that show that the properties can fail.                           *)
(***************************************************************************)
EXTENDS Integers, Sequences

CONSTANTS
  Builds,        \* the values of DD_UNIT_TESTING considered
  Argv,          \* the argument lists main is called with
  Width,         \* values of uint8_t, which holds the argument count
  MaxSignals,    \* bound: SIGINTs sent in all
  MaxRuns        \* bound: calls of main in one process

ASSUME MainAssumption ==
  /\ Builds \subseteq BOOLEAN
  /\ \A argv \in Argv : argv \in Seq({"-c", "-d", "other"})
  /\ Width \in Nat \ {0} /\ MaxSignals \in Nat /\ MaxRuns \in Nat \ {0}

VARIABLES
  UnitTesting,   \* DD_UNIT_TESTING of the build
  f_debug_enabled, f_main_initialised, f_keep_running, f_shutdown_requested,
  f_counter_initialised, f_counter,
  handling,      \* SIGINT goes to main_signalHandler
  pc, argv, code_coverage_enable, result, status,
  signals,       \* history: SIGINTs sent
  interrupted,   \* history: main_signalHandler has run in this call of main
  failed,        \* history: sigaction failed in this call of main
  runs           \* history: calls of main

statics == <<f_debug_enabled, f_main_initialised, f_keep_running,
             f_shutdown_requested, f_counter_initialised, f_counter, handling>>
locals  == <<argv, code_coverage_enable, result, status>>
history == <<signals, interrupted, failed, runs>>
vars    == <<UnitTesting, statics, pc, locals, history>>

Init ==
  /\ UnitTesting \in Builds
  /\ f_debug_enabled = FALSE /\ f_main_initialised = FALSE
  /\ f_keep_running = 1 /\ f_shutdown_requested = FALSE
  /\ f_counter_initialised = FALSE /\ f_counter = 0
  /\ handling = FALSE
  /\ pc = "parse" /\ argv \in Argv
  /\ code_coverage_enable = FALSE /\ result = FALSE /\ status = 0
  /\ signals = 0 /\ interrupted = FALSE /\ failed = FALSE /\ runs = 1

Goto(from, to) == pc = from /\ pc' = to

-----------------------------------------------------------------------------
\* The arguments main_parseParameters looks at: argc has become a uint8_t.
Seen(args) == {args[ix] : ix \in 1..Len(args) % Width}

ParseParameters ==
  /\ Goto("parse", "reset")
  /\ f_debug_enabled' = ("-d" \in Seen(argv))
  /\ code_coverage_enable' = ("-c" \in Seen(argv))
  /\ UNCHANGED <<f_main_initialised, f_keep_running, f_shutdown_requested,
                 f_counter_initialised, f_counter, handling, argv, result,
                 status, history>>

\* main_setup clears the statics and initialises the counter.
SetupReset ==
  /\ Goto("reset", "count")
  /\ f_main_initialised' = FALSE
  /\ f_shutdown_requested' = FALSE
  /\ f_keep_running' = IF UnitTesting THEN 0 ELSE 1
  /\ f_counter_initialised' = TRUE /\ f_counter' = 0
  /\ UNCHANGED <<f_debug_enabled, handling, locals, history>>

SetupCount_Seven ==
  /\ Goto("count", IF f_counter = 6 THEN "sigaction" ELSE "count")
  /\ f_counter_initialised
  /\ f_counter' = f_counter + 1
  /\ UNCHANGED <<f_debug_enabled, f_main_initialised, f_keep_running,
                 f_shutdown_requested, f_counter_initialised, handling, locals,
                 history>>

\* counter_increment, six times.
SetupCount ==
  /\ Goto("count", IF f_counter = 5 THEN "sigaction" ELSE "count")
  /\ f_counter_initialised
  /\ f_counter' = f_counter + 1
  /\ UNCHANGED <<f_debug_enabled, f_main_initialised, f_keep_running,
                 f_shutdown_requested, f_counter_initialised, handling, locals,
                 history>>

SetupSigaction_NoAssert(ok) ==
  /\ Goto("sigaction", "initialised")
  /\ result' = ok /\ failed' = ~ok
  /\ handling' = (handling \/ ok)
  /\ UNCHANGED <<f_debug_enabled, f_main_initialised, f_keep_running,
                 f_shutdown_requested, f_counter_initialised, f_counter, argv,
                 code_coverage_enable, status, signals, interrupted, runs>>

\* sigaction may fail; DD_ASSERT(result) then does not return on the target.
SetupSigaction(ok) ==
  /\ Goto("sigaction", IF ok \/ UnitTesting THEN "initialised" ELSE "blocked")
  /\ result' = ok /\ failed' = ~ok
  /\ handling' = (handling \/ ok)
  /\ UNCHANGED <<f_debug_enabled, f_main_initialised, f_keep_running,
                 f_shutdown_requested, f_counter_initialised, f_counter, argv,
                 code_coverage_enable, status, signals, interrupted, runs>>

SetupDone_KeepRunning ==
  /\ Goto("initialised", IF result THEN "threads" ELSE "hello")
  /\ f_main_initialised' = (f_main_initialised \/ result)
  /\ f_keep_running' = 1
  /\ UNCHANGED <<f_debug_enabled, f_shutdown_requested, f_counter_initialised,
                 f_counter, handling, locals, history>>

SetupDone ==
  /\ Goto("initialised", IF result THEN "threads" ELSE "hello")
  /\ f_main_initialised' = (f_main_initialised \/ result)
  /\ UNCHANGED <<f_debug_enabled, f_keep_running, f_shutdown_requested,
                 f_counter_initialised, f_counter, handling, locals, history>>

\* main_createThreads: without initialisation it would request a shutdown.
CreateThreads ==
  /\ Goto("threads", "hello")
  /\ result' = f_main_initialised
  /\ f_shutdown_requested' = (f_shutdown_requested \/ ~f_main_initialised)
  /\ UNCHANGED <<f_debug_enabled, f_main_initialised, f_keep_running,
                 f_counter_initialised, f_counter, handling, argv,
                 code_coverage_enable, status, history>>

\* helloWorld_main into 15 bytes, which "Hello World!" fits: result is TRUE,
\* whatever it was.
HelloWorld ==
  /\ Goto("hello", "sleep")
  /\ result' = TRUE
  /\ UNCHANGED <<statics, argv, code_coverage_enable, status, history>>

Sleep_NoCoverage ==
  /\ Goto("sleep", "poll")
  /\ UNCHANGED <<statics, locals, history>>

\* nanosleep ends after 500 ms, or early on a signal; a signal that came just
\* before it does not shorten it.
Sleep ==
  /\ Goto("sleep", IF code_coverage_enable THEN "teardown" ELSE "poll")
  /\ UNCHANGED <<statics, locals, history>>

Poll_Once ==
  /\ Goto("poll", "teardown")
  /\ UNCHANGED <<statics, locals, history>>

Poll_Both ==
  /\ Goto("poll", IF f_keep_running # 0 \/ ~f_shutdown_requested
                    THEN "sleep" ELSE "teardown")
  /\ UNCHANGED <<statics, locals, history>>

\* while ( (f_keep_running != 0) && !f_shutdown_requested )
Poll ==
  /\ Goto("poll", IF f_keep_running # 0 /\ ~f_shutdown_requested
                    THEN "sleep" ELSE "teardown")
  /\ UNCHANGED <<statics, locals, history>>

Teardown ==
  /\ Goto("teardown", "exited")
  /\ f_main_initialised' = FALSE
  /\ status' = IF result THEN 0 ELSE -1
  /\ UNCHANGED <<f_debug_enabled, f_keep_running, f_shutdown_requested,
                 f_counter_initialised, f_counter, handling, argv,
                 code_coverage_enable, result, history>>

\* The next test calls test_main in the same process.
Restart ==
  /\ UnitTesting /\ runs < MaxRuns
  /\ Goto("exited", "parse")
  /\ argv' \in Argv
  /\ runs' = runs + 1
  /\ interrupted' = FALSE /\ failed' = FALSE
  /\ UNCHANGED <<statics, code_coverage_enable, result, status, signals>>

\* SIGINT: main_signalHandler, or the end of a process that has no handler.
Sigint ==
  /\ signals < MaxSignals /\ pc \notin {"exited", "killed"}
  /\ signals' = signals + 1
  /\ IF handling
       THEN f_keep_running' = 0 /\ interrupted' = TRUE /\ UNCHANGED pc
       ELSE pc' = "killed" /\ UNCHANGED <<f_keep_running, interrupted>>
  /\ UNCHANGED <<f_debug_enabled, f_main_initialised, f_shutdown_requested,
                 f_counter_initialised, f_counter, handling, locals, failed, runs>>

\* Tests of main_createThreads and main_shutdownRequest, between two calls of
\* main, leave a shutdown request behind.
TestShutdownRequest ==
  /\ UnitTesting /\ pc = "exited" /\ runs < MaxRuns
  /\ f_shutdown_requested' = TRUE
  /\ UNCHANGED <<f_debug_enabled, f_main_initialised, f_keep_running,
                 f_counter_initialised, f_counter, handling, pc, locals, history>>

Main ==
  \/ ParseParameters
  \/ SetupReset \/ SetupCount
  \/ \E ok \in BOOLEAN : SetupSigaction(ok)
  \/ SetupDone \/ CreateThreads
  \/ HelloWorld \/ Sleep \/ Poll \/ Teardown

Next ==
  /\ UNCHANGED UnitTesting
  /\ Main \/ Restart \/ Sigint \/ TestShutdownRequest

Spec == Init /\ [][Next]_vars

\* The process is scheduled, and its sleeps end.  Nothing sends signals.
FairSpec == Spec /\ WF_vars(Main /\ UNCHANGED UnitTesting)

-----------------------------------------------------------------------------
(* Properties.                                                             *)

TypeOK ==
  /\ UnitTesting \in Builds
  /\ <<f_debug_enabled, f_main_initialised, f_shutdown_requested>>
       \in BOOLEAN \X BOOLEAN \X BOOLEAN
  /\ f_keep_running \in {0, 1}
  /\ f_counter_initialised \in BOOLEAN /\ f_counter \in 0..6
  /\ handling \in BOOLEAN /\ argv \in Argv
  /\ pc \in {"parse", "reset", "count", "sigaction", "blocked", "initialised",
             "threads", "hello", "sleep", "poll", "teardown", "exited", "killed"}
  /\ <<code_coverage_enable, result>> \in BOOLEAN \X BOOLEAN
  /\ status \in {0, -1}
  /\ signals \in 0..MaxSignals /\ runs \in 1..MaxRuns
  /\ <<interrupted, failed>> \in BOOLEAN \X BOOLEAN

\* A SIGINT that main_signalHandler took stops the program: none is lost to
\* the initialisation of f_keep_running, to the sleep or to a race with the
\* loop's condition (lines 104, 144 and 308-314).
InterruptEndsProgram ==
  interrupted ~> pc = "exited"

\* On the target the program runs until it is told to stop: it ends by itself
\* only after a SIGINT, or in a run for code coverage.
RunsUntilAsked ==
  (pc \in {"teardown", "exited"} /\ ~UnitTesting) =>
    interrupted \/ code_coverage_enable

\* On the target the main loop is only ever entered by an initialised program
\* whose SIGINT handler is installed.
LoopIsStoppable ==
  (pc \in {"sleep", "poll"} /\ ~UnitTesting) =>
    f_main_initialised /\ handling /\ ~failed

\* On the target a run for code coverage ends, without any signal if need be
\* (lines 310-313).
CoverageRunEnds ==
  (~UnitTesting /\ pc = "sleep" /\ code_coverage_enable) ~> pc = "exited"

\* Every call of test_main returns, whatever earlier tests left behind.
TestMainReturns ==
  (UnitTesting /\ pc = "parse") ~> pc \in {"exited", "killed"}

\* "0 exited without errors, -1 exited with errors" (line 270).
StatusTellsErrors == pc = "exited" => (status = -1 <=> failed)
=============================================================================
