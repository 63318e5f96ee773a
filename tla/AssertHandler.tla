---------------------------- MODULE AssertHandler ---------------------------
(***************************************************************************)
(* lib/common/src/utilDevDebug.c, the full (not TINY_ASSERTS_ONLY) build:  *)
(* what happens when DD_ASSERT finds its condition false.  The handler is  *)
(* entered by any context of the program, a thread or an interrupt, and    *)
(* works on file-scope buffers behind the unprotected flag                 *)
(* have_entered_already.  The callbacks are the application's; one of them *)
(* may itself run into an assertion, which then runs to its end between    *)
(* two steps of the handler that called it, as a more urgent context does. *)
(* mode says what the program is and how its contexts exclude each other:  *)
(*   "interrupts"  on the target: a context yields only to more urgent     *)
(*                 ones, which run to completion                           *)
(*   "threads"     on the target: a context may stop anywhere              *)
(*   "unit test"   the build with DD_UNIT_TESTING, where the handler       *)
(*                 returns; callbacks nest as interrupts do                *)
(*                                                                         *)
(* Names with a suffix after an underscore that the source does not have   *)
(* (SaveText_NoClear) are plausible slips in the definition before the     *)
(* suffix; nothing uses them but the runs that show a property can fail.   *)
(***************************************************************************)
EXTENDS Integers, Sequences

CONSTANTS
  Contexts,      \* number of contexts, callbacks that assert included; a
                 \* higher one is more urgent
  Site,          \* the assertions in the program
  TriggerCount,  \* DD_ASSERT_TRIGGER_COUNT on the target
  Modes,         \* the modes considered
  MaxFailures    \* bound: failed assertions per context

Context == 1..Contexts

ASSUME AssertAssumption ==
  /\ Contexts \in Nat \ {0} /\ TriggerCount \in Nat /\ MaxFailures \in Nat
  /\ Modes \subseteq {"interrupts", "threads", "unit test"}
  /\ "none" \notin Site

VARIABLES
  mode,                   \* one of Modes, for good
  f_consumer_handler, f_publisher_handler, f_safe_state_handler,
                          \* FALSE is NULL
  boot,                   \* where utilDevDebug_initialise is
  have_entered_already,
  text,                   \* f_assert_filename, _function and _expression
  f_assert_line_number,
  pc, site, sleep_count,  \* of each context: its place, its assertion, a local
  failures,               \* how many of its assertions failed
  safe,                   \* history: the safe state function has been called
  early,                  \* history: an assertion failed before boot was done
  published               \* history: what the publisher was last given

handlers == <<f_consumer_handler, f_publisher_handler, f_safe_state_handler, boot>>
message  == <<text, f_assert_line_number>>
history  == <<safe, early, published>>
vars == <<mode, handlers, have_entered_already, message, pc, site, sleep_count,
          failures, history>>

Nothing == [filename |-> <<>>, function |-> <<>>, expression |-> <<>>, line |-> "none"]

UnitTesting == mode = "unit test"

\* DD_ASSERT_TRIGGER_COUNT of the build.
Trigger == IF UnitTesting THEN 0 ELSE TriggerCount

Init ==
  /\ mode \in Modes
  /\ f_consumer_handler = FALSE /\ f_publisher_handler = FALSE
  /\ f_safe_state_handler = FALSE
  /\ boot = "consumer"
  /\ have_entered_already = FALSE
  /\ text = [field \in {"filename", "function", "expression"} |-> <<>>]
  /\ f_assert_line_number = "none"
  /\ pc = [c \in Context |-> "run"]
  /\ site \in [Context -> Site]
  /\ sleep_count = [c \in Context |-> 0]
  /\ failures = [c \in Context |-> 0]
  /\ safe = FALSE /\ early = FALSE /\ published = Nothing

\* Interrupts nest: c runs only while nothing more urgent is in the handler.
MayRun(c) == mode # "threads" => \A d \in Context : d > c => pc[d] = "run"

Goto(c, from, to) ==
  /\ pc[c] = from
  /\ MayRun(c)
  /\ pc' = [pc EXCEPT ![c] = to]

-----------------------------------------------------------------------------
\* utilDevDebug_initialise, called by the least urgent context at boot: three
\* stores, any of them possibly of NULL.
Initialise(set) ==
  /\ pc[1] = "run" /\ MayRun(1)
  /\ \/ /\ boot = "consumer" /\ boot' = "publisher"
        /\ f_consumer_handler' = set
        /\ UNCHANGED <<f_publisher_handler, f_safe_state_handler>>
     \/ /\ boot = "publisher" /\ boot' = "safe"
        /\ f_publisher_handler' = set
        /\ UNCHANGED <<f_consumer_handler, f_safe_state_handler>>
     \/ /\ boot = "safe" /\ boot' = "done"
        /\ f_safe_state_handler' = set
        /\ UNCHANGED <<f_consumer_handler, f_publisher_handler>>
  /\ UNCHANGED <<have_entered_already, message, pc, site, sleep_count, failures,
                 history>>

\* DD_ASSERT with a false condition.
Fail(c, s) ==
  /\ Goto(c, "run", "check")
  /\ failures[c] < MaxFailures
  /\ site' = [site EXCEPT ![c] = s]
  /\ failures' = [failures EXCEPT ![c] = @ + 1]
  /\ early' = (early \/ boot # "done")
  /\ UNCHANGED <<handlers, have_entered_already, message, sleep_count, safe,
                 published>>

\* if ( !have_entered_already ), not taken: the assertion has no effect.
TurnAway(c) ==
  /\ have_entered_already
  /\ Goto(c, "check", "run")
  /\ UNCHANGED <<handlers, have_entered_already, message, site, sleep_count,
                 failures, history>>

Admit_Always(c) ==
  /\ Goto(c, "check", "enter")
  /\ UNCHANGED <<handlers, have_entered_already, message, site, sleep_count,
                 failures, history>>

\* ... taken.
Admit(c) ==
  /\ ~have_entered_already
  /\ Goto(c, "check", "enter")
  /\ UNCHANGED <<handlers, have_entered_already, message, site, sleep_count,
                 failures, history>>

\* have_entered_already = true
Enter(c) ==
  /\ Goto(c, "enter", "clear filename")
  /\ have_entered_already' = TRUE
  /\ UNCHANGED <<handlers, message, site, sleep_count, failures, history>>

\* The order in which the three texts and the line number are saved.
Saving ==
  {<<"filename", "clear filename", "append filename", "clear function">>,
   <<"function", "clear function", "append function", "line">>,
   <<"expression", "clear expression", "append expression", "safe">>}

SaveText_NoClear(c) ==
  \E step \in Saving :
    /\ \/ /\ Goto(c, step[2], step[3])
          /\ UNCHANGED text
       \/ /\ Goto(c, step[3], step[4])
          /\ text' = [text EXCEPT ![step[1]] = Append(@, site[c])]
    /\ UNCHANGED <<handlers, have_entered_already, f_assert_line_number, site,
                   sleep_count, failures, history>>

\* A text is cut to nothing, then m_strcat_s appends to whatever is there.
SaveText(c) ==
  \E step \in Saving :
    /\ \/ /\ Goto(c, step[2], step[3])
          /\ text' = [text EXCEPT ![step[1]] = <<>>]
       \/ /\ Goto(c, step[3], step[4])
          /\ text' = [text EXCEPT ![step[1]] = Append(@, site[c])]
    /\ UNCHANGED <<handlers, have_entered_already, f_assert_line_number, site,
                   sleep_count, failures, history>>

SaveLine(c) ==
  /\ Goto(c, "line", "clear expression")
  /\ f_assert_line_number' = site[c]
  /\ UNCHANGED <<handlers, have_entered_already, text, site, sleep_count,
                 failures, history>>

SafeState_Skip(c) ==
  /\ Goto(c, "safe", "consume")
  /\ sleep_count' = [sleep_count EXCEPT ![c] = 0]
  /\ UNCHANGED <<handlers, have_entered_already, message, site, failures, history>>

\* f_safe_state_handler, if there is one; then utilDevDebug_assertState begins.
SafeState(c) ==
  /\ Goto(c, "safe", "consume")
  /\ safe' = (safe \/ f_safe_state_handler)
  /\ sleep_count' = [sleep_count EXCEPT ![c] = 0]
  /\ UNCHANGED <<handlers, have_entered_already, message, site, failures,
                 early, published>>

Sleep_Restart(c) ==
  /\ Goto(c, "consume", IF 1 > Trigger THEN "publish" ELSE "again")
  /\ sleep_count' = [sleep_count EXCEPT ![c] = 1]
  /\ UNCHANGED <<handlers, have_entered_already, message, site, failures, history>>

\* f_consumer_handler, which changes nothing here, and 10 ms of sleep.
Sleep(c) ==
  /\ Goto(c, "consume",
          IF sleep_count[c] + 1 > Trigger THEN "publish" ELSE "again")
  /\ sleep_count' = [sleep_count EXCEPT ![c] = @ + 1]
  /\ UNCHANGED <<handlers, have_entered_already, message, site, failures, history>>

\* f_publisher_handler, if there is one, is given pointers to the buffers.
Publish(c) ==
  /\ Goto(c, "publish", "again")
  /\ published' = IF f_publisher_handler
                    THEN [filename   |-> text["filename"],
                          function   |-> text["function"],
                          expression |-> text["expression"],
                          line       |-> f_assert_line_number]
                    ELSE published
  /\ sleep_count' = [sleep_count EXCEPT ![c] = 0]
  /\ UNCHANGED <<handlers, have_entered_already, message, site, failures, safe,
                 early>>

\* for ( ;; )
Again(c) ==
  /\ ~UnitTesting
  /\ Goto(c, "again", "consume")
  /\ UNCHANGED <<handlers, have_entered_already, message, site, sleep_count,
                 failures, history>>

Leave_Always(c) ==
  /\ Goto(c, "again", "run")
  /\ have_entered_already' = FALSE
  /\ UNCHANGED <<handlers, message, site, sleep_count, failures, history>>

Leave_NotReArmed(c) ==
  /\ UnitTesting
  /\ Goto(c, "again", "run")
  /\ UNCHANGED <<handlers, have_entered_already, message, site, sleep_count,
                 failures, history>>

\* ASSERT_STATE_ACTIVE is break and ASSERT_STATE_RUN rearms: under unit test
\* the handler returns to its caller.
Leave(c) ==
  /\ UnitTesting
  /\ Goto(c, "again", "run")
  /\ have_entered_already' = FALSE
  /\ UNCHANGED <<handlers, message, site, sleep_count, failures, history>>

Step(c) ==
  \/ TurnAway(c) \/ Admit(c) \/ Enter(c)
  \/ SaveText(c) \/ SaveLine(c)
  \/ SafeState(c) \/ Sleep(c) \/ Publish(c)
  \/ Again(c) \/ Leave(c)

Next ==
  /\ UNCHANGED mode
  /\ \/ \E set \in BOOLEAN : Initialise(set)
     \/ \E c \in Context :
          \/ \E s \in Site : Fail(c, s)
          \/ Step(c)

Spec == Init /\ [][Next]_vars

\* A context in the handler is not kept from running for ever, except by a
\* more urgent one.  Nothing makes an assertion fail.
FairSpec == Spec /\ \A c \in Context : WF_vars(Step(c) /\ UNCHANGED mode)

-----------------------------------------------------------------------------
(* Properties.                                                             *)

Places ==
  {"run", "check", "enter", "line", "safe", "consume", "publish", "again"}
    \union {step[2] : step \in Saving} \union {step[3] : step \in Saving}

\* Types; and every text holds at most one name for each context that is
\* saving, so that strcat cannot outgrow what the buffers were sized for.
TypeOK ==
  /\ mode \in Modes
  /\ handlers \in BOOLEAN \X BOOLEAN \X BOOLEAN
                    \X {"consumer", "publisher", "safe", "done"}
  /\ have_entered_already \in BOOLEAN
  /\ \A field \in DOMAIN text :
       Len(text[field]) <= (IF mode = "threads" THEN Contexts ELSE 1)
  /\ f_assert_line_number \in Site \union {"none"}
  /\ \A c \in Context :
       /\ pc[c] \in Places /\ site[c] \in Site
       /\ sleep_count[c] \in 0..Trigger + 1
       /\ failures[c] \in 0..MaxFailures
  /\ safe \in BOOLEAN /\ early \in BOOLEAN

\* The publisher is given the file name, the function, the condition and the
\* line of one and the same assertion (utilDevDebug.h:48-53).
MessageIntact ==
  published # Nothing =>
    \E s \in Site :
      published = [filename |-> <<s>>, function |-> <<s>>,
                   expression |-> <<s>>, line |-> s]

\* On the target the first report stands: whatever fails later, in the
\* callbacks or in more urgent contexts, does not replace it.
FirstReportKept ==
  [][~UnitTesting /\ published # Nothing => published' = published]_vars

\* Nothing is reported before the system is in its safe state, provided the
\* callbacks were in place when the assertion failed (lines 205-210).
SafeStateFirst ==
  (published # Nothing /\ f_safe_state_handler /\ ~early) => safe

\* Under unit test the handler is armed whenever nobody is in it: the next
\* assertion is reported too (lines 32-34).
ReArmed ==
  (UnitTesting /\ \A c \in Context : pc[c] = "run") => ~have_entered_already

\* A report, once due, is repeated for ever.
ReportRepeats ==
  \A c \in Context :
    (pc[c] = "consume" /\ ~UnitTesting) ~> (pc[c] = "publish" \/ ~MayRun(c))
=============================================================================
