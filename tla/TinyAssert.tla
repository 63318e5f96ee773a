------------------------------ MODULE TinyAssert ----------------------------
(***************************************************************************)
(* utilDevDebug.c in the TINY_ASSERTS_ONLY build: the one line that an     *)
(* assertion reports is put together in a buffer that just holds the       *)
(* longest, behind the flag have_entered_already.  Interrupts, and         *)
(* callbacks that assert, come in between any two steps and run to their   *)
(* end: the contexts in the handler form a stack.  Sleeping, consuming and *)
(* the repetition of the report are as in AssertHandler.                   *)
(***************************************************************************)
EXTENDS Strings

CONSTANTS
  Sites,           \* assertions: file, function, line
  MaxFilename,     \* DD_ASSERT_MAX_FILENAME_LEN, 12
  MaxFunction,     \* DD_ASSERT_MAX_FUNCTION_LEN, 30
  MaxLinenum,      \* DD_ASSERT_MAX_LINENUM_LEN, 13
  MaxNested        \* bound: contexts in the handler at a time

ASSUME TinyAssumption ==
  /\ {MaxFilename, MaxFunction, MaxNested} \subseteq Nat
  /\ MaxLinenum \in Nat /\ MaxLinenum > S32Chars
  /\ \A site \in Sites : {site.file, site.function} \subseteq Seq(Nat)
                        /\ site.line \in 0..S32Max

VARIABLES
  unit_testing,          \* which build
  f_assert_msg, f_msg_len,
  have_entered_already,
  handling,              \* the stack: step, site and ix of each context
  report                 \* what the publisher was last given, and whose it was

tinyVars == <<unit_testing, f_assert_msg, f_msg_len, have_entered_already, handling, report>>

Bug     == <<66, 85, 71, 58>>    \* "BUG:"
Comma   == <<44>>
Parens  == <<40, 41, 44>>        \* "(),"
Newline == <<10>>

BufferLength ==                  \* DD_ASSERT_BUFFER_SIZE
  Len(Bug) + MaxFilename + MaxFunction + MaxLinenum + 6

NoReport == [site |-> <<>>, text |-> <<>>, length |-> 0]

TinyInit ==
  /\ unit_testing \in BOOLEAN
  /\ f_assert_msg = [n \in 1..BufferLength |-> IF n <= Len(Bug) THEN Bug[n] ELSE Nul]
  /\ f_msg_len = 0
  /\ have_entered_already = FALSE
  /\ handling = <<>>
  /\ report = NoReport

-----------------------------------------------------------------------------
Running == Head(handling)

\* The running context goes from one step to the next, its ix set.
GoOn(from, to, ix) ==
  /\ handling # <<>> /\ Running.step = from
  /\ handling' = [handling EXCEPT ![1].step = to, ![1].ix = ix]

\* DD_ASSERT with a false condition: it is the more urgent context.
Fails(site) ==
  /\ Len(handling) < MaxNested
  /\ handling' = <<[step |-> "check", site |-> site, ix |-> 0]>> \o handling
  /\ UNCHANGED <<unit_testing, f_assert_msg, f_msg_len, have_entered_already, report>>

Check ==
  /\ handling # <<>> /\ Running.step = "check"
  /\ handling' = IF have_entered_already THEN Tail(handling)
                 ELSE [handling EXCEPT ![1].step = "enter"]
  /\ UNCHANGED <<unit_testing, f_assert_msg, f_msg_len, have_entered_already, report>>

SetEntered_Late ==
  /\ GoOn("enter", "file", Len(Bug))
  /\ UNCHANGED <<unit_testing, f_assert_msg, f_msg_len, have_entered_already, report>>

SetEntered ==
  /\ GoOn("enter", "file", Len(Bug))
  /\ have_entered_already' = TRUE
  /\ UNCHANGED <<unit_testing, f_assert_msg, f_msg_len, report>>

\* utilDevDebug_appendMsg: what of src goes into the message.
AppendMsg(src, len) == SubSeq(src, 1, IF Len(src) < len THEN Len(src) ELSE len)

\* The running context adds characters to the message.
Add(from, to, chars) ==
  /\ handling # <<>>
  /\ GoOn(from, to, Running.ix + Len(chars))
  /\ f_assert_msg' = Stored(f_assert_msg, Running.ix, chars)
  /\ UNCHANGED <<unit_testing, f_msg_len, have_entered_already, report>>

SaveMessage ==
  /\ handling # <<>>
  /\ LET site == Running.site IN
       \/ Add("file", "comma", AppendMsg(site.file, MaxFilename))
       \/ Add("comma", "function", Comma)
       \/ Add("function", "parens", AppendMsg(site.function, MaxFunction))
       \/ Add("parens", "line", AppendMsg(Parens, 3))
       \/ Add("line", "newline", AppendMsg(Itoa(site.line, MaxLinenum), MaxLinenum))
       \/ Add("newline", "nul", AppendMsg(Newline, 1))
       \/ Add("nul", "length", <<Nul>>)

\* ix stands behind the Nul by now.
SaveLength ==
  /\ handling # <<>>
  /\ GoOn("length", "publish", Running.ix)
  /\ f_msg_len' = Running.ix
  /\ UNCHANGED <<unit_testing, f_assert_msg, have_entered_already, report>>

\* utilDevDebug_assertState: for ever on the target.
PublishMessage ==
  /\ GoOn("publish", IF unit_testing THEN "leave" ELSE "publish", Running.ix)
  /\ report' = [site |-> Running.site, text |-> f_assert_msg, length |-> f_msg_len]
  /\ UNCHANGED <<unit_testing, f_assert_msg, f_msg_len, have_entered_already>>

\* ASSERT_STATE_RUN, and back to the context that was interrupted.
Return ==
  /\ handling # <<>> /\ Running.step = "leave"
  /\ have_entered_already' = FALSE
  /\ handling' = Tail(handling)
  /\ UNCHANGED <<unit_testing, f_assert_msg, f_msg_len, report>>

TinyNext ==
  \/ \E site \in Sites : Fails(site)
  \/ Check \/ SetEntered \/ SaveMessage \/ SaveLength \/ PublishMessage \/ Return

TinySpec == TinyInit /\ [][TinyNext]_tinyVars

-----------------------------------------------------------------------------
(* Properties.                                                             *)

\* "The message format is: BUG: + filename + , + function + (), + line number
\* + \n\0" (utilTinyDevDebug.h:84-85): the publisher is given exactly the line
\* of the assertion that calls it, not a character of an assertion that came
\* in between or of a longer line before, and all of it lies in the buffer.
TinyMessageExact ==
  report # NoReport =>
    LET site == report.site
    IN  /\ report.length <= BufferLength
        /\ SubSeq(report.text, 1, report.length) =
             Bug \o AppendMsg(site.file, MaxFilename)
                 \o Comma \o AppendMsg(site.function, MaxFunction) \o Parens
                 \o Digits(site.line, Radix) \o Newline \o <<Nul>>
=============================================================================
