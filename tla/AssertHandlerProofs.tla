------------------------ MODULE AssertHandlerProofs -------------------------
(***************************************************************************)
(* Proofs about AssertHandler, for any number of contexts, assertions and  *)
(* failures.                                                               *)
(*                                                                         *)
(* The report is intact where contexts nest, as interrupts and callbacks   *)
(* do: Nested.  What makes it so is Exclusion: of the contexts that found  *)
(* have_entered_already clear, the most urgent one goes through first, and *)
(* whoever it kept from running has not touched the message yet.           *)
(***************************************************************************)
EXTENDS AssertHandler, FiniteSetTheorems, TLAPS

Nested == mode # "threads"

Fields == {"filename", "function", "expression"}

Reporting == {"safe", "consume", "publish", "again"}

\* The places at which a context has saved its part of the message.
Saved(field) ==
  Reporting \union
    (CASE field = "filename" -> {"clear function", "append function", "line",
                                 "clear expression", "append expression"}
       [] field = "function" -> {"line", "clear expression", "append expression"}
       [] field = "expression" -> {})

LineSaved == Reporting \union {"clear expression", "append expression"}

AppendPlace(field) ==
  CASE field = "filename" -> "append filename"
    [] field = "function" -> "append function"
    [] field = "expression" -> "append expression"

AllPlaces ==
  Reporting \union
    {"run", "check", "enter", "line",
     "clear filename", "append filename", "clear function", "append function",
     "clear expression", "append expression"}

\* The context has set have_entered_already and is still in the handler.
Active(c) == pc[c] \notin {"run", "check", "enter"}

Types ==
  /\ mode \in Modes
  /\ boot \in {"consumer", "publisher", "safe", "done"}
  /\ text \in [Fields -> Seq(Site)]
  /\ f_assert_line_number \in Site \union {"none"}
  /\ pc \in [Context -> AllPlaces]
  /\ site \in [Context -> Site]

Booleans ==
  /\ f_consumer_handler \in BOOLEAN /\ f_publisher_handler \in BOOLEAN
  /\ f_safe_state_handler \in BOOLEAN
  /\ have_entered_already \in BOOLEAN
  /\ safe \in BOOLEAN /\ early \in BOOLEAN

\* The counters; a sleep is only begun while the count is not over.
Counters ==
  /\ sleep_count \in [Context -> 0..Trigger + 1]
  /\ failures \in [Context -> 0..MaxFailures]
  /\ \A c \in Context : pc[c] \in {"consume", "again"} => sleep_count[c] <= Trigger

\* The flag is set while a context is active, and then no other is: one that
\* is less urgent waits, one that is more urgent is turned away.
Exclusion ==
  Nested =>
    /\ have_entered_already <=> \E c \in Context : Active(c)
    /\ \A c, d \in Context :
         /\ Active(c) /\ Active(d) => c = d
         /\ Active(c) /\ d > c => pc[d] # "enter"

\* The part of the message that the active context has saved is its own.
MessageInv ==
  Nested =>
    /\ \A c \in Context, field \in Fields :
         /\ pc[c] \in Saved(field) => text[field] = <<site[c]>>
         /\ pc[c] = AppendPlace(field) => text[field] = <<>>
    /\ \A c \in Context : pc[c] \in LineSaved => f_assert_line_number = site[c]
    /\ \A field \in Fields : Len(text[field]) <= 1

\* A text holds at most one name for each context that has saved its own and,
\* the handler not returning, is still in it.
CountInv ==
  ~UnitTesting =>
    \A field \in Fields :
      Len(text[field]) <= Cardinality({c \in Context : pc[c] \in Saved(field)})

Report(s) ==
  [filename |-> <<s>>, function |-> <<s>>, expression |-> <<s>>, line |-> s]

\* On the target a report is that of the context that is still reporting.
ReportInv ==
  Nested =>
    /\ published # Nothing => \E s \in Site : published = Report(s)
    /\ published # Nothing /\ ~UnitTesting =>
         \E c \in Context : /\ pc[c] \in {"consume", "publish", "again"}
                            /\ published = Report(site[c])

\* Unless an assertion failed too early, the callbacks were in place, and no
\* longer change, when one failed.
SafeInv ==
  ~early =>
    /\ (\E c \in Context : pc[c] # "run") \/ published # Nothing => boot = "done"
    /\ f_safe_state_handler =>
         /\ \A c \in Context : pc[c] \in {"consume", "publish", "again"} => safe
         /\ published # Nothing => safe

IInv ==
  /\ Types /\ Booleans /\ Counters
  /\ Exclusion /\ MessageInv /\ CountInv /\ ReportInv /\ SafeInv
-----------------------------------------------------------------------------
(* What the steps do to the contexts' places.                              *)

ClearPlace(field) ==
  CASE field = "filename" -> "clear filename"
    [] field = "function" -> "clear function"
    [] field = "expression" -> "clear expression"

\* Where a context goes when it has appended to a text.
NextPlace(field) ==
  CASE field = "filename" -> "clear function"
    [] field = "function" -> "line"
    [] field = "expression" -> "safe"

ClearText(c, field) ==
  /\ Goto(c, ClearPlace(field), AppendPlace(field))
  /\ text' = [text EXCEPT ![field] = <<>>]
  /\ UNCHANGED <<handlers, have_entered_already, f_assert_line_number, site,
                 sleep_count, failures, history>>

AppendText(c, field) ==
  /\ Goto(c, AppendPlace(field), NextPlace(field))
  /\ text' = [text EXCEPT ![field] = Append(@, site[c])]
  /\ UNCHANGED <<handlers, have_entered_already, f_assert_line_number, site,
                 sleep_count, failures, history>>

\* The two steps of saving each of the texts.
LEMMA SaveTextForms ==
  ASSUME NEW c \in Context, SaveText(c)
  PROVE  \E field \in Fields : ClearText(c, field) \/ AppendText(c, field)
<1>1. PICK step \in Saving :
        /\ \/ /\ Goto(c, step[2], step[3])
              /\ text' = [text EXCEPT ![step[1]] = <<>>]
           \/ /\ Goto(c, step[3], step[4])
              /\ text' = [text EXCEPT ![step[1]] = Append(@, site[c])]
        /\ UNCHANGED <<handlers, have_entered_already, f_assert_line_number, site,
                       sleep_count, failures, history>>
  BY DEF SaveText
<1>2. CASE step = <<"filename", "clear filename", "append filename", "clear function">>
  <2>1. ClearText(c, "filename") \/ AppendText(c, "filename")
    BY <1>1, <1>2 DEF ClearText, AppendText, ClearPlace, AppendPlace, NextPlace
  <2> QED
    BY <2>1 DEF Fields
<1>3. CASE step = <<"function", "clear function", "append function", "line">>
  <2>1. ClearText(c, "function") \/ AppendText(c, "function")
    BY <1>1, <1>3 DEF ClearText, AppendText, ClearPlace, AppendPlace, NextPlace
  <2> QED
    BY <2>1 DEF Fields
<1>4. CASE step = <<"expression", "clear expression", "append expression", "safe">>
  <2>1. ClearText(c, "expression") \/ AppendText(c, "expression")
    BY <1>1, <1>4 DEF ClearText, AppendText, ClearPlace, AppendPlace, NextPlace
  <2> QED
    BY <2>1 DEF Fields
<1> QED
  BY <1>2, <1>3, <1>4 DEF Saving

\* One context moves, and where contexts nest only if no more urgent one is in
\* the handler.
LEMMA GotoMoves ==
  ASSUME Types, NEW c \in Context, NEW from, NEW to \in AllPlaces, Goto(c, from, to)
  PROVE  /\ pc[c] = from /\ pc'[c] = to
         /\ \A d \in Context \ {c} : pc'[d] = pc[d]
         /\ pc' \in [Context -> AllPlaces]
         /\ Nested => \A d \in Context : d > c => pc[d] = "run"
  BY DEF Goto, Types, MayRun, Nested

\* The steps of an active context that leave it active.
WorkStep(c) ==
  \/ \E field \in Fields : ClearText(c, field) \/ AppendText(c, field)
  \/ SaveLine(c) \/ SafeState(c) \/ Sleep(c) \/ Publish(c) \/ Again(c)

LEMMA StepForms ==
  ASSUME NEW c \in Context, Step(c)
  PROVE  TurnAway(c) \/ Admit(c) \/ Enter(c) \/ Leave(c) \/ WorkStep(c)
  BY SaveTextForms DEF Step, WorkStep

LEMMA WorkMoves ==
  ASSUME Types, NEW c \in Context, WorkStep(c)
  PROVE  /\ Active(c) /\ Active(c)'
         /\ \A d \in Context \ {c} : pc'[d] = pc[d]
         /\ pc' \in [Context -> AllPlaces]
         /\ UNCHANGED <<have_entered_already, site, handlers, failures, early>>
<1>1. ASSUME NEW from \in AllPlaces \ {"run", "check", "enter"},
             NEW to \in AllPlaces \ {"run", "check", "enter"},
             Goto(c, from, to)
      PROVE  /\ Active(c) /\ Active(c)'
             /\ \A d \in Context \ {c} : pc'[d] = pc[d]
             /\ pc' \in [Context -> AllPlaces]
  BY <1>1, GotoMoves DEF Active
<1>2. CASE \E field \in Fields : ClearText(c, field) \/ AppendText(c, field)
  <2>1. PICK field \in Fields : ClearText(c, field) \/ AppendText(c, field)
    BY <1>2
  <2>2. {ClearPlace(field), AppendPlace(field), NextPlace(field)}
          \subseteq AllPlaces \ {"run", "check", "enter"}
    BY DEF Fields, ClearPlace, AppendPlace, NextPlace, AllPlaces, Reporting
  <2> QED
    BY <1>1, <2>1, <2>2 DEF ClearText, AppendText, history
<1>3. CASE SaveLine(c)
  <2>1. Goto(c, "line", "clear expression")
    BY <1>3 DEF SaveLine
  <2> QED
    BY <1>1, <1>3, <2>1 DEF SaveLine, history, AllPlaces, Reporting
<1>4. CASE SafeState(c)
  <2>1. Goto(c, "safe", "consume")
    BY <1>4 DEF SafeState
  <2> QED
    BY <1>1, <1>4, <2>1 DEF SafeState, AllPlaces, Reporting
<1>5. CASE Sleep(c)
  <2>1. \/ Goto(c, "consume", "publish")
        \/ Goto(c, "consume", "again")
    BY <1>5 DEF Sleep
  <2> QED
    BY <1>1, <1>5, <2>1 DEF Sleep, history, AllPlaces, Reporting
<1>6. CASE Publish(c)
  <2>1. Goto(c, "publish", "again")
    BY <1>6 DEF Publish
  <2> QED
    BY <1>1, <1>6, <2>1 DEF Publish, AllPlaces, Reporting
<1>7. CASE Again(c)
  <2>1. Goto(c, "again", "consume")
    BY <1>7 DEF Again
  <2> QED
    BY <1>1, <1>7, <2>1 DEF Again, history, AllPlaces, Reporting
<1> QED
  BY <1>2, <1>3, <1>4, <1>5, <1>6, <1>7 DEF WorkStep

-----------------------------------------------------------------------------
\* The bounds are natural numbers.
LEMMA Bounds == Contexts \in Nat /\ Trigger \in Nat /\ MaxFailures \in Nat
  BY AssertAssumption DEF AssertAssumption, Trigger

\* At first nothing has failed.
LEMMA InitInv == Init => IInv
<1> SUFFICES ASSUME Init
             PROVE  IInv
  OBVIOUS
<1>1. Types
  BY DEF Init, Types, Fields, AllPlaces
<1>2. Booleans
  BY DEF Init, Booleans
<1>3. Counters
  BY Bounds DEF Init, Counters
<1>4. Exclusion
  BY DEF Init, Exclusion, Active
<1>5. MessageInv
  BY DEF Init, MessageInv, Saved, AppendPlace, LineSaved, Reporting, Fields
<1>6. CountInv
  <2> SUFFICES ASSUME NEW field \in Fields
               PROVE  Len(text[field]) <= Cardinality({c \in Context : pc[c] \in Saved(field)})
    BY DEF CountInv
  <2>1. {c \in Context : pc[c] \in Saved(field)} = {} /\ Len(text[field]) = 0
    BY DEF Init, Saved, Reporting, Fields
  <2> QED
    BY <2>1, FS_EmptySet
<1>7. ReportInv /\ SafeInv
  BY DEF Init, ReportInv, SafeInv
<1> QED
  BY <1>1, <1>2, <1>3, <1>4, <1>5, <1>6, <1>7 DEF IInv

-----------------------------------------------------------------------------
(* Each part of the invariant in turn.                                     *)

\* A step by one context, whatever it is.
ContextStep == \E c \in Context : (\E s \in Site : Fail(c, s)) \/ Step(c)

\* The variables keep to their types.
LEMMA TypesKept == Types /\ Booleans /\ UNCHANGED mode /\ ContextStep => Types' /\ Booleans'
<1> SUFFICES ASSUME Types, Booleans, UNCHANGED mode, ContextStep
             PROVE  Types' /\ Booleans'
  OBVIOUS
<1>1. PICK c \in Context : (\E s \in Site : Fail(c, s)) \/ Step(c)
  BY DEF ContextStep
<1>2. CASE \E s \in Site : Fail(c, s)
  <2>1. pc' \in [Context -> AllPlaces]
    BY <1>2, GotoMoves DEF Fail, AllPlaces
  <2>2. site' \in [Context -> Site]
    BY <1>2 DEF Fail, Types
  <2>3. Types'
    BY <1>2, <2>1, <2>2 DEF Fail, Types, handlers, message
  <2>4. Booleans'
    BY <1>2 DEF Fail, Booleans, handlers
  <2> QED
    BY <2>3, <2>4
<1>3. CASE TurnAway(c) \/ Admit(c) \/ Enter(c) \/ Leave(c)
  <2>1. pc' \in [Context -> AllPlaces]
    BY <1>3, GotoMoves DEF TurnAway, Admit, Enter, Leave, AllPlaces
  <2>2. Types'
    BY <1>3, <2>1 DEF TurnAway, Admit, Enter, Leave, Types, handlers, message
  <2>3. Booleans'
    BY <1>3 DEF TurnAway, Admit, Enter, Leave, Booleans, handlers, history
  <2> QED
    BY <2>2, <2>3
<1>4. CASE WorkStep(c)
  <2>1. /\ pc' \in [Context -> AllPlaces]
        /\ UNCHANGED <<have_entered_already, site, handlers, early>>
    BY <1>4, WorkMoves
  <2>2. text' \in [Fields -> Seq(Site)]
    <3>1. site[c] \in Site
      BY DEF Types
    <3>2. CASE \E field \in Fields : ClearText(c, field) \/ AppendText(c, field)
      <4>1. PICK field \in Fields : ClearText(c, field) \/ AppendText(c, field)
        BY <3>2
      <4>2. text[field] \in Seq(Site)
        BY DEF Types
      <4>3. <<>> \in Seq(Site) /\ Append(text[field], site[c]) \in Seq(Site)
        BY <3>1, <4>2
      <4> QED
        BY <4>1, <4>3 DEF ClearText, AppendText, Types
    <3>3. CASE SaveLine(c) \/ SafeState(c) \/ Sleep(c) \/ Publish(c) \/ Again(c)
      BY <3>3 DEF SaveLine, SafeState, Sleep, Publish, Again, message, Types
    <3> QED
      BY <1>4, <3>2, <3>3 DEF WorkStep
  <2>3. f_assert_line_number' \in Site \union {"none"}
    BY <1>4 DEF WorkStep, ClearText, AppendText, SaveLine, SafeState, Sleep, Publish, Again,
                message, Types
  <2>4. safe' \in BOOLEAN
    BY <1>4 DEF WorkStep, ClearText, AppendText, SaveLine, SafeState, Sleep, Publish, Again,
                history, Booleans
  <2> QED
    BY <2>1, <2>2, <2>3, <2>4 DEF Types, Booleans, handlers
<1> QED
  BY <1>1, <1>2, <1>3, <1>4, StepForms

\* The counters stay in their ranges.
LEMMA CountersKept ==
  Types /\ Counters /\ UNCHANGED mode /\ ContextStep => Counters'
<1> SUFFICES ASSUME Types, Counters, UNCHANGED mode, ContextStep
             PROVE  Counters'
  OBVIOUS
<1>1. PICK c \in Context : (\E s \in Site : Fail(c, s)) \/ Step(c)
  BY DEF ContextStep
<1>2. UNCHANGED Trigger
  BY DEF Trigger, UnitTesting
<1>3. CASE \E s \in Site : Fail(c, s)
  <2>1. \A d \in Context \ {c} : pc'[d] = pc[d]
    BY <1>3, GotoMoves DEF Fail, AllPlaces
  <2>2. pc'[c] = "check" /\ UNCHANGED sleep_count
    BY <1>3, GotoMoves DEF Fail, AllPlaces
  <2>3. failures' \in [Context -> 0..MaxFailures]
    BY <1>3, Bounds DEF Fail, Counters
  <2> QED
    BY <1>2, <2>1, <2>2, <2>3 DEF Counters
<1>4. CASE TurnAway(c) \/ Admit(c) \/ Enter(c) \/ Leave(c)
  <2>1. /\ pc'[c] \in {"run", "enter", "clear filename"}
        /\ \A d \in Context \ {c} : pc'[d] = pc[d]
    BY <1>4, GotoMoves DEF TurnAway, Admit, Enter, Leave, AllPlaces
  <2>2. UNCHANGED <<sleep_count, failures>>
    BY <1>4 DEF TurnAway, Admit, Enter, Leave
  <2> QED
    BY <1>2, <2>1, <2>2 DEF Counters
<1>5. CASE WorkStep(c)
  <2>1. (\A d \in Context \ {c} : pc'[d] = pc[d]) /\ UNCHANGED failures
    BY <1>5, WorkMoves
  <2>2. CASE \E field \in Fields : ClearText(c, field) \/ AppendText(c, field)
    <3>1. PICK field \in Fields : ClearText(c, field) \/ AppendText(c, field)
      BY <2>2
    <3>2. /\ AppendPlace(field) \in AllPlaces \ {"consume", "again"}
          /\ NextPlace(field) \in AllPlaces \ {"consume", "again"}
      BY DEF Fields, AppendPlace, NextPlace, AllPlaces, Reporting
    <3>3. pc'[c] \notin {"consume", "again"} /\ UNCHANGED sleep_count
      BY <3>1, <3>2, GotoMoves DEF ClearText, AppendText
    <3> QED
      BY <1>2, <2>1, <3>3 DEF Counters
  <2>3. CASE SaveLine(c)
    <3>1. pc'[c] = "clear expression" /\ UNCHANGED sleep_count
      BY <2>3, GotoMoves DEF SaveLine, AllPlaces
    <3> QED
      BY <1>2, <2>1, <3>1 DEF Counters
  <2>4. CASE SafeState(c) \/ Publish(c)
    <3>1. sleep_count' = [sleep_count EXCEPT ![c] = 0]
      BY <2>4 DEF SafeState, Publish
    <3> QED
      BY <1>2, <2>1, <3>1, Bounds DEF Counters
  <2>5. CASE Sleep(c)
    <3>1. /\ pc[c] = "consume"
          /\ pc'[c] = IF sleep_count[c] + 1 > Trigger THEN "publish" ELSE "again"
          /\ sleep_count' = [sleep_count EXCEPT ![c] = @ + 1]
      BY <2>5, GotoMoves DEF Sleep, AllPlaces, Reporting
    <3>2. sleep_count[c] \in 0..Trigger
      BY <3>1, Bounds DEF Counters
    <3>3. sleep_count'[c] = sleep_count[c] + 1
      BY <3>1 DEF Counters
    <3>4. sleep_count' \in [Context -> 0..Trigger + 1]
      BY <3>1, <3>2, Bounds DEF Counters
    <3>5. pc'[c] \in {"consume", "again"} => sleep_count'[c] <= Trigger
      BY <3>1, <3>2, <3>3, Bounds
    <3>6. \A d \in Context \ {c} : sleep_count'[d] = sleep_count[d]
      BY <3>1 DEF Counters
    <3> QED
      BY <1>2, <2>1, <3>4, <3>5, <3>6 DEF Counters
  <2>6. CASE Again(c)
    <3>1. pc[c] = "again" /\ UNCHANGED sleep_count
      BY <2>6 DEF Again, Goto
    <3> QED
      BY <1>2, <2>1, <3>1 DEF Counters
  <2> QED
    BY <1>5, <2>2, <2>3, <2>4, <2>5, <2>6 DEF WorkStep
<1> QED
  BY <1>1, <1>3, <1>4, <1>5, StepForms

\* A context becomes active only when no other is.
LEMMA ExclusionKept ==
  Types /\ Exclusion /\ UNCHANGED mode /\ ContextStep => Exclusion'
<1> SUFFICES ASSUME Types, Exclusion, UNCHANGED mode, ContextStep, Nested
             PROVE  /\ have_entered_already' <=> \E c \in Context : Active(c)'
                    /\ \A c, d \in Context :
                         /\ Active(c)' /\ Active(d)' => c = d
                         /\ Active(c)' /\ d > c => pc'[d] # "enter"
  BY DEF Exclusion, Nested
<1>1. PICK c \in Context : (\E s \in Site : Fail(c, s)) \/ Step(c)
  BY DEF ContextStep
<1>2. /\ have_entered_already <=> \E d \in Context : Active(d)
      /\ \A d, e \in Context :
           /\ Active(d) /\ Active(e) => d = e
           /\ Active(d) /\ e > d => pc[e] # "enter"
  BY DEF Exclusion
<1>3. CASE (\E s \in Site : Fail(c, s)) \/ TurnAway(c)
  <2>1. /\ pc[c] \in {"run", "check"} /\ pc'[c] \in {"run", "check"}
        /\ \A d \in Context \ {c} : pc'[d] = pc[d]
        /\ UNCHANGED have_entered_already
    BY <1>3, GotoMoves DEF Fail, TurnAway, AllPlaces
  <2> QED
    BY <1>2, <2>1 DEF Active
<1>4. CASE Admit(c)
  <2>1. /\ pc[c] = "check" /\ pc'[c] = "enter"
        /\ \A d \in Context \ {c} : pc'[d] = pc[d]
        /\ ~have_entered_already /\ UNCHANGED have_entered_already
    BY <1>4, GotoMoves DEF Admit, AllPlaces
  <2> QED
    BY <1>2, <2>1 DEF Active
<1>5. CASE Enter(c)
  <2>1. /\ pc[c] = "enter" /\ pc'[c] = "clear filename"
        /\ \A d \in Context \ {c} : pc'[d] = pc[d]
        /\ \A d \in Context : d > c => pc[d] = "run"
        /\ have_entered_already' = TRUE
    BY <1>5, GotoMoves DEF Enter, AllPlaces
  <2>2. \A d \in Context \ {c} : ~Active(d)
    <3> SUFFICES ASSUME NEW d \in Context \ {c}, Active(d)
                 PROVE  FALSE
      OBVIOUS
    <3>1. d \in Int /\ c \in Int
      BY Bounds DEF Context
    <3>2. CASE d > c
      BY <2>1, <3>2 DEF Active
    <3>3. CASE c > d
      BY <1>2, <2>1, <3>3
    <3> QED
      BY <3>1, <3>2, <3>3
  <2> QED
    BY <1>2, <2>1, <2>2 DEF Active
<1>6. CASE Leave(c)
  <2>1. /\ pc[c] = "again" /\ pc'[c] = "run"
        /\ \A d \in Context \ {c} : pc'[d] = pc[d]
        /\ have_entered_already' = FALSE
    BY <1>6, GotoMoves DEF Leave, AllPlaces
  <2> QED
    BY <1>2, <2>1 DEF Active
<1>7. CASE WorkStep(c)
  <2>1. /\ Active(c) /\ Active(c)'
        /\ \A d \in Context \ {c} : pc'[d] = pc[d]
        /\ UNCHANGED have_entered_already
    BY <1>7, WorkMoves
  <2> QED
    BY <1>2, <2>1 DEF Active
<1> QED
  BY <1>1, <1>3, <1>4, <1>5, <1>6, <1>7, StepForms

\* Where the parts of the message are saved, and that once is for good.
LEMMA PlacesInOrder ==
  \A f, g \in Fields :
    /\ AppendPlace(f) = AppendPlace(g) => f = g
    /\ NextPlace(f) # AppendPlace(g)
    /\ AppendPlace(f) \notin Saved(f) /\ NextPlace(f) \in Saved(f)
    /\ ClearPlace(f) \in Saved(g) <=> AppendPlace(f) \in Saved(g)
    /\ AppendPlace(f) \in Saved(g) => NextPlace(f) \in Saved(g)
    /\ NextPlace(f) \in Saved(g) => g = f \/ AppendPlace(f) \in Saved(g)
    /\ AppendPlace(f) \in LineSaved => ClearPlace(f) \in LineSaved
    /\ NextPlace(f) \in LineSaved => AppendPlace(f) \in LineSaved
<1> SUFFICES ASSUME NEW f \in Fields, NEW g \in Fields
             PROVE  /\ AppendPlace(f) = AppendPlace(g) => f = g
                    /\ NextPlace(f) # AppendPlace(g)
                    /\ AppendPlace(f) \notin Saved(f) /\ NextPlace(f) \in Saved(f)
                    /\ ClearPlace(f) \in Saved(g) <=> AppendPlace(f) \in Saved(g)
                    /\ AppendPlace(f) \in Saved(g) => NextPlace(f) \in Saved(g)
                    /\ NextPlace(f) \in Saved(g) => g = f \/ AppendPlace(f) \in Saved(g)
                    /\ AppendPlace(f) \in LineSaved => ClearPlace(f) \in LineSaved
                    /\ NextPlace(f) \in LineSaved => AppendPlace(f) \in LineSaved
  OBVIOUS
<1>1. CASE f = "filename"
  BY <1>1 DEF Fields, AppendPlace, NextPlace, ClearPlace, Saved, LineSaved, Reporting
<1>2. CASE f = "function"
  BY <1>2 DEF Fields, AppendPlace, NextPlace, ClearPlace, Saved, LineSaved, Reporting
<1>3. CASE f = "expression"
  BY <1>3 DEF Fields, AppendPlace, NextPlace, ClearPlace, Saved, LineSaved, Reporting
<1> QED
  BY <1>1, <1>2, <1>3 DEF Fields

\* Outside the handler, and on the way in, nothing is saved.
LEMMA NothingSavedYet ==
  \A field \in Fields :
    /\ {"run", "check", "enter", "clear filename"} \intersect Saved(field) = {}
    /\ AppendPlace(field) \notin {"run", "check", "enter", "clear filename"}
    /\ {"run", "check", "enter", "clear filename"} \intersect LineSaved = {}
    /\ "publish" \in Saved(field) /\ "publish" \in LineSaved
    /\ AppendPlace(field) \notin Reporting \union {"line", "clear expression"}
    /\ Reporting \subseteq Saved(field) /\ Reporting \subseteq LineSaved
    /\ "line" \in Saved(field) <=> "clear expression" \in Saved(field)
    /\ "line" \notin LineSaved
  BY DEF Fields, Saved, LineSaved, AppendPlace, Reporting

\* What is saved of the active context's message stays its own.
LEMMA MessageKept ==
  Types /\ Exclusion /\ MessageInv /\ UNCHANGED mode /\ ContextStep => MessageInv'
<1> SUFFICES ASSUME Types, Exclusion, MessageInv, UNCHANGED mode, ContextStep, Nested
             PROVE  /\ \A c \in Context, field \in Fields :
                         /\ pc'[c] \in Saved(field) => text'[field] = <<site'[c]>>
                         /\ pc'[c] = AppendPlace(field) => text'[field] = <<>>
                    /\ \A c \in Context : pc'[c] \in LineSaved => f_assert_line_number' = site'[c]
                    /\ \A field \in Fields : Len(text'[field]) <= 1
  BY DEF MessageInv, Nested
<1>1. PICK c \in Context : (\E s \in Site : Fail(c, s)) \/ Step(c)
  BY DEF ContextStep
<1>2. /\ \A d \in Context, field \in Fields :
           /\ pc[d] \in Saved(field) => text[field] = <<site[d]>>
           /\ pc[d] = AppendPlace(field) => text[field] = <<>>
      /\ \A d \in Context : pc[d] \in LineSaved => f_assert_line_number = site[d]
      /\ \A field \in Fields : Len(text[field]) <= 1
  BY DEF MessageInv
<1>3. CASE (\E s \in Site : Fail(c, s)) \/ TurnAway(c) \/ Admit(c) \/ Enter(c) \/ Leave(c)
  <2>1. /\ pc'[c] \in {"run", "check", "enter", "clear filename"}
        /\ \A d \in Context \ {c} : pc'[d] = pc[d]
    BY <1>3, GotoMoves DEF Fail, TurnAway, Admit, Enter, Leave, AllPlaces
  <2>2. /\ \A d \in Context \ {c} : site'[d] = site[d]
        /\ UNCHANGED <<text, f_assert_line_number>>
    BY <1>3 DEF Fail, TurnAway, Admit, Enter, Leave, message, Types
  <2>3. ASSUME NEW d \in Context, NEW field \in Fields
        PROVE  /\ pc'[d] \in Saved(field) => text'[field] = <<site'[d]>>
               /\ pc'[d] = AppendPlace(field) => text'[field] = <<>>
    <3>1. CASE d = c
      <4>1. pc'[d] \notin Saved(field) /\ pc'[d] # AppendPlace(field)
        BY <2>1, <3>1, NothingSavedYet
      <4> QED
        BY <4>1
    <3>2. CASE d # c
      BY <1>2, <2>1, <2>2, <3>2
    <3> QED
      BY <3>1, <3>2
  <2>4. ASSUME NEW d \in Context, pc'[d] \in LineSaved
        PROVE  f_assert_line_number' = site'[d]
    <3>1. "filename" \in Fields
      BY DEF Fields
    <3>2. d # c
      BY <2>1, <2>4, <3>1, NothingSavedYet
    <3> QED
      BY <1>2, <2>1, <2>2, <2>4, <3>2
  <2> QED
    BY <1>2, <2>2, <2>3, <2>4
<1>4. CASE WorkStep(c)
  <2>1. /\ UNCHANGED site
        /\ \A d \in Context \ {c} : pc'[d] \in {"run", "check", "enter"}
    <3>1. /\ Active(c) /\ UNCHANGED site
          /\ \A d \in Context \ {c} : pc'[d] = pc[d]
      BY <1>4, WorkMoves
    <3> QED
      BY <3>1 DEF Exclusion, Active
  <2>2. SUFFICES
          /\ \A field \in Fields :
               /\ pc'[c] \in Saved(field) => text'[field] = <<site[c]>>
               /\ pc'[c] = AppendPlace(field) => text'[field] = <<>>
          /\ pc'[c] \in LineSaved => f_assert_line_number' = site[c]
          /\ \A field \in Fields : Len(text'[field]) <= 1
    <3>1. "filename" \in Fields
      BY DEF Fields
    <3>2. \A d \in Context \ {c}, field \in Fields :
            pc'[d] \notin Saved(field) /\ pc'[d] # AppendPlace(field)
      BY <2>1, NothingSavedYet
    <3>3. \A d \in Context \ {c} : pc'[d] \notin LineSaved
      BY <2>1, <3>1, NothingSavedYet
    <3> QED
      BY <2>1, <3>2, <3>3
  <2>3. ASSUME NEW f \in Fields, ClearText(c, f) \/ AppendText(c, f)
        PROVE  /\ \A field \in Fields :
                    /\ pc'[c] \in Saved(field) => text'[field] = <<site[c]>>
                    /\ pc'[c] = AppendPlace(field) => text'[field] = <<>>
               /\ pc'[c] \in LineSaved => f_assert_line_number' = site[c]
               /\ \A field \in Fields : Len(text'[field]) <= 1
    <3>1. {AppendPlace(f), NextPlace(f)} \subseteq AllPlaces
      BY DEF Fields, AppendPlace, NextPlace, AllPlaces, Reporting
    <3>2. UNCHANGED f_assert_line_number
      BY <2>3 DEF ClearText, AppendText
    <3>3. CASE ClearText(c, f)
      <4>1. pc[c] = ClearPlace(f) /\ pc'[c] = AppendPlace(f)
        BY <3>1, <3>3, GotoMoves DEF ClearText
      <4>2. text'[f] = <<>> /\ \A g \in Fields \ {f} : text'[g] = text[g]
        BY <3>3 DEF ClearText, Types
      <4> QED
        BY <1>2, <3>2, <4>1, <4>2, PlacesInOrder
    <3>4. CASE AppendText(c, f)
      <4>1. pc[c] = AppendPlace(f) /\ pc'[c] = NextPlace(f)
        BY <3>1, <3>4, GotoMoves DEF AppendText
      <4>2. text[f] = <<>>
        BY <1>2, <4>1
      <4>3. text' = [text EXCEPT ![f] = Append(text[f], site[c])]
        BY <3>4 DEF AppendText
      <4>4. Append(<<>>, site[c]) = <<site[c]>>
        OBVIOUS
      <4>5. text'[f] = <<site[c]>> /\ \A g \in Fields \ {f} : text'[g] = text[g]
        BY <4>2, <4>3, <4>4 DEF Types
      <4>6. ASSUME NEW g \in Fields
            PROVE  /\ pc'[c] \in Saved(g) => text'[g] = <<site[c]>>
                   /\ pc'[c] = AppendPlace(g) => text'[g] = <<>>
                   /\ Len(text'[g]) <= 1
        <5>1. pc'[c] # AppendPlace(g)
          BY <4>1, PlacesInOrder
        <5>2. CASE g = f
          <6>1. text'[g] = <<site[c]>>
            BY <4>5, <5>2
          <6>2. Len(<<site[c]>>) = 1
            OBVIOUS
          <6> QED
            BY <5>1, <6>1, <6>2
        <5>3. CASE g # f
          <6>1. text'[g] = text[g]
            BY <4>5, <5>3
          <6>2. pc'[c] \in Saved(g) => pc[c] \in Saved(g)
            BY <4>1, <5>3, PlacesInOrder
          <6> QED
            BY <1>2, <5>1, <6>1, <6>2
        <5> QED
          BY <5>2, <5>3
      <4>7. pc'[c] \in LineSaved => f_assert_line_number' = site[c]
        BY <1>2, <3>2, <4>1, PlacesInOrder
      <4> QED
        BY <4>6, <4>7
    <3> QED
      BY <2>3, <3>3, <3>4
  <2>4. CASE SaveLine(c)
    <3>1. /\ pc[c] = "line" /\ pc'[c] = "clear expression"
          /\ UNCHANGED text /\ f_assert_line_number' = site[c]
      BY <2>4, GotoMoves DEF SaveLine, AllPlaces
    <3>2. ASSUME NEW g \in Fields
          PROVE  /\ pc'[c] \in Saved(g) => text'[g] = <<site[c]>>
                 /\ pc'[c] = AppendPlace(g) => text'[g] = <<>>
                 /\ Len(text'[g]) <= 1
      BY <1>2, <3>1, NothingSavedYet
    <3> QED
      BY <3>1, <3>2
  <2>5. CASE SafeState(c) \/ Sleep(c) \/ Publish(c) \/ Again(c)
    <3>1. pc[c] \in Reporting /\ pc'[c] \in Reporting
      BY <2>5, GotoMoves DEF SafeState, Sleep, Publish, Again, AllPlaces, Reporting
    <3>2. UNCHANGED <<text, f_assert_line_number>>
      BY <2>5 DEF SafeState, Sleep, Publish, Again, message
    <3>3. ASSUME NEW g \in Fields
          PROVE  /\ pc'[c] # AppendPlace(g)
                 /\ text'[g] = <<site[c]>> /\ f_assert_line_number' = site[c]
                 /\ Len(text'[g]) <= 1
      <4>1. pc[c] \in Saved(g) /\ pc[c] \in LineSaved /\ pc'[c] # AppendPlace(g)
        BY <3>1, NothingSavedYet
      <4> QED
        BY <1>2, <3>2, <4>1
    <3>4. "filename" \in Fields
      BY DEF Fields
    <3> QED
      BY <3>3, <3>4
  <2> QED
    BY <1>4, <2>3, <2>4, <2>5 DEF WorkStep
<1> QED
  BY <1>1, <1>3, <1>4, StepForms

\* A name is added to a text by a context that has not been there before.
LEMMA CountKept ==
  Types /\ CountInv /\ UNCHANGED mode /\ ContextStep => CountInv'
<1> SUFFICES ASSUME Types, CountInv, UNCHANGED mode, ContextStep, ~UnitTesting,
                    NEW g \in Fields
             PROVE  Len(text'[g]) <= Cardinality({d \in Context : pc'[d] \in Saved(g)})
  BY DEF CountInv, UnitTesting
<1> DEFINE Here  == {d \in Context : pc[d] \in Saved(g)}
           There == {d \in Context : pc'[d] \in Saved(g)}
<1>1. PICK c \in Context : (\E s \in Site : Fail(c, s)) \/ Step(c)
  BY DEF ContextStep
<1>2. IsFiniteSet(Here) /\ IsFiniteSet(There)
  <2>1. IsFiniteSet(Context)
    BY Bounds, FS_Interval DEF Context
  <2> QED
    BY <2>1, FS_Subset
<1>3. Len(text[g]) <= Cardinality(Here) /\ text[g] \in Seq(Site)
  BY DEF CountInv, Types
<1>4. /\ Cardinality(Here) \in Nat /\ Cardinality(There) \in Nat /\ Len(text[g]) \in Nat
      /\ Here \subseteq There => Cardinality(Here) <= Cardinality(There)
  BY <1>2, <1>3, FS_CardinalityType, FS_Subset
<1>5. CASE (\E s \in Site : Fail(c, s)) \/ TurnAway(c) \/ Admit(c) \/ Enter(c)
  <2>1. /\ pc[c] \in {"run", "check", "enter", "clear filename"}
        /\ \A d \in Context \ {c} : pc'[d] = pc[d]
    BY <1>5, GotoMoves DEF Fail, TurnAway, Admit, Enter, AllPlaces
  <2>2. Here \subseteq There
    BY <2>1, NothingSavedYet
  <2>3. UNCHANGED text
    BY <1>5 DEF Fail, TurnAway, Admit, Enter, message
  <2> QED
    BY <1>3, <1>4, <2>2, <2>3
<1>6. CASE WorkStep(c)
  <2>1. \A d \in Context \ {c} : pc'[d] = pc[d]
    BY <1>6, WorkMoves
  <2>2. ASSUME NEW f \in Fields, ClearText(c, f) \/ AppendText(c, f)
        PROVE  Len(text'[g]) <= Cardinality(There)
    <3>1. {AppendPlace(f), NextPlace(f)} \subseteq AllPlaces
      BY DEF Fields, AppendPlace, NextPlace, AllPlaces, Reporting
    <3>2. CASE ClearText(c, f)
      <4>1. pc[c] = ClearPlace(f) /\ pc'[c] = AppendPlace(f)
        BY <3>1, <3>2, GotoMoves DEF ClearText
      <4>2. Here \subseteq There
        BY <2>1, <4>1, PlacesInOrder
      <4>3. text'[g] = <<>> \/ text'[g] = text[g]
        BY <3>2 DEF ClearText, Types
      <4>4. Len(<<>>) = 0
        OBVIOUS
      <4> QED
        BY <1>3, <1>4, <4>2, <4>3, <4>4
    <3>3. CASE AppendText(c, f)
      <4>1. pc[c] = AppendPlace(f) /\ pc'[c] = NextPlace(f)
        BY <3>1, <3>3, GotoMoves DEF AppendText
      <4>2. Here \subseteq There
        BY <2>1, <4>1, PlacesInOrder
      <4>3. CASE g # f
        <5>1. text'[g] = text[g]
          BY <3>3, <4>3 DEF AppendText, Types
        <5> QED
          BY <1>3, <1>4, <4>2, <5>1
      <4>4. CASE g = f
        <5>1. c \notin Here /\ Here \union {c} \subseteq There
          BY <2>1, <4>1, <4>2, <4>4, PlacesInOrder
        <5>2. Cardinality(Here \union {c}) = Cardinality(Here) + 1
          BY <1>2, <5>1, FS_AddElement
        <5>3. Cardinality(Here) + 1 <= Cardinality(There)
          BY <1>2, <5>1, <5>2, FS_Subset
        <5>4. text'[g] = Append(text[g], site[c])
          BY <3>3, <4>4 DEF AppendText, Types
        <5>5. Len(Append(text[g], site[c])) = Len(text[g]) + 1
          BY <1>3 DEF Types
        <5> QED
          BY <1>3, <1>4, <5>3, <5>4, <5>5
      <4> QED
        BY <4>3, <4>4
    <3> QED
      BY <2>2, <3>2, <3>3
  <2>3. CASE SaveLine(c) \/ SafeState(c) \/ Sleep(c) \/ Publish(c) \/ Again(c)
    <3>1. \/ pc[c] = "line" /\ pc'[c] = "clear expression"
          \/ pc[c] \in Reporting /\ pc'[c] \in Reporting
      BY <2>3, GotoMoves DEF SaveLine, SafeState, Sleep, Publish, Again, AllPlaces, Reporting
    <3>2. Here \subseteq There
      BY <2>1, <3>1, NothingSavedYet
    <3>3. UNCHANGED text
      BY <2>3 DEF SaveLine, SafeState, Sleep, Publish, Again, message
    <3> QED
      BY <1>3, <1>4, <3>2, <3>3
  <2> QED
    BY <1>6, <2>2, <2>3 DEF WorkStep
<1>7. CASE Leave(c)
  BY <1>7 DEF Leave
<1> QED
  BY <1>1, <1>5, <1>6, <1>7, StepForms

\* A context steps only in the handler; where it reports, these are its steps.
LEMMA ReportingSteps ==
  ASSUME NEW c \in Context, Step(c)
  PROVE  /\ pc[c] # "run"
         /\ pc[c] \in {"consume", "publish", "again"}
              => Sleep(c) \/ Publish(c) \/ Again(c) \/ Leave(c)
<1>1. CASE TurnAway(c) \/ Admit(c) \/ Enter(c) \/ SaveLine(c) \/ SafeState(c)
  BY <1>1 DEF TurnAway, Admit, Enter, SaveLine, SafeState, Goto
<1>2. CASE SaveText(c)
  <2>1. PICK field \in Fields : ClearText(c, field) \/ AppendText(c, field)
    BY <1>2, SaveTextForms
  <2>2. {ClearPlace(field), AppendPlace(field)} \intersect {"run", "consume", "publish", "again"} = {}
    BY DEF Fields, ClearPlace, AppendPlace
  <2> QED
    BY <2>1, <2>2 DEF ClearText, AppendText, Goto
<1>3. CASE Sleep(c) \/ Publish(c) \/ Again(c) \/ Leave(c)
  <2>1. pc[c] \in {"consume", "publish", "again"}
    BY <1>3 DEF Sleep, Publish, Again, Leave, Goto
  <2> QED
    BY <1>3, <2>1
<1> QED
  BY <1>1, <1>2, <1>3 DEF Step

\* A report is what its context saved, and stands while that context reports.
LEMMA ReportKept ==
  Types /\ Exclusion /\ MessageInv /\ ReportInv /\ UNCHANGED mode /\ ContextStep
    => ReportInv'
<1> SUFFICES ASSUME Types, Exclusion, MessageInv, ReportInv, UNCHANGED mode, ContextStep,
                    Nested, published' # Nothing
             PROVE  /\ \E s \in Site : published' = Report(s)
                    /\ ~UnitTesting =>
                         \E d \in Context : /\ pc'[d] \in {"consume", "publish", "again"}
                                            /\ published' = Report(site'[d])
  BY DEF ReportInv, Nested, UnitTesting
<1> DEFINE Out == {"consume", "publish", "again"}
<1>1. PICK c \in Context : (\E s \in Site : Fail(c, s)) \/ Step(c)
  BY DEF ContextStep
<1>2. CASE Publish(c) /\ f_publisher_handler
  <2>1. pc[c] = "publish" /\ pc'[c] = "again" /\ UNCHANGED site
    BY <1>2, GotoMoves DEF Publish, AllPlaces, Reporting
  <2>2. /\ \A field \in Fields : text[field] = <<site[c]>>
        /\ f_assert_line_number = site[c]
    <3>1. \A field \in Fields : pc[c] \in Saved(field)
      BY <2>1, NothingSavedYet
    <3>2. pc[c] \in LineSaved
      BY <2>1 DEF LineSaved, Reporting
    <3> QED
      BY <3>1, <3>2 DEF MessageInv
  <2>3. published' = Report(site[c])
    BY <1>2, <2>2 DEF Publish, Report, Fields
  <2>4. site[c] \in Site
    BY DEF Types
  <2> QED
    BY <2>1, <2>3, <2>4
<1>3. CASE ~(Publish(c) /\ f_publisher_handler)
  <2>1. UNCHANGED published
    BY <1>1, <1>3 DEF Step, Fail, TurnAway, Admit, Enter, SaveText, SaveLine, SafeState, Sleep,
                      Publish, Again, Leave, history
  <2>2. \E s \in Site : published' = Report(s)
    BY <2>1 DEF ReportInv
  <2>3. ASSUME ~UnitTesting
        PROVE  \E d \in Context : pc'[d] \in Out /\ published' = Report(site'[d])
    <3>1. PICK d \in Context : pc[d] \in Out /\ published = Report(site[d])
      BY <2>1, <2>3 DEF ReportInv
    <3>2. CASE c = d
      <4>1. Sleep(c) \/ Publish(c) \/ Again(c)
        <5>1. pc[c] \in Out
          BY <3>1, <3>2
        <5>2. Step(c)
          BY <1>1, <5>1 DEF Fail, Goto
        <5> QED
          BY <2>3, <5>1, <5>2, ReportingSteps DEF Leave
      <4>2. pc'[c] \in Out /\ UNCHANGED site
        BY <4>1, GotoMoves DEF Sleep, Publish, Again, AllPlaces, Reporting
      <4> QED
        BY <2>1, <3>1, <3>2, <4>2
    <3>3. CASE c # d
      <4>1. pc'[d] = pc[d]
        BY <1>1, <3>3 DEF Step, Fail, TurnAway, Admit, Enter, SaveText, SaveLine, SafeState, Sleep,
                          Publish, Again, Leave, Goto, Types
      <4>2. site'[d] = site[d]
        BY <1>1, <3>3 DEF Step, Fail, TurnAway, Admit, Enter, SaveText, SaveLine, SafeState, Sleep,
                          Publish, Again, Leave, Types
      <4> QED
        BY <2>1, <3>1, <4>1, <4>2
    <3> QED
      BY <3>2, <3>3
  <2> QED
    BY <2>2, <2>3
<1> QED
  BY <1>2, <1>3

\* The handler of an assertion that fails when boot is done calls the safe
\* state function before it consumes or publishes anything.
LEMMA SafeKept ==
  Types /\ Booleans /\ SafeInv /\ ContextStep => SafeInv'
<1> SUFFICES ASSUME Types, Booleans, SafeInv, ContextStep, ~early'
             PROVE  /\ (\E d \in Context : pc'[d] # "run") \/ published' # Nothing
                         => boot' = "done"
                    /\ f_safe_state_handler' =>
                         /\ \A d \in Context :
                              pc'[d] \in {"consume", "publish", "again"} => safe'
                         /\ published' # Nothing => safe'
  BY DEF SafeInv
<1> DEFINE Out == {"consume", "publish", "again"}
<1>1. PICK c \in Context : (\E s \in Site : Fail(c, s)) \/ Step(c)
  BY DEF ContextStep
<1>2. UNCHANGED <<f_safe_state_handler, boot>>
  BY <1>1 DEF Step, Fail, TurnAway, Admit, Enter, SaveText, SaveLine, SafeState, Sleep,
              Publish, Again, Leave, handlers
<1>3. ~early /\ (safe => safe')
  <2>1. CASE \E s \in Site : Fail(c, s)
    <3>1. early' = (early \/ boot # "done") /\ safe' = safe
      BY <2>1 DEF Fail
    <3> QED
      BY <3>1, Zenon
  <2>2. CASE SafeState(c)
    BY <2>2 DEF SafeState
  <2>3. CASE ~SafeState(c) /\ Step(c)
    <3>1. early' = early /\ safe' = safe
      BY <2>3 DEF Step, TurnAway, Admit, Enter, SaveText, SaveLine, Sleep, Publish, Again, Leave,
                  history
    <3> QED
      BY <3>1, Zenon
  <2> QED
    BY <1>1, <2>1, <2>2, <2>3
<1>4. /\ (\E d \in Context : pc[d] # "run") \/ published # Nothing => boot = "done"
      /\ f_safe_state_handler =>
           /\ \A d \in Context : pc[d] \in Out => safe
           /\ published # Nothing => safe
  BY <1>3 DEF SafeInv
<1>5. \A d \in Context \ {c} : pc'[d] = pc[d]
  BY <1>1 DEF Step, Fail, TurnAway, Admit, Enter, SaveText, SaveLine, SafeState, Sleep,
              Publish, Again, Leave, Goto, Types
<1>6. CASE \E s \in Site : Fail(c, s)
  <2>1. boot = "done" /\ pc'[c] = "check" /\ UNCHANGED published
    BY <1>6, GotoMoves DEF Fail, AllPlaces
  <2> QED
    BY <1>2, <1>3, <1>4, <1>5, <2>1
<1>7. CASE Step(c)
  <2>1. boot = "done"
    <3>1. pc[c] # "run"
      BY <1>7, ReportingSteps
    <3> QED
      BY <1>4, <3>1
  <2>2. CASE SafeState(c)
    <3>1. UNCHANGED published /\ (f_safe_state_handler => safe')
      BY <2>2 DEF SafeState
    <3> QED
      BY <1>2, <2>1, <3>1
  <2>3. CASE Sleep(c) \/ Publish(c) \/ Again(c)
    <3>1. pc[c] \in Out
      BY <2>3 DEF Sleep, Publish, Again, Goto
    <3>2. f_safe_state_handler => safe'
      BY <1>3, <1>4, <3>1
    <3> QED
      BY <1>2, <2>1, <3>2
  <2>4. CASE TurnAway(c) \/ Admit(c) \/ Enter(c) \/ SaveText(c) \/ SaveLine(c) \/ Leave(c)
    <3>1. pc'[c] \notin Out
      <4>1. CASE TurnAway(c) \/ Admit(c) \/ Enter(c) \/ SaveLine(c) \/ Leave(c)
        <5>1. pc'[c] \in {"run", "enter", "clear filename", "clear expression"}
          BY <4>1, GotoMoves DEF TurnAway, Admit, Enter, SaveLine, Leave, AllPlaces
        <5> QED
          BY <5>1
      <4>2. CASE SaveText(c)
        <5>1. PICK field \in Fields : ClearText(c, field) \/ AppendText(c, field)
          BY <4>2, SaveTextForms
        <5>2. {AppendPlace(field), NextPlace(field)} \subseteq AllPlaces \ Out
          BY DEF Fields, AppendPlace, NextPlace, AllPlaces, Reporting
        <5> QED
          BY <5>1, <5>2, GotoMoves DEF ClearText, AppendText
      <4> QED
        BY <2>4, <4>1, <4>2
    <3>2. UNCHANGED published
      BY <2>4 DEF TurnAway, Admit, Enter, SaveText, SaveLine, Leave, history
    <3> QED
      BY <1>2, <1>3, <1>4, <1>5, <2>1, <3>1, <3>2
  <2> QED
    BY <1>7, <2>2, <2>3, <2>4 DEF Step
<1> QED
  BY <1>1, <1>6, <1>7

-----------------------------------------------------------------------------
(* The whole invariant.                                                    *)

\* Nothing but utilDevDebug_initialise sets the callbacks; no assertion has
\* failed before it is done, or it failed early.
LEMMA InitialiseKeeps ==
  ASSUME IInv, UNCHANGED mode, NEW set \in BOOLEAN, Initialise(set)
  PROVE  IInv'
<1>1. /\ UNCHANGED <<have_entered_already, text, f_assert_line_number, pc, site, sleep_count,
                     failures, safe, early, published>>
      /\ boot # "done" /\ boot' \in {"publisher", "safe", "done"}
  BY DEF Initialise, message, history
<1>2. Types'
  BY <1>1 DEF IInv, Types
<1>3. Booleans'
  BY DEF IInv, Booleans, Initialise, history
<1>4. Counters'
  BY <1>1 DEF IInv, Counters, Trigger, UnitTesting
<1>5. Exclusion' /\ MessageInv' /\ CountInv'
  BY <1>1 DEF IInv, Exclusion, MessageInv, CountInv, Nested, Active, UnitTesting
<1>6. ReportInv'
  BY <1>1 DEF IInv, ReportInv, Nested, UnitTesting
<1>7. SafeInv'
  <2> SUFFICES ASSUME ~early
               PROVE  (\A c \in Context : pc[c] = "run") /\ published = Nothing
    BY <1>1 DEF SafeInv
  <2> QED
    BY <1>1 DEF IInv, SafeInv
<1> QED
  BY <1>2, <1>3, <1>4, <1>5, <1>6, <1>7 DEF IInv

LEMMA NextInv == IInv /\ [Next]_vars => IInv'
<1> SUFFICES ASSUME IInv, [Next]_vars
             PROVE  IInv'
  OBVIOUS
<1>1. CASE UNCHANGED mode /\ \E set \in BOOLEAN : Initialise(set)
  BY <1>1, InitialiseKeeps
<1>2. CASE UNCHANGED mode /\ ContextStep
  <2>1. Types' /\ Booleans' /\ Counters' /\ Exclusion' /\ MessageInv'
    BY <1>2, TypesKept, CountersKept, ExclusionKept, MessageKept DEF IInv
  <2>2. CountInv' /\ ReportInv' /\ SafeInv'
    BY <1>2, CountKept, ReportKept, SafeKept DEF IInv
  <2> QED
    BY <2>1, <2>2 DEF IInv
<1>3. CASE UNCHANGED vars
  <2>1. UNCHANGED <<mode, f_consumer_handler, f_publisher_handler, f_safe_state_handler, boot,
                    have_entered_already, text, f_assert_line_number, pc, site, sleep_count,
                    failures, safe, early, published>>
    BY <1>3 DEF vars, handlers, message, history
  <2>2. Types' /\ Booleans'
    BY <2>1 DEF IInv, Types, Booleans
  <2>3. Counters'
    BY <2>1 DEF IInv, Counters, Trigger, UnitTesting
  <2>4. Exclusion' /\ MessageInv' /\ CountInv'
    BY <2>1 DEF IInv, Exclusion, MessageInv, CountInv, Nested, Active, UnitTesting
  <2>5. ReportInv' /\ SafeInv'
    BY <2>1 DEF IInv, ReportInv, SafeInv, Nested, UnitTesting
  <2> QED
    BY <2>2, <2>3, <2>4, <2>5 DEF IInv
<1> QED
  BY <1>1, <1>2, <1>3 DEF Next, ContextStep

LEMMA Invariant == Spec => []IInv
  BY InitInv, NextInv, PTL DEF Spec

\* What kind of program it is does not change.
LEMMA NestedForever == Spec /\ Nested => []Nested
<1>1. Nested /\ [Next]_vars => Nested'
  BY DEF Nested, Next, vars
<1> QED
  BY <1>1, PTL DEF Spec

-----------------------------------------------------------------------------
(* What the invariant is for.                                              *)

\* utilDevDebug.c:52-54, 176-198: the texts hold what their buffers were sized
\* for, and the variables keep to their types.
THEOREM TypeCorrect == Spec => []TypeOK
<1>1. IInv => TypeOK
  <2> SUFFICES ASSUME IInv
               PROVE  TypeOK
    OBVIOUS
  <2>1. Types /\ Booleans /\ Counters /\ MessageInv /\ CountInv
    BY DEF IInv
  <2>2. ASSUME NEW field \in DOMAIN text
        PROVE  Len(text[field]) <= (IF mode = "threads" THEN Contexts ELSE 1)
    <3>1. field \in Fields
      BY <2>1 DEF Types
    <3>2. CASE Nested
      BY <2>1, <3>1, <3>2 DEF MessageInv, Nested
    <3>3. CASE ~Nested
      <4> DEFINE Here == {c \in Context : pc[c] \in Saved(field)}
      <4>1. Len(text[field]) <= Cardinality(Here)
        BY <2>1, <3>1, <3>3 DEF CountInv, Nested, UnitTesting
      <4>2. IsFiniteSet(Context) /\ Cardinality(Context) = Contexts
        BY Bounds, FS_Interval DEF Context
      <4>3. Cardinality(Here) <= Contexts /\ Cardinality(Here) \in Nat
        BY <4>2, FS_Subset, FS_CardinalityType
      <4>4. Len(text[field]) \in Nat
        BY <2>1, <3>1 DEF Types
      <4> QED
        BY <3>3, <4>1, <4>3, <4>4, Bounds DEF Nested
    <3> QED
      BY <3>2, <3>3
  <2>3. AllPlaces \subseteq Places
    <3>1. /\ {"clear filename", "clear function", "clear expression"}
               \subseteq {step[2] : step \in Saving}
          /\ {"append filename", "append function", "append expression"}
               \subseteq {step[3] : step \in Saving}
      BY DEF Saving
    <3> QED
      BY <3>1 DEF AllPlaces, Places, Reporting
  <2>4. \A c \in Context : pc[c] \in Places /\ site[c] \in Site
    BY <2>1, <2>3 DEF Types
  <2>5. \A c \in Context : sleep_count[c] \in 0..Trigger + 1 /\ failures[c] \in 0..MaxFailures
    BY <2>1 DEF Counters
  <2>6. /\ mode \in Modes
        /\ handlers \in BOOLEAN \X BOOLEAN \X BOOLEAN \X {"consumer", "publisher", "safe", "done"}
        /\ have_entered_already \in BOOLEAN
        /\ f_assert_line_number \in Site \union {"none"}
        /\ safe \in BOOLEAN /\ early \in BOOLEAN
    BY <2>1 DEF Types, Booleans, handlers
  <2> QED
    BY <2>2, <2>4, <2>5, <2>6 DEF TypeOK
<1> QED
  BY <1>1, Invariant, PTL

\* utilDevDebug.h:48-53: where contexts nest, what the publisher is given is
\* one and the same assertion's.
THEOREM ReportsIntact == Spec /\ Nested => []MessageIntact
<1>1. IInv /\ Nested => MessageIntact
  BY DEF IInv, ReportInv, MessageIntact, Report
<1> QED
  BY <1>1, Invariant, NestedForever, PTL

\* utilDevDebug.c:32-34, 168-174: where contexts nest, the first report on the
\* target stands, whatever fails later.
THEOREM FirstReportStands == Spec /\ Nested => FirstReportKept
<1>1. IInv /\ Nested /\ [Next]_vars
        => [~UnitTesting /\ published # Nothing => published' = published]_vars
  <2> SUFFICES ASSUME IInv, Nested, Next, ~UnitTesting, published # Nothing
               PROVE  published' = published
    OBVIOUS
  <2>1. CASE \E c \in Context : Publish(c) /\ f_publisher_handler
    <3>1. PICK c \in Context : Publish(c) /\ f_publisher_handler
      BY <2>1
    <3>2. pc[c] = "publish"
      BY <3>1 DEF Publish, Goto
    <3>3. PICK d \in Context : /\ pc[d] \in {"consume", "publish", "again"}
                               /\ published = Report(site[d])
      BY DEF IInv, ReportInv
    <3>4. c = d
      BY <3>2, <3>3 DEF IInv, Exclusion, Active
    <3>5. /\ \A field \in Fields : text[field] = <<site[c]>>
          /\ f_assert_line_number = site[c]
      <4>1. \A field \in Fields : pc[c] \in Saved(field)
        BY <3>2, NothingSavedYet
      <4>2. pc[c] \in LineSaved
        BY <3>2 DEF LineSaved, Reporting
      <4> QED
        BY <4>1, <4>2 DEF IInv, MessageInv
    <3>6. published' = Report(site[c])
      BY <3>1, <3>5 DEF Publish, Report, Fields
    <3> QED
      BY <3>3, <3>4, <3>6
  <2>2. CASE ~\E c \in Context : Publish(c) /\ f_publisher_handler
    BY <2>2 DEF Next, Step, Initialise, Fail, TurnAway, Admit, Enter, SaveText, SaveLine,
                SafeState, Sleep, Publish, Again, Leave, history
  <2> QED
    BY <2>1, <2>2
<1> QED
  BY <1>1, Invariant, NestedForever, PTL DEF Spec, FirstReportKept

\* utilDevDebug.c:205-210: whatever the contexts do, in whatever order, no
\* report before the safe state function, when the callbacks were in place.
THEOREM SafeBeforeReport == Spec => []SafeStateFirst
<1>1. IInv => SafeStateFirst
  BY DEF IInv, SafeInv, SafeStateFirst
<1> QED
  BY <1>1, Invariant, PTL

\* utilDevDebug.c:32-34: under unit test the next assertion is reported too.
THEOREM ArmedAgain == Spec => []ReArmed
<1>1. IInv => ReArmed
  BY DEF IInv, Exclusion, Nested, Active, ReArmed, UnitTesting
<1> QED
  BY <1>1, Invariant, PTL
=============================================================================
