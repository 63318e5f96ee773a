-------------------------------- MODULE Fifo --------------------------------
(***************************************************************************)
(* What a queue of lib/common/api/queues.h promises its two users, without *)
(* saying how: a bounded first-in first-out buffer of bytes.  One producer *)
(* puts whole batches (all of a batch or none of it), one consumer takes   *)
(* bytes one at a time, in the order in which they were put.  A get call   *)
(* first fixes how many bytes it will deliver (as many as it asked for, or *)
(* as many as there are) and then delivers exactly that many.              *)
(***************************************************************************)
EXTENDS Integers, Sequences

CONSTANTS Byte,      \* what one slot of the queue holds
          MaxBatch,  \* longest batch one put call is given
          MaxRead    \* most bytes one get call asks for

VARIABLES capacity,  \* how many bytes the queue holds at most
          queue,     \* the bytes put and not yet taken, oldest first
          accepted,  \* what the last finished put call returned
          due,       \* bytes the get call in progress still has to deliver
          out        \* bytes the latest get call has delivered so far

vars == <<capacity, queue, accepted, due, out>>

Batch == UNION {[1..n -> Byte] : n \in 1..MaxBatch}

Init ==
  /\ capacity \in Nat
  /\ queue = <<>>
  /\ accepted \in BOOLEAN
  /\ due = 0
  /\ out = <<>>

\* The whole batch appears at once, behind everything put before it.
Put(batch) ==
  /\ Len(queue) + Len(batch) <= capacity
  /\ queue' = queue \o batch
  /\ accepted' = TRUE
  /\ UNCHANGED <<capacity, due, out>>

\* A batch is refused only when the queue has no room for all of it.
Refuse(batch) ==
  /\ Len(queue) + Len(batch) > capacity
  /\ accepted' = FALSE
  /\ UNCHANGED <<capacity, queue, due, out>>

BeginGet(wanted) ==
  /\ due = 0
  /\ due' = IF wanted < Len(queue) THEN wanted ELSE Len(queue)
  /\ out' = <<>>
  /\ UNCHANGED <<capacity, queue, accepted>>

Take ==
  /\ due > 0
  /\ queue # <<>>
  /\ out' = Append(out, Head(queue))
  /\ queue' = Tail(queue)
  /\ due' = due - 1
  /\ UNCHANGED <<capacity, accepted>>

Next ==
  \/ \E batch \in Batch : Put(batch) \/ Refuse(batch)
  \/ \E wanted \in 1..MaxRead : BeginGet(wanted)
  \/ Take

Spec == Init /\ [][Next]_vars

\* The queue may also be emptied, between two get calls; it may then be
\* given another capacity.
Clear ==
  /\ due = 0
  /\ capacity' \in Nat
  /\ queue' = <<>>
  /\ UNCHANGED <<accepted, due, out>>

ClearSpec == Init /\ [][Next \/ Clear]_vars
=============================================================================
