---------------------------- MODULE MCClockEvents ---------------------------
(***************************************************************************)
(* A small clock with a caller that times things.  MaxElapsed lets the     *)
(* counter turn more than twice, past what the stop watch can express.     *)
(***************************************************************************)
EXTENDS ClockEvents
=============================================================================
