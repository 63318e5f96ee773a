----------------------------- MODULE MCClockTick ----------------------------
(***************************************************************************)
(* A small clock for TLC: a counter of a few dozen ticks, two seconds to   *)
(* the minute and two minutes to the hour, so that a run of a few wraps    *)
(* also carries into the hours.                                            *)
(***************************************************************************)
EXTENDS ClockTick
=============================================================================
