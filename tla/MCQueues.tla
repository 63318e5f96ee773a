------------------------------ MODULE MCQueues ------------------------------
(***************************************************************************)
(* Small instances of Queues for TLC.  Two byte values tell bytes apart;   *)
(* batches one longer than the usable capacity make a refusal happen even  *)
(* on an empty queue, and reads as long as the buffer ask for more than it *)
(* can ever hold.                                                          *)
(***************************************************************************)
EXTENDS Queues
=============================================================================
