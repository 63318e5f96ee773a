-------------------------- MODULE MCQueuesLifecycle -------------------------
(***************************************************************************)
(* Small instances of QueuesLifecycle for TLC, with one or all modes.      *)
(***************************************************************************)
EXTENDS QueuesLifecycle
=============================================================================
