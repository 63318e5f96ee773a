--------------------------- MODULE MCAssertHandler --------------------------
(***************************************************************************)
(* A few contexts and two assertions.                               *)
(***************************************************************************)
EXTENDS AssertHandler
=============================================================================
