------------------------------ MODULE MCMainApp -----------------------------
(***************************************************************************)
(* The argument lists, one of them as long as the width of the argument    *)
(* count.  The program's name comes first.                                 *)
(***************************************************************************)
EXTENDS MainApp

MCArgv ==
  {<<"other">>, <<"other", "-c">>, <<"other", "-d">>, <<"other", "-d", "-c">>,
   <<"other", "-c", "other", "other">>}
=============================================================================
