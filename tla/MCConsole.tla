------------------------------- MODULE MCConsole -------------------------------
(***************************************************************************)
(* Finite values for Console: two handlers for one slot and one session, and *)
(* a channel that fills up.  The limit of login failures is the code's.      *)
(***************************************************************************)
EXTENDS Console
=============================================================================
