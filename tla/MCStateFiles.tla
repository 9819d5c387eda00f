------------------------------ MODULE MCStateFiles ------------------------------
(***************************************************************************)
(* Finite values for StateFiles: two savers that may write the same file,    *)
(* an old and a new password, and two secrets beyond the stored one.         *)
(***************************************************************************)
EXTENDS StateFiles
=============================================================================
