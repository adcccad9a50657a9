------------------------------- MODULE RestoreMC -------------------------------
(***************************************************************************)
(* The instances of Restore that TLC checks.                                *)
(***************************************************************************)
EXTENDS Restore
=============================================================================
