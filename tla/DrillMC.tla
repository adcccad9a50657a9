-------------------------------- MODULE DrillMC --------------------------------
(***************************************************************************)
(* The instances of Drill that TLC checks.                                  *)
(***************************************************************************)
EXTENDS Drill
=============================================================================
